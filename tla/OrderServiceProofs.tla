------------------------- MODULE OrderServiceProofs -------------------------
(***************************************************************************)
(* Theorems about OrderService, for all constants.                         *)
(***************************************************************************)
EXTENDS OrderService, SumTheorems, SequenceTheorems, TLAPS

\* A request in service names an order and a status to give it.
JobOK ==
  \A t \in Workers : pc[t] # "idle" => job[t].order \in Orders /\ job[t].to \in Statuses

TypeInv == TypeOK /\ JobOK

-----------------------------------------------------------------------------
(* Lemmas about the operators of the model.                                *)

\* No lines, an empty SELECT and an empty hand are of their types.
LEMMA NothingTypes ==
  /\ NoLines \in [Key -> Nat]
  /\ NothingWanted \in [Key -> Nat]
  /\ NothingGot \in [Key -> Row]
  /\ NoJob \in Jobs
BY DEF NoLines, NothingWanted, NothingGot, NoRow, Row, NoJob, Jobs

\* Ending a transaction keeps the types of the transaction variables.
LEMMA EndTransactionType ==
  ASSUME TypeInv, NEW t \in Workers, EndTransaction(t)
  PROVE  /\ pc' \in [Workers -> PcStates]
         /\ job' \in [Workers -> Jobs]
         /\ want' \in [Workers -> [Key -> Nat]]
         /\ got' \in [Workers -> [Key -> Row]]
         /\ made' \in [Workers -> SUBSET Key]
         /\ JobOK'
BY NothingTypes DEF TypeInv, TypeOK, JobOK, EndTransaction, PcStates

\* A rollback keeps the type invariant.
LEMMA RollbackType ==
  ASSUME TypeInv, NEW t \in Workers, Rollback(t)
  PROVE  TypeInv'
BY EndTransactionType DEF TypeInv, TypeOK, Rollback, data


\* The rows a commit writes, the audit row it adds and its payloads are of their
\* types.
LEMMA CommitTypes ==
  ASSUME TypeInv, NEW t \in Workers, pc[t] # "idle"
  PROVE  /\ \A qty \in [Key -> Int] : WriteStock(t, qty) => stock' \in [Key -> Row]
         /\ WriteStatus(t) => /\ status' \in [Orders -> Statuses \cup {NoStatus}]
                              /\ audit' \in [Orders -> Seq(Transitions)]
         /\ OrderEventOf(t) \in Events
         /\ stock' \in [Key -> Row] => StockEventOf(t) \in Events
<1> USE DEF TypeInv, TypeOK, JobOK
<1>1. \A qty \in [Key -> Int] : WriteStock(t, qty) => stock' \in [Key -> Row]
  BY DEF WriteStock, Row
<1>2. WriteStatus(t) => /\ status' \in [Orders -> Statuses \cup {NoStatus}]
                        /\ audit' \in [Orders -> Seq(Transitions)]
  BY DEF WriteStatus, Transitions, Jobs
<1>3. OrderEventOf(t) \in Events
  BY DEF OrderEventOf, OrderEvent, Events, Jobs
<1>4. stock' \in [Key -> Row] => StockEventOf(t) \in Events
  BY DEF StockEventOf, StockEvent, Events, Row
<1> QED BY <1>1, <1>2, <1>3, <1>4

\* The service starts well typed.
THEOREM InitType == Init => TypeInv
BY NothingTypes, InitStockAssumption, FirstPkAssumption DEF Init, TypeInv, TypeOK, JobOK, PcStates

\* Every step of a worker keeps the types.
THEOREM NextType == TypeInv /\ [Next]_vars => TypeInv'
<1> SUFFICES ASSUME TypeInv, [Next]_vars PROVE TypeInv'
  OBVIOUS
<1> USE DEF TypeInv, TypeOK, JobOK, data
<1>0. CASE UNCHANGED vars
  BY <1>0 DEF vars, txn
<1>1. ASSUME NEW t \in Workers, NEW o \in Orders, NEW l \in OrderLines, PlaceOrder(t, o, l)
      PROVE  TypeInv'
  <2>1. l \in [Key -> Nat]
    BY MaxLineAssumption DEF OrderLines
  <2>2. want' \in [Workers -> [Key -> Nat]]
    BY <1>1, <2>1 DEF PlaceOrder, Snapshot, Row
  <2> QED BY <1>1, <2>1, <2>2 DEF PlaceOrder, Jobs, PcStates, Statuses
<1>2. ASSUME NEW t \in Workers, InsufficientStock(t) PROVE TypeInv'
  BY <1>2, RollbackType DEF InsufficientStock
<1>3. ASSUME NEW t \in Workers, CommitPlacement(t) PROVE TypeInv'
  <2>1. [k \in Key |-> got[t][k].qty - job[t].lines[k]] \in [Key -> Int]
    BY DEF Jobs, Row
  <2>2. stock' \in [Key -> Row]
    BY <1>3, <2>1, CommitTypes DEF CommitPlacement
  <2>3. items' \in [Orders -> [Key -> Nat]]
    BY <1>3 DEF CommitPlacement, Jobs
  <2> QED BY <1>3, <2>2, <2>3, CommitTypes, EndTransactionType DEF CommitPlacement
<1>4. ASSUME NEW t \in Workers, NEW o \in Orders, NEW to \in Targets, AdvanceOrder(t, o, to)
      PROVE  TypeInv'
  BY <1>4, NothingTypes, TargetsAssumption DEF AdvanceOrder, Jobs, NoJob, PcStates
<1>5. ASSUME NEW t \in Workers, LockOrder(t) PROVE TypeInv'
  BY <1>5 DEF LockOrder, Jobs, PcStates
<1>6. ASSUME NEW t \in Workers, InvalidTransition(t) PROVE TypeInv'
  BY <1>6, RollbackType DEF InvalidTransition
<1>7. ASSUME NEW t \in Workers, CommitTransition(t) PROVE TypeInv'
  BY <1>7, CommitTypes, EndTransactionType DEF CommitTransition
<1>8. ASSUME NEW t \in Workers, BeginRestock(t) PROVE TypeInv'
  <2>1. want' \in [Workers -> [Key -> Nat]]
    BY <1>8 DEF BeginRestock, Snapshot, Row, Jobs
  <2> QED BY <1>8, <2>1 DEF BeginRestock, PcStates
<1>9. ASSUME NEW t \in Workers, NEW k \in Key, RecreateStockRow(t, k) PROVE TypeInv'
  BY <1>9 DEF RecreateStockRow, Row
<1>10. ASSUME NEW t \in Workers, DuplicateStockRow(t) PROVE TypeInv'
  BY <1>10, RollbackType DEF DuplicateStockRow
<1>11. ASSUME NEW t \in Workers, CommitCancellation(t) PROVE TypeInv'
  <2>1. [k \in Key |-> got[t][k].qty + job[t].lines[k]] \in [Key -> Int]
    BY DEF Jobs, Row
  <2>2. stock' \in [Key -> Row]
    BY <1>11, <2>1, CommitTypes DEF CommitCancellation
  <2> QED BY <1>11, <2>2, CommitTypes, EndTransactionType DEF CommitCancellation
<1>12. ASSUME NEW t \in Workers, NEW k \in Key, LockStockRow(t, k) PROVE TypeInv'
  <2>1. got' \in [Workers -> [Key -> Row]]
    <3>1. [got[t] EXCEPT ![k] = stock[k]] \in [Key -> Row]
      OBVIOUS
    <3>2. got' = got \/ got' = [got EXCEPT ![t] = [got[t] EXCEPT ![k] = stock[k]]]
      BY <1>12 DEF LockStockRow
    <3> QED BY <3>1, <3>2
  <2>2. want' \in [Workers -> [Key -> Nat]]
    BY <1>12 DEF LockStockRow
  <2> QED BY <1>12, <2>1, <2>2 DEF LockStockRow
<1>13. ASSUME NEW t \in Workers, Abort(t) PROVE TypeInv'
  BY <1>13, RollbackType DEF Abort
<1>14. ASSUME NEW k \in Key, DeleteStockRow(k) PROVE TypeInv'
  BY <1>14 DEF DeleteStockRow, txn, NoRow, Row
<1> QED
  BY <1>0, <1>1, <1>2, <1>3, <1>4, <1>5, <1>6, <1>7, <1>8, <1>9, <1>10, <1>11, <1>12, <1>13, <1>14
  DEF Next, Place, Advance

\* Every reachable state is well typed.
THEOREM TypeCorrect == Spec => []TypeOK
<1>1. TypeInv => TypeOK
  BY DEF TypeInv
<1> QED BY InitType, NextType, <1>1, PTL DEF Spec

-----------------------------------------------------------------------------
(* Order rows.  A placement owns its identity; an order row has one holder, *)
(* and what the holder read is still committed.                             *)

IdleClean ==
  \A t \in Workers : pc[t] = "idle" =>
    job[t] = NoJob /\ want[t] = NothingWanted /\ got[t] = NothingGot /\ made[t] = {}

PlacingFresh ==
  \A t \in Workers : pc[t] = "place" =>
    /\ status[job[t].order] = NoStatus
    /\ job[t].from = NoStatus /\ job[t].to = "PENDING"
    /\ job[t].lines \in OrderLines
    /\ \A u \in Workers : u # t => job[u].order # job[t].order

OrderLockSound ==
  \A t \in Workers :
    /\ pc[t] \in {"locked", "restock"} =>
         /\ status[job[t].order] # NoStatus
         /\ job[t].from = status[job[t].order]
         /\ job[t].lines = items[job[t].order]
         /\ \A u \in Workers : u # t => ~HoldsOrder(u, job[t].order)
    /\ pc[t] = "restock" => job[t].to = "CANCELLED" /\ TransitionAllowed(t)

JobInv == TypeInv /\ IdleClean /\ PlacingFresh /\ OrderLockSound

\* advance_order waits for an order that exists.  This holds while nobody deletes
\* orders; the steps preserve JobInv as long as what gets locked exists.
OrdersFound == \A t \in Workers : pc[t] = "order" => status[job[t].order] # NoStatus

LocksExisting == \A t \in Workers : LockOrder(t) => status[job[t].order] # NoStatus

\* A worker that has found its order row holds the lock of a row that exists.
LEMMA FoundIsLocked == OrdersFound => LocksExisting
BY DEF OrdersFound, LocksExisting, LockOrder

\* Idle workers satisfy the job invariant.
THEOREM InitJob == Init => JobInv
BY InitType DEF Init, JobInv, IdleClean, PlacingFresh, OrderLockSound

\* A worker that ends its transaction without touching an order disturbs nobody.
LEMMA RollbackJob ==
  ASSUME JobInv, NEW t \in Workers, Rollback(t)
  PROVE  JobInv'
<1> USE DEF JobInv, TypeInv, TypeOK, JobOK, Rollback, EndTransaction, data
<1>1. TypeInv'
  BY RollbackType
<1>2. IdleClean'
  BY DEF IdleClean
<1>3. PlacingFresh'
  BY NoOrderAssumption DEF PlacingFresh, NoJob
<1>4. OrderLockSound'
  BY NoOrderAssumption DEF OrderLockSound, HoldsOrder, TransitionAllowed, NoJob
<1> QED BY <1>1, <1>2, <1>3, <1>4

\* Neither does one that commits a change of its own order.
LEMMA CommitJob ==
  ASSUME JobInv, TypeInv', NEW t \in Workers, pc[t] \in {"place", "locked", "restock"},
         WriteStatus(t), EndTransaction(t),
         \/ UNCHANGED items
         \/ pc[t] = "place" /\ items' = [items EXCEPT ![job[t].order] = job[t].lines]
  PROVE  JobInv'
<1> USE DEF JobInv, TypeInv, TypeOK, JobOK, EndTransaction
<1>1. IdleClean'
  BY DEF IdleClean
<1>2. PlacingFresh'
  <2> SUFFICES ASSUME NEW u \in Workers, pc'[u] = "place"
               PROVE  /\ status'[job'[u].order] = NoStatus
                      /\ job'[u].from = NoStatus /\ job'[u].to = "PENDING"
                      /\ job'[u].lines \in OrderLines
                      /\ \A v \in Workers : v # u => job'[v].order # job'[u].order
    BY DEF PlacingFresh
  <2>1. u # t /\ pc[u] = "place" /\ job'[u] = job[u]
    OBVIOUS
  <2>2. job[t].order # job[u].order
    BY <2>1 DEF PlacingFresh
  <2> QED BY <2>1, <2>2, NoOrderAssumption DEF PlacingFresh, WriteStatus, NoJob
<1>3. OrderLockSound'
  <2> SUFFICES ASSUME NEW u \in Workers, u # t, pc[u] \in {"locked", "restock"}
               PROVE  /\ status'[job[u].order] # NoStatus
                      /\ job[u].from = status'[job[u].order]
                      /\ job[u].lines = items'[job[u].order]
                      /\ \A v \in Workers : v # u => ~HoldsOrder(v, job[u].order)'
                      /\ pc[u] = "restock" => job[u].to = "CANCELLED" /\ TransitionAllowed(u)
    BY DEF OrderLockSound, TransitionAllowed
  <2>1. status[job[u].order] # NoStatus
    BY DEF OrderLockSound
  <2>2. job[t].to # NoStatus
    BY DEF Statuses, NoStatus
  <2>3. job[u].order # job[t].order
    BY DEF OrderLockSound, PlacingFresh, HoldsOrder
  <2>4. \A v \in Workers : v # u => ~HoldsOrder(v, job[u].order)'
    BY DEF OrderLockSound, HoldsOrder
  <2> QED BY <2>1, <2>2, <2>3, <2>4 DEF OrderLockSound, WriteStatus
<1> QED BY <1>1, <1>2, <1>3

\* Every step keeps the link between a worker's place in the code and its job.
THEOREM NextJob == JobInv /\ LocksExisting /\ [Next]_vars => JobInv'
<1> SUFFICES ASSUME JobInv, LocksExisting, [Next]_vars PROVE JobInv'
  OBVIOUS
<1> USE DEF JobInv, data
<1>t. TypeInv'
  BY NextType
<1> USE DEF TypeInv, TypeOK, JobOK
<1>0. CASE UNCHANGED vars
  BY <1>0, <1>t DEF vars, txn, IdleClean, PlacingFresh, OrderLockSound, HoldsOrder, TransitionAllowed
<1>1. ASSUME NEW t \in Workers, NEW o \in Orders, NEW l \in OrderLines, PlaceOrder(t, o, l)
      PROVE  JobInv'
  <2>1. IdleClean'
    BY <1>1 DEF PlaceOrder, Snapshot, IdleClean
  <2>2. PlacingFresh'
    BY <1>1 DEF PlaceOrder, PlacingFresh
  <2>3. OrderLockSound'
    BY <1>1 DEF PlaceOrder, OrderLockSound, HoldsOrder, TransitionAllowed
  <2> QED BY <1>t, <2>1, <2>2, <2>3
<1>2. ASSUME NEW t \in Workers, InsufficientStock(t) PROVE JobInv'
  BY <1>2, RollbackJob DEF InsufficientStock
<1>3. ASSUME NEW t \in Workers, CommitPlacement(t) PROVE JobInv'
  BY <1>3, <1>t, CommitJob DEF CommitPlacement
<1>4. ASSUME NEW t \in Workers, NEW o \in Orders, NEW to \in Targets, AdvanceOrder(t, o, to)
      PROVE  JobInv'
  <2>1. IdleClean'
    BY <1>4 DEF AdvanceOrder, IdleClean
  <2>2. PlacingFresh'
    BY <1>4 DEF AdvanceOrder, PlacingFresh, NoJob
  <2>3. OrderLockSound'
    BY <1>4 DEF AdvanceOrder, OrderLockSound, HoldsOrder, TransitionAllowed, NoJob
  <2> QED BY <1>t, <2>1, <2>2, <2>3
<1>5. ASSUME NEW t \in Workers, LockOrder(t) PROVE JobInv'
  <2>1. IdleClean'
    BY <1>5 DEF LockOrder, IdleClean
  <2>2. PlacingFresh'
    BY <1>5 DEF LockOrder, PlacingFresh
  <2>3. OrderLockSound'
    BY <1>5 DEF LocksExisting, LockOrder, OrderLockSound, HoldsOrder, TransitionAllowed
  <2> QED BY <1>t, <2>1, <2>2, <2>3
<1>6. ASSUME NEW t \in Workers, InvalidTransition(t) PROVE JobInv'
  BY <1>6, RollbackJob DEF InvalidTransition
<1>7. ASSUME NEW t \in Workers, CommitTransition(t) PROVE JobInv'
  BY <1>7, <1>t, CommitJob DEF CommitTransition
<1>8. ASSUME NEW t \in Workers, BeginRestock(t) PROVE JobInv'
  <2>1. IdleClean'
    BY <1>8 DEF BeginRestock, Snapshot, IdleClean
  <2>2. PlacingFresh'
    BY <1>8 DEF BeginRestock, PlacingFresh
  <2>3. OrderLockSound'
    BY <1>8 DEF BeginRestock, OrderLockSound, HoldsOrder, TransitionAllowed
  <2> QED BY <1>t, <2>1, <2>2, <2>3
<1>9. ASSUME NEW t \in Workers, NEW k \in Key, RecreateStockRow(t, k) PROVE JobInv'
  BY <1>9, <1>t
  DEF RecreateStockRow, IdleClean, PlacingFresh, OrderLockSound, HoldsOrder, TransitionAllowed
<1>10. ASSUME NEW t \in Workers, DuplicateStockRow(t) PROVE JobInv'
  BY <1>10, RollbackJob DEF DuplicateStockRow
<1>11. ASSUME NEW t \in Workers, CommitCancellation(t) PROVE JobInv'
  BY <1>11, <1>t, CommitJob DEF CommitCancellation
<1>12. ASSUME NEW t \in Workers, NEW k \in Key, LockStockRow(t, k) PROVE JobInv'
  <2>1. \A u \in Workers : u # t => got'[u] = got[u] /\ want'[u] = want[u]
    BY <1>12 DEF LockStockRow
  <2>2. pc[t] # "idle" /\ UNCHANGED <<stock, status, items, pc, job, made>>
    BY <1>12 DEF LockStockRow
  <2> QED
    BY <1>t, <2>1, <2>2
    DEF IdleClean, PlacingFresh, OrderLockSound, HoldsOrder, TransitionAllowed
<1>13. ASSUME NEW t \in Workers, Abort(t) PROVE JobInv'
  BY <1>13, RollbackJob DEF Abort
<1>14. ASSUME NEW k \in Key, DeleteStockRow(k) PROVE JobInv'
  BY <1>14, <1>t
  DEF DeleteStockRow, txn, IdleClean, PlacingFresh, OrderLockSound, HoldsOrder, TransitionAllowed
<1> QED
  BY <1>0, <1>1, <1>2, <1>3, <1>4, <1>5, <1>6, <1>7, <1>8, <1>9, <1>10, <1>11, <1>12, <1>13, <1>14
  DEF Next, Place, Advance

-----------------------------------------------------------------------------
(* Stock rows.  Committed rows are well formed and their pks differ; a row  *)
(* in hand is locked and fresh, or inserted and nobody else's; the rows a   *)
(* SELECT still has to lock come after those it has locked.                 *)

RowsSound ==
  /\ \A k \in Key : /\ stock[k].qty >= 0
                    /\ stock[k].pk < nextPk
                    /\ stock[k].pk = 0 => stock[k] = NoRow
  /\ \A j, k \in Key : stock[j].pk = stock[k].pk /\ stock[k].pk # 0 => j = k

HandOK(t, k) ==
  /\ got[t][k].pk = 0 => got[t][k] = NoRow
  /\ got[t][k].pk # 0 => /\ pc[t] \in {"place", "restock"}
                         /\ job[t].lines[k] > 0
                         /\ want[t][k] = 0
                         /\ got[t][k].pk < nextPk
                         /\ got[t][k].qty >= 0
  /\ k \in Locked(t) => /\ got[t][k] = stock[k]
                        /\ \A u \in Workers : u # t => k \notin Locked(u)

MadeOK(t, k) ==
  /\ pc[t] = "restock" /\ want[t] = NothingWanted
  /\ got[t][k].pk # 0 /\ got[t][k].qty = 0
  /\ stock[k].pk = 0
  /\ \A j \in Key : stock[j].pk # got[t][k].pk
  /\ \A u \in Workers : \A j \in made[u] :
       /\ j = k => u = t
       /\ got[u][j].pk = got[t][k].pk => u = t /\ j = k

WantOK(t, k) ==
  /\ pc[t] \in {"place", "restock"}
  /\ job[t].lines[k] > 0
  /\ want[t][k] < nextPk
  /\ \A j \in Key : want[t][j] = want[t][k] => j = k
  /\ \A j \in Key : got[t][j].pk < want[t][k]

HandsSound == \A t \in Workers : \A k \in Key : HandOK(t, k)
MadeSound == \A t \in Workers : \A k \in made[t] : MadeOK(t, k)
WantsSound == \A t \in Workers : \A k \in Key : want[t][k] # 0 => WantOK(t, k)

RowInv == JobInv /\ RowsSound /\ HandsSound /\ MadeSound /\ WantsSound

\* Nothing is locked, read or created at the start.
THEOREM InitRow == Init => RowInv
<1> SUFFICES ASSUME Init PROVE RowInv
  OBVIOUS
<1>1. JobInv
  BY InitJob
<1>2. RowsSound
  BY InitStockAssumption, FirstPkAssumption DEF Init, RowsSound, Row
<1>3. HandsSound /\ MadeSound /\ WantsSound
  BY DEF Init, HandsSound, HandOK, MadeSound, WantsSound, NothingGot, NothingWanted, NoRow, Locked
<1> QED BY <1>1, <1>2, <1>3 DEF RowInv

\* Ending its transaction, a worker lets go of everything and nobody else moves.
LEMMA EndTransactionHands ==
  ASSUME RowInv, NEW t \in Workers, EndTransaction(t)
  PROVE  /\ \A k \in Key : got'[t][k].pk = 0 /\ got'[t][k] = NoRow /\ want'[t][k] = 0
         /\ made'[t] = {}
         /\ \A u \in Workers : u # t =>
              /\ pc'[u] = pc[u] /\ job'[u] = job[u] /\ want'[u] = want[u]
              /\ got'[u] = got[u] /\ made'[u] = made[u] /\ Locked(u)' = Locked(u)
         /\ Locked(t)' = {}
BY DEF EndTransaction, RowInv, JobInv, TypeInv, TypeOK, NothingGot, NothingWanted, NoRow, Locked

\* An aborted transaction takes its locks and its uncommitted inserts with it.
LEMMA RollbackRow ==
  ASSUME RowInv, NEW t \in Workers, Rollback(t)
  PROVE  RowInv'
<1>1. JobInv'
  BY RollbackJob DEF RowInv
<1>2. UNCHANGED <<stock, nextPk>> /\ EndTransaction(t)
  BY DEF Rollback, data
<1>3. RowsSound'
  BY <1>2 DEF RowInv, RowsSound
<1>4. HandsSound'
  <2> SUFFICES ASSUME NEW u \in Workers, NEW k \in Key PROVE HandOK(u, k)'
    BY DEF HandsSound
  <2> QED BY <1>2, EndTransactionHands DEF RowInv, HandsSound, HandOK
<1>5. MadeSound'
  <2> SUFFICES ASSUME NEW u \in Workers, NEW k \in made'[u] PROVE MadeOK(u, k)'
    BY DEF MadeSound
  <2>1. u # t /\ MadeOK(u, k)
    BY <1>2, EndTransactionHands DEF RowInv, MadeSound
  <2> QED BY <1>2, <2>1, EndTransactionHands DEF MadeOK
<1>6. WantsSound'
  BY <1>2, EndTransactionHands DEF RowInv, WantsSound, WantOK
<1> QED BY <1>1, <1>3, <1>4, <1>5, <1>6 DEF RowInv

\* A worker that commits its rows publishes exactly what it had locked or inserted.
LEMMA CommitRow ==
  ASSUME RowInv, JobInv', NEW t \in Workers, EndTransaction(t), nextPk' = nextPk,
         NEW qty \in [Key -> Int], WriteStock(t, qty),
         \A k \in Key : got[t][k] # NoRow => qty[k] >= 0
  PROVE  RowInv'
<1>0. /\ stock \in [Key -> Row] /\ nextPk \in Nat
      /\ got \in [Workers -> [Key -> Row]] /\ made \in [Workers -> SUBSET Key]
  BY DEF RowInv, JobInv, TypeInv, TypeOK
<1>1. \A k \in Key : /\ stock'[k].pk = IF got[t][k].pk = 0 THEN stock[k].pk ELSE got[t][k].pk
                     /\ got[t][k].pk = 0 => stock'[k] = stock[k]
                     /\ got[t][k].pk # 0 => stock'[k].qty = qty[k] /\ qty[k] >= 0
  BY <1>0 DEF WriteStock, RowInv, HandsSound, HandOK, NoRow
<1>2. \A k \in Key : got[t][k].pk # 0 =>
        \/ got[t][k].pk = stock[k].pk /\ k \in Locked(t)
        \/ k \in made[t] /\ MadeOK(t, k)
  BY <1>0 DEF RowInv, HandsSound, HandOK, MadeSound, Locked
<1>3. RowsSound'
  <2>1. \A k \in Key : /\ stock'[k].qty >= 0
                       /\ stock'[k].pk < nextPk'
                       /\ stock'[k].pk = 0 => stock'[k] = NoRow
    BY <1>1 DEF RowInv, RowsSound, HandsSound, HandOK
  <2>2. ASSUME NEW j \in Key, NEW k \in Key, stock'[j].pk = stock'[k].pk, stock'[k].pk # 0
        PROVE  j = k
    <3>1. CASE stock'[j].pk = stock[j].pk /\ stock'[k].pk = stock[k].pk
      BY <2>2, <3>1 DEF RowInv, RowsSound
    <3>2. CASE stock'[j].pk # stock[j].pk
      <4>1. j \in made[t] /\ MadeOK(t, j) /\ got[t][j].pk = stock'[j].pk
        BY <1>1, <1>2, <3>2
      <4> QED BY <1>1, <1>2, <2>2, <4>1 DEF MadeOK
    <3>3. CASE stock'[k].pk # stock[k].pk
      <4>1. k \in made[t] /\ MadeOK(t, k) /\ got[t][k].pk = stock'[k].pk
        BY <1>1, <1>2, <3>3
      <4> QED BY <1>1, <1>2, <2>2, <4>1 DEF MadeOK
    <3> QED BY <3>1, <3>2, <3>3
  <2> QED BY <2>1, <2>2 DEF RowsSound
<1>4. HandsSound'
  <2> SUFFICES ASSUME NEW u \in Workers, NEW k \in Key PROVE HandOK(u, k)'
    BY DEF HandsSound
  <2>1. CASE u = t
    BY <2>1, EndTransactionHands DEF HandOK
  <2>2. CASE u # t
    <3>1. HandOK(u, k)
      BY DEF RowInv, HandsSound
    <3>2. ASSUME k \in Locked(u) PROVE stock'[k] = stock[k]
      <4>1. stock[k].pk # 0 /\ k \notin Locked(t)
        BY <2>2, <3>1, <3>2 DEF HandOK, Locked
      <4>2. k \notin made[t]
        BY <4>1 DEF RowInv, MadeSound, MadeOK
      <4> QED BY <1>1, <4>1, <4>2 DEF Locked
    <3> QED BY <2>2, <3>1, <3>2, EndTransactionHands DEF HandOK
  <2> QED BY <2>1, <2>2
<1>5. MadeSound'
  <2> SUFFICES ASSUME NEW u \in Workers, NEW k \in made'[u] PROVE MadeOK(u, k)'
    BY DEF MadeSound
  <2>1. u # t /\ k \in made[u] /\ MadeOK(u, k) /\ k \in Key
    BY <1>0, EndTransactionHands DEF RowInv, MadeSound
  <2>2. \A j \in Key : j \in made[t] => j # k /\ got[t][j].pk # got[u][k].pk
    BY <2>1 DEF MadeOK
  <2>3. stock'[k].pk = 0
    BY <1>1, <1>2, <2>1, <2>2 DEF MadeOK
  <2>4. ASSUME NEW j \in Key PROVE stock'[j].pk # got[u][k].pk
    <3>1. stock[j].pk # got[u][k].pk
      BY <2>1 DEF MadeOK
    <3> QED BY <1>1, <1>2, <2>2, <3>1
  <2> QED BY <2>1, <2>3, <2>4, EndTransactionHands DEF MadeOK
<1>6. WantsSound'
  <2> SUFFICES ASSUME NEW u \in Workers, NEW k \in Key, want'[u][k] # 0 PROVE WantOK(u, k)'
    BY DEF WantsSound
  <2>1. u # t /\ WantOK(u, k)
    BY EndTransactionHands DEF RowInv, WantsSound
  <2> QED BY <2>1, EndTransactionHands DEF WantOK
<1> QED BY <1>3, <1>4, <1>5, <1>6 DEF RowInv

\* A worker that starts its SELECT wants distinct rows and holds none of them yet.
LEMMA SnapshotRow ==
  ASSUME RowInv, JobInv', NEW t \in Workers, NEW l, Snapshot(t, l),
         pc'[t] \in {"place", "restock"}, job'[t].lines = l,
         \A k \in Key : got[t][k].pk = 0, made[t] = {},
         UNCHANGED <<stock, nextPk, got, made>>,
         \A u \in Workers : u # t => pc'[u] = pc[u] /\ job'[u] = job[u]
  PROVE  RowInv'
<1>0. /\ stock \in [Key -> Row] /\ nextPk \in Nat /\ want \in [Workers -> [Key -> Nat]]
      /\ got \in [Workers -> [Key -> Row]] /\ made \in [Workers -> SUBSET Key]
  BY DEF RowInv, JobInv, TypeInv, TypeOK
<1>1. \A u \in Workers : Locked(u)' = Locked(u)
  BY DEF Locked
<1>2. /\ \A k \in Key : want'[t][k] = IF l[k] > 0 THEN stock[k].pk ELSE 0
      /\ \A u \in Workers : u # t => want'[u] = want[u]
  BY <1>0 DEF Snapshot
<1>3. RowsSound'
  BY DEF RowInv, RowsSound
<1>4. HandsSound'
  <2> SUFFICES ASSUME NEW u \in Workers, NEW k \in Key PROVE HandOK(u, k)'
    BY DEF HandsSound
  <2> QED BY <1>1, <1>2 DEF RowInv, HandsSound, HandOK
<1>5. MadeSound'
  <2> SUFFICES ASSUME NEW u \in Workers, NEW k \in made[u] PROVE MadeOK(u, k)'
    BY DEF MadeSound
  <2>1. u # t /\ MadeOK(u, k)
    BY DEF RowInv, MadeSound
  <2> QED BY <1>2, <2>1 DEF MadeOK
<1>6. WantsSound'
  <2> SUFFICES ASSUME NEW u \in Workers, NEW k \in Key, want'[u][k] # 0 PROVE WantOK(u, k)'
    BY DEF WantsSound
  <2>1. CASE u = t
    BY <1>0, <1>2, <2>1 DEF RowInv, RowsSound, WantOK, Row
  <2>2. CASE u # t
    BY <1>2, <2>2 DEF RowInv, WantsSound, WantOK
  <2> QED BY <2>1, <2>2
<1> QED BY <1>3, <1>4, <1>5, <1>6 DEF RowInv

\* Locking the next row of a SELECT keeps the order in which rows are locked.
LEMMA LockStockRowRow ==
  ASSUME RowInv, JobInv', NEW t \in Workers, NEW k \in Key, LockStockRow(t, k)
  PROVE  RowInv'
<1>0. /\ stock \in [Key -> Row] /\ nextPk \in Nat /\ want \in [Workers -> [Key -> Nat]]
      /\ got \in [Workers -> [Key -> Row]] /\ made \in [Workers -> SUBSET Key]
  BY DEF RowInv, JobInv, TypeInv, TypeOK
<1>1. UNCHANGED <<stock, nextPk, pc, job, made>>
  BY DEF LockStockRow, data
<1>2. /\ want[t][k] # 0 /\ WantOK(t, k)
      /\ \A j \in Key : want[t][j] # 0 => want[t][k] <= want[t][j]
      /\ want'[t][k] = 0
      /\ \A u \in Workers : \A j \in Key : u # t \/ j # k => want'[u][j] = want[u][j]
  BY <1>0 DEF LockStockRow, NextRow, RowInv, WantsSound
<1>3. \A u \in Workers : \A j \in Key : u # t \/ j # k => got'[u][j] = got[u][j]
  BY <1>0 DEF LockStockRow
<1>4. \/ got'[t][k] = got[t][k]
      \/ /\ got'[t][k] = stock[k] /\ stock[k].pk = want[t][k]
         /\ \A u \in Workers : u # t => k \notin Locked(u)
  BY <1>0 DEF LockStockRow
<1>5. made[t] = {}
  BY <1>0, <1>2 DEF RowInv, MadeSound, MadeOK, NothingWanted
<1>6. \A u \in Workers : \A j \in Key : u # t \/ j # k => (j \in Locked(u)' <=> j \in Locked(u))
  BY <1>1, <1>3 DEF Locked
<1>7. RowsSound'
  BY <1>1 DEF RowInv, RowsSound
<1>8. HandsSound'
  <2> SUFFICES ASSUME NEW u \in Workers, NEW j \in Key PROVE HandOK(u, j)'
    BY DEF HandsSound
  <2>1. HandOK(u, j) /\ HandOK(t, k)
    BY DEF RowInv, HandsSound
  <2>2. k \in Locked(t)' => /\ got'[t][k] = stock[k]
                            /\ \A v \in Workers : v # t => k \notin Locked(v)
    BY <1>0, <1>1, <1>4, <1>5, <2>1 DEF HandOK, Locked
  <2>3. CASE u = t /\ j = k
    BY <1>0, <1>1, <1>2, <1>4, <1>6, <2>1, <2>2, <2>3 DEF HandOK, WantOK, RowInv, RowsSound
  <2>4. CASE u # t \/ j # k
    BY <1>1, <1>2, <1>3, <1>6, <2>1, <2>2, <2>4 DEF HandOK
  <2> QED BY <2>3, <2>4
<1>9. MadeSound'
  <2> SUFFICES ASSUME NEW u \in Workers, NEW j \in made[u] PROVE MadeOK(u, j)'
    BY <1>1 DEF MadeSound
  <2>1. u # t /\ MadeOK(u, j) /\ j \in Key
    BY <1>0, <1>5 DEF RowInv, MadeSound
  <2>2. want'[u] = want[u]
    BY <2>1 DEF LockStockRow
  <2>3. \A v \in Workers : \A i \in made[v] : v # t /\ got'[v][i] = got[v][i]
    BY <1>0, <1>3, <1>5
  <2> QED BY <1>1, <1>3, <2>1, <2>2, <2>3 DEF MadeOK
<1>10. WantsSound'
  <2> SUFFICES ASSUME NEW u \in Workers, NEW j \in Key, want'[u][j] # 0 PROVE WantOK(u, j)'
    BY DEF WantsSound
  <2>1. (u # t \/ j # k) /\ want'[u][j] = want[u][j] /\ WantOK(u, j)
    BY <1>2 DEF RowInv, WantsSound
  <2>2. \A i \in Key : want'[u][i] = want'[u][j] => i = j
    BY <1>2, <2>1 DEF WantOK
  <2>3. ASSUME u = t PROVE want[t][k] < want[t][j]
    <3>1. j # k /\ want[t][j] # 0 /\ WantOK(t, j)
      BY <1>2, <2>1, <2>3
    <3>2. want[t][k] # want[t][j] /\ want[t][k] <= want[t][j]
      BY <1>2, <3>1 DEF WantOK
    <3>3. want[t][k] \in Nat /\ want[t][j] \in Nat
      BY <1>0
    <3> QED BY <3>2, <3>3
  <2>4. \A i \in Key : got'[u][i].pk < want'[u][j]
    BY <1>3, <1>4, <2>1, <2>3 DEF WantOK
  <2> QED BY <1>1, <2>1, <2>2, <2>4 DEF WantOK
<1> QED BY <1>7, <1>8, <1>9, <1>10 DEF RowInv

\* A recreated row has a pk and a key that nobody else has.
LEMMA RecreateStockRowRow ==
  ASSUME RowInv, JobInv', NEW t \in Workers, NEW k \in Key, RecreateStockRow(t, k)
  PROVE  RowInv'
<1>0. /\ stock \in [Key -> Row] /\ nextPk \in Nat \ {0} /\ want \in [Workers -> [Key -> Nat]]
      /\ got \in [Workers -> [Key -> Row]] /\ made \in [Workers -> SUBSET Key]
  BY DEF RowInv, JobInv, TypeInv, TypeOK
<1>1. UNCHANGED <<stock, pc, job, want>> /\ nextPk' = nextPk + 1
  BY DEF RecreateStockRow
<1>2. /\ pc[t] = "restock" /\ want[t] = NothingWanted
      /\ job[t].lines[k] > 0 /\ got[t][k] = NoRow /\ stock[k].pk = 0
      /\ \A u \in Workers : u # t => k \notin made[u]
  BY DEF RecreateStockRow, SelectDone, Missing, NoRow
<1>3. /\ got'[t][k] = [pk |-> nextPk, qty |-> 0]
      /\ \A u \in Workers : \A j \in Key : u # t \/ j # k => got'[u][j] = got[u][j]
  BY <1>0 DEF RecreateStockRow
<1>4. /\ made'[t] = made[t] \cup {k}
      /\ \A u \in Workers : u # t => made'[u] = made[u]
  BY <1>0 DEF RecreateStockRow
<1>5. \A u \in Workers : Locked(u)' = Locked(u)
  BY <1>0, <1>2, <1>3, <1>4 DEF Locked, NoRow
<1>6. k \notin made[t]
  BY <1>2 DEF RowInv, MadeSound, MadeOK, NoRow
<1>7. RowsSound'
  BY <1>0, <1>1 DEF RowInv, RowsSound, Row
<1>8. HandsSound'
  <2> SUFFICES ASSUME NEW u \in Workers, NEW j \in Key PROVE HandOK(u, j)'
    BY DEF HandsSound
  <2>1. HandOK(u, j)
    BY DEF RowInv, HandsSound
  <2>2. CASE u = t /\ j = k
    <3>1. want'[t][k] = 0 /\ k \notin Locked(t)
      BY <1>1, <1>2 DEF NothingWanted, Locked, NoRow
    <3> QED BY <1>0, <1>1, <1>2, <1>3, <1>5, <2>2, <3>1 DEF HandOK
  <2>3. CASE u # t \/ j # k
    BY <1>0, <1>1, <1>3, <1>5, <2>1, <2>3 DEF HandOK, Row
  <2> QED BY <2>2, <2>3
<1>9. MadeSound'
  <2>1. \A u \in Workers : \A j \in made[u] :
          /\ MadeOK(u, j) /\ j \in Key /\ got[u][j].pk # nextPk
          /\ u # t \/ j # k
          /\ got'[u][j] = got[u][j]
    BY <1>0, <1>3, <1>6 DEF RowInv, MadeSound, HandsSound, HandOK, MadeOK, Row
  <2>2. \A j \in Key : stock[j].pk # nextPk
    BY <1>0 DEF RowInv, RowsSound, Row
  <2> SUFFICES ASSUME NEW u \in Workers, NEW j \in made'[u] PROVE MadeOK(u, j)'
    BY DEF MadeSound
  <2>3. CASE u = t /\ j = k
    <3>1. \A v \in Workers : \A i \in made'[v] :
            /\ i = k => v = t
            /\ got'[v][i].pk = nextPk => v = t /\ i = k
      BY <1>2, <1>4, <2>1
    <3> QED BY <1>0, <1>1, <1>2, <1>3, <2>2, <2>3, <3>1 DEF MadeOK
  <2>4. CASE j \in made[u]
    <3>1. \A v \in Workers : \A i \in made'[v] :
            /\ i = j => v = u
            /\ got'[v][i].pk = got'[u][j].pk => v = u /\ i = j
      BY <1>2, <1>3, <1>4, <2>1, <2>4 DEF MadeOK
    <3> QED BY <1>1, <2>1, <2>4, <3>1 DEF MadeOK
  <2> QED BY <1>4, <2>3, <2>4
<1>10. WantsSound'
  <2> SUFFICES ASSUME NEW u \in Workers, NEW j \in Key, want[u][j] # 0 PROVE WantOK(u, j)'
    BY <1>1 DEF WantsSound
  <2>1. u # t /\ WantOK(u, j)
    BY <1>2 DEF RowInv, WantsSound, NothingWanted
  <2> QED BY <1>0, <1>1, <1>3, <2>1 DEF WantOK
<1> QED BY <1>7, <1>8, <1>9, <1>10 DEF RowInv

\* A row that nobody has locked can go.
LEMMA DeleteStockRowRow ==
  ASSUME RowInv, JobInv', NEW k \in Key, DeleteStockRow(k)
  PROVE  RowInv'
<1>0. stock \in [Key -> Row] /\ made \in [Workers -> SUBSET Key]
  BY DEF RowInv, JobInv, TypeInv, TypeOK
<1>1. UNCHANGED <<nextPk, pc, job, want, got, made>>
  BY DEF DeleteStockRow, txn
<1>2. /\ stock'[k] = NoRow /\ \A j \in Key : j # k => stock'[j] = stock[j]
      /\ \A u \in Workers : k \notin Locked(u)
  BY <1>0 DEF DeleteStockRow
<1>3. \A u \in Workers : Locked(u)' = Locked(u)
  BY <1>1 DEF Locked
<1>4. RowsSound'
  <2>1. nextPk \in Nat \ {0} /\ NoRow.pk = 0 /\ NoRow.qty = 0
    BY DEF RowInv, JobInv, TypeInv, TypeOK, NoRow
  <2>2. \A j \in Key : /\ stock'[j].qty >= 0
                       /\ stock'[j].pk < nextPk'
                       /\ stock'[j].pk = 0 => stock'[j] = NoRow
    BY <1>0, <1>1, <1>2, <2>1 DEF RowInv, RowsSound
  <2>3. \A i, j \in Key : stock'[i].pk = stock'[j].pk /\ stock'[j].pk # 0 => i = j
    BY <1>2, <2>1 DEF RowInv, RowsSound
  <2> QED BY <2>2, <2>3 DEF RowsSound
<1>5. HandsSound'
  BY <1>1, <1>2, <1>3 DEF RowInv, HandsSound, HandOK
<1>6. MadeSound'
  <2> SUFFICES ASSUME NEW u \in Workers, NEW j \in made[u] PROVE MadeOK(u, j)'
    BY <1>1 DEF MadeSound
  <2>1. MadeOK(u, j) /\ j \in Key
    BY <1>0 DEF RowInv, MadeSound
  <2> QED BY <1>1, <1>2, <2>1 DEF MadeOK, NoRow
<1>7. WantsSound'
  BY <1>1 DEF RowInv, WantsSound, WantOK
<1> QED BY <1>4, <1>5, <1>6, <1>7 DEF RowInv

\* Every step keeps the row invariant: what is locked is as it was read.
THEOREM StepRow == RowInv /\ LocksExisting /\ [Next]_vars => RowInv'
<1> SUFFICES ASSUME RowInv, LocksExisting, [Next]_vars PROVE RowInv'
  OBVIOUS
<1>j. JobInv'
  BY NextJob DEF RowInv
<1>n. NothingWanted \in [Key -> Nat] /\ \A k \in Key : NothingGot[k].pk = 0
  BY NothingTypes DEF NothingGot, NoRow
<1>i. \A t \in Workers : pc[t] \notin {"place", "restock"} =>
        (\A k \in Key : got[t][k].pk = 0) /\ made[t] = {}
  <2> SUFFICES ASSUME NEW t \in Workers, pc[t] \notin {"place", "restock"}
               PROVE  (\A k \in Key : got[t][k].pk = 0) /\ made[t] = {}
    OBVIOUS
  <2>1. \A k \in Key : HandOK(t, k)
    BY DEF RowInv, HandsSound
  <2>2. \A k \in made[t] : MadeOK(t, k)
    BY DEF RowInv, MadeSound
  <2> QED BY <2>1, <2>2 DEF HandOK, MadeOK
<1>0. CASE UNCHANGED vars
  BY <1>0, <1>j
  DEF vars, data, txn, RowInv, RowsSound, HandsSound, HandOK, MadeSound, MadeOK, WantsSound, WantOK,
      Locked
<1>1. ASSUME NEW t \in Workers, NEW o \in Orders, NEW l \in OrderLines, PlaceOrder(t, o, l)
      PROVE  RowInv'
  <2>1. /\ UNCHANGED <<stock, nextPk, got, made>>
        /\ pc'[t] = "place" /\ job'[t].lines = l
        /\ \A u \in Workers : u # t => pc'[u] = pc[u] /\ job'[u] = job[u]
    BY <1>1 DEF PlaceOrder, data, RowInv, JobInv, TypeInv, TypeOK
  <2>2. (\A k \in Key : got[t][k].pk = 0) /\ made[t] = {} /\ Snapshot(t, l)
    BY <1>1, <1>i DEF PlaceOrder
  <2> QED BY <1>j, <2>1, <2>2, SnapshotRow
<1>2. ASSUME NEW t \in Workers, InsufficientStock(t) PROVE RowInv'
  BY <1>2, RollbackRow DEF InsufficientStock
<1>3. ASSUME NEW t \in Workers, CommitPlacement(t) PROVE RowInv'
  <2> DEFINE qty == [k \in Key |-> got[t][k].qty - job[t].lines[k]]
  <2>1. qty \in [Key -> Int] /\ \A k \in Key : qty[k] >= 0
    BY <1>3 DEF CommitPlacement, Shortages, RowInv, JobInv, TypeInv, TypeOK, Row, Jobs
  <2>2. WriteStock(t, qty) /\ EndTransaction(t) /\ nextPk' = nextPk
    BY <1>3 DEF CommitPlacement
  <2> HIDE DEF qty
  <2> QED BY <1>j, <2>1, <2>2, CommitRow
<1>4. ASSUME NEW t \in Workers, NEW o \in Orders, NEW to \in Targets, AdvanceOrder(t, o, to)
      PROVE  RowInv'
  <2>1. /\ UNCHANGED <<stock, nextPk, want, got, made>> /\ pc[t] = "idle"
        /\ \A u \in Workers : u # t => pc'[u] = pc[u] /\ job'[u] = job[u]
    BY <1>4 DEF AdvanceOrder, data, RowInv, JobInv, TypeInv, TypeOK
  <2> QED
    BY <1>i, <1>j, <2>1
    DEF RowInv, RowsSound, HandsSound, HandOK, MadeSound, MadeOK, WantsSound, WantOK, Locked
<1>5. ASSUME NEW t \in Workers, LockOrder(t) PROVE RowInv'
  <2>1. /\ UNCHANGED <<stock, nextPk, want, got, made>> /\ pc[t] = "order"
        /\ \A u \in Workers : u # t => pc'[u] = pc[u] /\ job'[u] = job[u]
    BY <1>5 DEF LockOrder, data, RowInv, JobInv, TypeInv, TypeOK
  <2> QED
    BY <1>i, <1>j, <2>1
    DEF RowInv, RowsSound, HandsSound, HandOK, MadeSound, MadeOK, WantsSound, WantOK, Locked
<1>6. ASSUME NEW t \in Workers, InvalidTransition(t) PROVE RowInv'
  BY <1>6, RollbackRow DEF InvalidTransition
<1>7. ASSUME NEW t \in Workers, CommitTransition(t) PROVE RowInv'
  <2>1. /\ \A k \in Key : got[t][k] = NoRow
        /\ UNCHANGED <<stock, nextPk>> /\ EndTransaction(t)
    BY <1>7, <1>i DEF CommitTransition, RowInv, HandsSound, HandOK
  <2> DEFINE qty == [k \in Key |-> 0]
  <2>2. WriteStock(t, qty) /\ qty \in [Key -> Int]
    BY <2>1 DEF WriteStock, RowInv, JobInv, TypeInv, TypeOK
  <2> HIDE DEF qty
  <2> QED BY <1>j, <2>1, <2>2, CommitRow
<1>8. ASSUME NEW t \in Workers, BeginRestock(t) PROVE RowInv'
  <2>1. /\ UNCHANGED <<stock, nextPk, job, got, made>> /\ pc'[t] = "restock"
        /\ \A u \in Workers : u # t => pc'[u] = pc[u]
    BY <1>8 DEF BeginRestock, data, RowInv, JobInv, TypeInv, TypeOK
  <2>2. (\A k \in Key : got[t][k].pk = 0) /\ made[t] = {} /\ Snapshot(t, job[t].lines)
    BY <1>8, <1>i DEF BeginRestock
  <2> QED BY <1>j, <2>1, <2>2, SnapshotRow
<1>9. ASSUME NEW t \in Workers, NEW k \in Key, RecreateStockRow(t, k) PROVE RowInv'
  BY <1>9, <1>j, RecreateStockRowRow
<1>10. ASSUME NEW t \in Workers, DuplicateStockRow(t) PROVE RowInv'
  BY <1>10, RollbackRow DEF DuplicateStockRow
<1>11. ASSUME NEW t \in Workers, CommitCancellation(t) PROVE RowInv'
  <2> DEFINE qty == [k \in Key |-> got[t][k].qty + job[t].lines[k]]
  <2>1. qty \in [Key -> Int] /\ \A k \in Key : got[t][k] # NoRow => qty[k] >= 0
    BY DEF RowInv, JobInv, TypeInv, TypeOK, Row, Jobs, HandsSound, HandOK
  <2>2. WriteStock(t, qty) /\ EndTransaction(t) /\ nextPk' = nextPk
    BY <1>11 DEF CommitCancellation
  <2> HIDE DEF qty
  <2> QED BY <1>j, <2>1, <2>2, CommitRow
<1>12. ASSUME NEW t \in Workers, NEW k \in Key, LockStockRow(t, k) PROVE RowInv'
  BY <1>12, <1>j, LockStockRowRow
<1>13. ASSUME NEW t \in Workers, Abort(t) PROVE RowInv'
  BY <1>13, RollbackRow DEF Abort
<1>14. ASSUME NEW k \in Key, DeleteStockRow(k) PROVE RowInv'
  BY <1>14, <1>j, DeleteStockRowRow
<1> QED
  BY <1>0, <1>1, <1>2, <1>3, <1>4, <1>5, <1>6, <1>7, <1>8, <1>9, <1>10, <1>11, <1>12, <1>13, <1>14
  DEF Next, Place, Advance

\* The orders that are waited for exist: the service never deletes one.
THEOREM StepFound == JobInv /\ OrdersFound /\ [Next]_vars => OrdersFound'
<1> SUFFICES ASSUME JobInv, OrdersFound, [Next]_vars,
                    NEW u \in Workers, pc'[u] = "order"
             PROVE  status'[job'[u].order] # NoStatus
  BY DEF OrdersFound
<1> USE DEF JobInv, TypeInv, TypeOK, JobOK
<1>1. ASSUME NEW t \in Workers, WriteStatus(t), EndTransaction(t), pc[t] # "idle"
      PROVE  status'[job'[u].order] # NoStatus
  BY <1>1 DEF WriteStatus, EndTransaction, OrdersFound, Statuses, NoStatus
<1>2. ASSUME NEW t \in Workers, Rollback(t) PROVE status'[job'[u].order] # NoStatus
  BY <1>2 DEF Rollback, EndTransaction, data, OrdersFound
<1>3. ASSUME NEW t \in Workers, NEW o \in Orders, NEW to \in Targets, AdvanceOrder(t, o, to)
      PROVE  status'[job'[u].order] # NoStatus
  BY <1>3 DEF AdvanceOrder, data, OrdersFound, NoJob
<1>4. ASSUME NEW t \in Workers, LockOrder(t) \/ BeginRestock(t)
      PROVE  status'[job'[u].order] # NoStatus
  BY <1>4 DEF LockOrder, BeginRestock, data, OrdersFound
<1>5. ASSUME NEW t \in Workers, NEW o \in Orders, NEW l \in OrderLines, PlaceOrder(t, o, l)
      PROVE  status'[job'[u].order] # NoStatus
  BY <1>5 DEF PlaceOrder, data, OrdersFound
<1>6. CASE UNCHANGED <<pc, job, status>>
  BY <1>6 DEF OrdersFound
<1>7. \/ UNCHANGED <<pc, job, status>>
      \/ \E t \in Workers :
           \/ WriteStatus(t) /\ EndTransaction(t) /\ pc[t] # "idle"
           \/ Rollback(t) \/ LockOrder(t) \/ BeginRestock(t)
           \/ \E o \in Orders, to \in Targets : AdvanceOrder(t, o, to)
           \/ \E o \in Orders, l \in OrderLines : PlaceOrder(t, o, l)
  BY DEF Next, Place, Advance, InsufficientStock, CommitPlacement, InvalidTransition,
         CommitTransition, RecreateStockRow, DuplicateStockRow, CommitCancellation,
         LockStockRow, Abort, DeleteStockRow, data, txn, vars
<1> QED BY <1>1, <1>2, <1>3, <1>4, <1>5, <1>6, <1>7

ServiceInv == RowInv /\ OrdersFound

\* The whole invariant of the service holds at the start.
THEOREM InitService == Init => ServiceInv
BY InitRow DEF Init, ServiceInv, OrdersFound

\* Every step of the service keeps the whole invariant.
THEOREM StepService == ServiceInv /\ [Next]_vars => ServiceInv'
BY StepRow, StepFound, FoundIsLocked DEF ServiceInv, RowInv

\* The whole invariant of the service holds always.
THEOREM ServiceInvariant == Spec => []ServiceInv
BY InitService, StepService, PTL DEF Spec

\* The part about row locks and rows in hand, which the safety theorems cite.
THEOREM RowInvariant == Spec => []RowInv
<1>1. ServiceInv => RowInv
  BY DEF ServiceInv
<1> QED BY <1>1, ServiceInvariant, PTL

\* No interleaving, crash or row deletion makes a committed quantity negative.
THEOREM NeverOversold == Spec => []NoOversell
<1>1. RowInv => NoOversell
  BY DEF RowInv, RowsSound, NoOversell
<1> QED BY RowInvariant, <1>1, PTL

\* What the invariant says of the rows in hand.
LEMMA RowsAreFresh == RowInv => LockedRowsFresh
<1> SUFFICES ASSUME RowInv PROVE LockedRowsFresh
  OBVIOUS
<1>1. \A t \in Workers : \A k \in Locked(t) : got[t][k] = stock[k]
  BY DEF RowInv, HandsSound, HandOK, Locked
<1>2. \A t \in Workers : pc[t] \in {"locked", "restock"} =>
        job[t].from = status[job[t].order] /\ job[t].lines = items[job[t].order]
  BY DEF RowInv, JobInv, OrderLockSound
<1>3. \A t \in Workers : \A k \in made[t] :
        stock[k] = NoRow /\ \A u \in Workers \ {t} : k \notin made[u]
  BY DEF RowInv, JobInv, TypeInv, TypeOK, RowsSound, MadeSound, MadeOK
<1> QED BY <1>1, <1>2, <1>3 DEF LockedRowsFresh

\* What is read under a lock stays what is committed until the lock is released.
THEOREM LocksProtect == Spec => []LockedRowsFresh
BY RowInvariant, RowsAreFresh, PTL

-----------------------------------------------------------------------------
(* The audit trail.                                                        *)

\* A legal trail goes on with the creation, or with a step of the flow.
LEMMA TrailExtends ==
  ASSUME NEW trail \in Seq(Transitions), NEW st \in Statuses \cup {NoStatus},
         NEW to \in Statuses, LegalTrail(trail, st),
         IF trail = <<>> THEN to = "PENDING" ELSE to \in Flow[st]
  PROVE  LegalTrail(Append(trail, <<st, to>>), to)
<1> DEFINE longer == Append(trail, <<st, to>>)
           n == Len(trail)
<1>1. /\ n \in Nat /\ Len(longer) = n + 1 /\ longer # <<>> /\ longer[n + 1] = <<st, to>>
      /\ \A i \in 1..n : longer[i] = trail[i]
      /\ trail = <<>> <=> n = 0
  <2>1. <<st, to>> \in Transitions
    BY DEF Transitions
  <2>2. Len(trail) \in Nat /\ (trail = <<>> <=> Len(trail) = 0)
    BY EmptySeq, LenProperties
  <2> QED BY <2>1, <2>2, AppendProperties
<1>2. to # NoStatus
  BY DEF Statuses, NoStatus
<1>3. longer[1] = <<NoStatus, "PENDING">>
  <2>1. CASE n = 0
    BY <1>1, <2>1 DEF LegalTrail
  <2>2. CASE n # 0
    BY <1>1, <2>2 DEF LegalTrail
  <2> QED BY <2>1, <2>2
<1>4. ASSUME NEW i \in 2..(n + 1)
      PROVE  longer[i][1] = longer[i - 1][2] /\ longer[i][2] \in Flow[longer[i][1]]
  <2>1. CASE i = n + 1
    <3>1. n # 0 /\ n \in 1..n /\ trail[n][2] = st
      BY <1>1, <2>1 DEF LegalTrail
    <3>2. longer[i] = <<st, to>> /\ longer[i - 1] = trail[n]
      BY <1>1, <2>1, <3>1
    <3> QED BY <1>1, <3>1, <3>2
  <2>2. CASE i # n + 1
    <3>1. i \in 2..n /\ i \in 1..n /\ i - 1 \in 1..n
      BY <1>1, <2>2
    <3>2. longer[i] = trail[i] /\ longer[i - 1] = trail[i - 1]
      BY <1>1, <3>1
    <3> QED BY <3>1, <3>2 DEF LegalTrail
  <2> QED BY <2>1, <2>2
<1> HIDE DEF longer, n
<1>5. LegalTrail(longer, to)
  BY <1>1, <1>2, <1>3, <1>4 DEF LegalTrail
<1> QED BY <1>5 DEF longer

\* A worker that writes a status goes on from the last audited one.
LEMMA CommitAudit ==
  ASSUME JobInv, AuditIsLifecycle, NEW t \in Workers, WriteStatus(t),
         \/ pc[t] = "place"
         \/ pc[t] \in {"locked", "restock"} /\ TransitionAllowed(t)
  PROVE  AuditIsLifecycle'
<1> DEFINE o == job[t].order
<1>0. /\ o \in Orders /\ job[t].to \in Statuses
      /\ audit \in [Orders -> Seq(Transitions)]
      /\ status \in [Orders -> Statuses \cup {NoStatus}]
  BY DEF JobInv, TypeInv, TypeOK, JobOK
<1>1. LegalTrail(audit[o], status[o])
  BY <1>0 DEF AuditIsLifecycle
<1>2. /\ job[t].from = status[o]
      /\ IF audit[o] = <<>> THEN job[t].to = "PENDING" ELSE job[t].to \in Flow[status[o]]
  <2>1. CASE pc[t] = "place"
    BY <1>1, <2>1 DEF JobInv, PlacingFresh, LegalTrail
  <2>2. CASE pc[t] \in {"locked", "restock"} /\ TransitionAllowed(t)
    BY <1>1, <2>2 DEF JobInv, OrderLockSound, LegalTrail, TransitionAllowed
  <2> QED BY <2>1, <2>2
<1>3. LegalTrail(Append(audit[o], <<job[t].from, job[t].to>>), job[t].to)
  BY <1>0, <1>1, <1>2, TrailExtends
<1>4. /\ status'[o] = job[t].to /\ audit'[o] = Append(audit[o], <<job[t].from, job[t].to>>)
      /\ \A p \in Orders : p # o => status'[p] = status[p] /\ audit'[p] = audit[p]
  BY <1>0 DEF WriteStatus
<1> QED BY <1>3, <1>4 DEF AuditIsLifecycle

\* No order's audit trail ever skips, repeats or disputes a step of the lifecycle.
THEOREM AuditComplete == Spec => []AuditIsLifecycle
<1>1. Init => AuditIsLifecycle
  BY DEF Init, AuditIsLifecycle, LegalTrail
<1>2. RowInv /\ AuditIsLifecycle /\ [Next]_vars => AuditIsLifecycle'
  <2> SUFFICES ASSUME JobInv, AuditIsLifecycle, [Next]_vars PROVE AuditIsLifecycle'
    BY DEF RowInv
  <2>1. CASE UNCHANGED <<status, audit>>
    BY <2>1 DEF AuditIsLifecycle
  <2>2. ASSUME NEW t \in Workers, CommitPlacement(t) \/ CommitTransition(t) \/ CommitCancellation(t)
        PROVE  AuditIsLifecycle'
    <3>1. pc[t] = "restock" => TransitionAllowed(t)
      BY DEF JobInv, OrderLockSound
    <3> QED BY <2>2, <3>1, CommitAudit DEF CommitPlacement, CommitTransition, CommitCancellation
  <2>3. \/ UNCHANGED <<status, audit>>
        \/ \E t \in Workers : CommitPlacement(t) \/ CommitTransition(t) \/ CommitCancellation(t)
    BY DEF Next, Place, Advance, PlaceOrder, InsufficientStock, AdvanceOrder, LockOrder,
           InvalidTransition, BeginRestock, RecreateStockRow, DuplicateStockRow, LockStockRow,
           Abort, DeleteStockRow, Rollback, data, vars
  <2> QED BY <2>1, <2>2, <2>3
<1> QED BY <1>1, <1>2, RowInvariant, PTL DEF Spec

-----------------------------------------------------------------------------
(* Units.                                                                  *)

\* What a worker holds when it commits: exactly the rows of its lines.
LEMMA HandIsLines ==
  ASSUME RowInv, NEW t \in Workers, pc[t] \in {"place", "restock"}, SelectDone(t),
         Shortages(t) = {} \/ Missing(t) = {}, NEW k \in Key
  PROVE  /\ got[t][k] # NoRow <=> job[t].lines[k] > 0
         /\ got[t][k] # NoRow => got[t][k].pk # 0
         /\ got[t][k] # NoRow => got[t][k].qty = stock[k].qty
         /\ pc[t] = "place" /\ got[t][k] # NoRow => stock[k].pk = got[t][k].pk
         /\ job[t].lines[k] \in Nat /\ stock[k].qty \in Nat
         /\ stock[k] # NoRow <=> stock[k].pk # 0
<1>0. /\ TypeOK /\ HandOK(t, k)
      /\ job[t].lines[k] \in Nat /\ stock[k] \in Row /\ got[t][k] \in Row
      /\ stock[k].qty >= 0 /\ (stock[k].pk = 0 => stock[k] = NoRow)
  BY DEF RowInv, RowsSound, JobInv, TypeInv, TypeOK, Jobs, HandsSound
<1>1. job[t].lines[k] > 0 => got[t][k] # NoRow
  BY <1>0 DEF Missing, Shortages, NoRow
<1>2. got[t][k] # NoRow => got[t][k].pk # 0 /\ job[t].lines[k] > 0
  BY <1>0 DEF HandOK
<1>3. CASE k \in made[t]
  <2>1. MadeOK(t, k)
    BY <1>3 DEF RowInv, MadeSound
  <2> QED BY <1>0, <1>1, <1>2, <2>1 DEF MadeOK, NoRow, Row
<1>4. CASE k \notin made[t]
  BY <1>0, <1>1, <1>2, <1>4 DEF HandOK, Locked, NoRow, Row
<1> QED BY <1>3, <1>4

\* The units of key k that order o holds.
HeldBy(k) == [o \in Orders |-> IF Active(o) THEN items[o][k] ELSE 0]

Held(k) == SumFunctionOnSet(HeldBy(k), Orders)

\* The units of a key held by orders that were not cancelled are an integer.
LEMMA HeldType == ASSUME TypeOK, NEW k \in Key PROVE Held(k) \in Int
<1> DEFINE f == HeldBy(k)
<1>1. \A p \in Orders : f[p] \in Int
  BY DEF HeldBy, TypeOK
<1> HIDE DEF f
<1>2. SumFunctionOnSet(f, Orders) \in Int
  BY <1>1, OrdersAssumption, SumType
<1> QED BY <1>2 DEF f, Held

\* What the orders hold changes by what the one order that changes holds.
LEMMA HeldChanges ==
  ASSUME TypeOK, TypeOK', NEW k \in Key, NEW o \in Orders,
         \A p \in Orders \ {o} : status'[p] = status[p] /\ items'[p] = items[p]
  PROVE  Held(k)' = Held(k) - HeldBy(k)[o] + HeldBy(k)'[o]
<1> DEFINE f == HeldBy(k)
           g == HeldBy(k)'
<1>1. \A p \in Orders : f[p] \in Int /\ g[p] \in Int
  BY DEF HeldBy, TypeOK
<1>2. \A p \in Orders \ {o} : g[p] = f[p]
  BY DEF HeldBy, Active
<1>3. Held(k) = SumFunctionOnSet(f, Orders) /\ Held(k)' = SumFunctionOnSet(g, Orders)
  BY DEF Held
<1> HIDE DEF f, g
<1>4. SumFunctionOnSet(g, Orders) = SumFunctionOnSet(f, Orders) - f[o] + g[o]
  BY <1>1, <1>2, OrdersAssumption, SumChange
<1> QED BY <1>3, <1>4 DEF f, g

\* A placement takes from stock what its new order holds from then on.
LEMMA PlacementConserves ==
  ASSUME RowInv, TypeOK', NEW t \in Workers, CommitPlacement(t), NEW k \in Key
  PROVE  stock'[k].qty + Held(k)' = stock[k].qty + Held(k)
<1> DEFINE o == job[t].order
<1>0. /\ o \in Orders /\ status[o] = NoStatus /\ job[t].to = "PENDING"
      /\ pc[t] = "place" /\ SelectDone(t) /\ Shortages(t) = {}
      /\ TypeOK
  BY DEF CommitPlacement, RowInv, JobInv, TypeInv, JobOK, PlacingFresh
<1>1. /\ stock'[k].qty = stock[k].qty - job[t].lines[k]
      /\ job[t].lines[k] \in Nat /\ stock[k].qty \in Nat
  BY <1>0, HandIsLines DEF CommitPlacement, WriteStock, NoRow
<1>2. /\ status' = [status EXCEPT ![o] = "PENDING"]
      /\ items' = [items EXCEPT ![o] = job[t].lines]
  BY <1>0 DEF CommitPlacement, WriteStatus
<1>3. HeldBy(k)[o] = 0 /\ HeldBy(k)'[o] = job[t].lines[k]
  BY <1>0, <1>2 DEF HeldBy, Active, TypeOK, NoStatus
<1>4. Held(k) \in Int /\ Held(k)' = Held(k) - HeldBy(k)[o] + HeldBy(k)'[o]
  BY <1>0, <1>2, HeldType, HeldChanges DEF TypeOK
<1> QED BY <1>1, <1>3, <1>4

\* A cancellation returns to stock what its order held until then.
LEMMA CancellationConserves ==
  ASSUME RowInv, TypeOK', NEW t \in Workers, CommitCancellation(t), NEW k \in Key
  PROVE  stock'[k].qty + Held(k)' = stock[k].qty + Held(k)
<1> DEFINE o == job[t].order
<1>0. /\ o \in Orders /\ job[t].to = "CANCELLED" /\ job[t].lines = items[o]
      /\ status[o] \in Statuses /\ "CANCELLED" \in Flow[status[o]]
      /\ pc[t] = "restock" /\ SelectDone(t) /\ Missing(t) = {}
      /\ TypeOK
  BY DEF CommitCancellation, TransitionAllowed, RowInv, JobInv, TypeInv, TypeOK, JobOK, OrderLockSound
<1>1. /\ stock'[k].qty = stock[k].qty + job[t].lines[k]
      /\ job[t].lines[k] \in Nat /\ stock[k].qty \in Nat
  BY <1>0, HandIsLines DEF CommitCancellation, WriteStock, NoRow
<1>2. status' = [status EXCEPT ![o] = "CANCELLED"] /\ items' = items
  BY <1>0 DEF CommitCancellation, WriteStatus
<1>3. status[o] # "CANCELLED" /\ status[o] # NoStatus
  BY <1>0 DEF Flow, Statuses, NoStatus
<1>4. HeldBy(k)[o] = job[t].lines[k] /\ HeldBy(k)'[o] = 0
  BY <1>0, <1>2, <1>3 DEF HeldBy, Active, TypeOK
<1>5. Held(k) \in Int /\ Held(k)' = Held(k) - HeldBy(k)[o] + HeldBy(k)'[o]
  BY <1>0, <1>2, HeldType, HeldChanges DEF TypeOK
<1> QED BY <1>1, <1>4, <1>5

\* Any other transition leaves the order what it holds.
LEMMA TransitionConserves ==
  ASSUME RowInv, TypeOK', NEW t \in Workers, CommitTransition(t), NEW k \in Key
  PROVE  stock'[k].qty + Held(k)' = stock[k].qty + Held(k)
<1> DEFINE o == job[t].order
<1>0. /\ o \in Orders /\ job[t].to \in Statuses \ {"CANCELLED"}
      /\ status[o] \in Statuses /\ job[t].to \in Flow[status[o]]
      /\ TypeOK
  BY DEF CommitTransition, TransitionAllowed, RowInv, JobInv, TypeInv, TypeOK, JobOK, OrderLockSound
<1>1. stock' = stock /\ items' = items /\ status' = [status EXCEPT ![o] = job[t].to]
  BY DEF CommitTransition, WriteStatus
<1>2. status[o] # "CANCELLED" /\ status[o] # NoStatus
  BY <1>0 DEF Flow, Statuses, NoStatus
<1>3. HeldBy(k)'[o] = HeldBy(k)[o] /\ HeldBy(k)[o] \in Int
  BY <1>0, <1>1, <1>2 DEF HeldBy, Active, TypeOK, Statuses, NoStatus
<1>4. Held(k)' = Held(k) - HeldBy(k)[o] + HeldBy(k)'[o] /\ Held(k) \in Int
  BY <1>0, <1>1, HeldType, HeldChanges DEF TypeOK
<1> QED BY <1>1, <1>3, <1>4

\* No step of a worker creates or loses a unit.
LEMMA WorkerConserves ==
  ASSUME RowInv, TypeOK', NEW k \in Key, NEW t \in Workers,
         \/ Place(t) \/ Advance(t) \/ Abort(t)
         \/ \E j \in Key : LockStockRow(t, j)
  PROVE  stock'[k].qty + Held(k)' = stock[k].qty + Held(k) /\ lost' = lost
<1>1. CASE UNCHANGED <<stock, status, items, lost>>
  BY <1>1 DEF Held, HeldBy, Active
<1>2. CASE CommitPlacement(t) \/ CommitTransition(t) \/ CommitCancellation(t)
  BY <1>2, PlacementConserves, TransitionConserves, CancellationConserves
  DEF CommitPlacement, CommitTransition, CommitCancellation
<1> QED
  BY <1>1, <1>2 DEF Place, Advance, PlaceOrder, InsufficientStock, AdvanceOrder, LockOrder,
     InvalidTransition, BeginRestock, RecreateStockRow, DuplicateStockRow, LockStockRow,
     Abort, Rollback, data

\* Whoever races, fails or deletes rows, every unit is on hand, held by an order that
\* was not cancelled, or was deleted with its row.
THEOREM UnitsAreConserved == Spec => []UnitsConserved
<1>0. UnitsConserved <=> \A k \in Key : stock[k].qty + Held(k) = InitStock[k].qty - lost[k]
  BY DEF UnitsConserved, Held, HeldBy
<1>1. Init => UnitsConserved
  <2> SUFFICES ASSUME Init, NEW k \in Key
               PROVE  stock[k].qty + Held(k) = InitStock[k].qty - lost[k]
    BY <1>0
  <2>1. HeldBy(k) = [o \in Orders |-> 0]
    BY DEF Init, HeldBy, Active
  <2>2. Held(k) = 0
    BY <2>1, SumZero, OrdersAssumption DEF Held
  <2> QED BY <2>2, InitStockAssumption DEF Init, Row
<1>2. RowInv /\ TypeOK' /\ UnitsConserved /\ [Next]_vars => UnitsConserved'
  <2> SUFFICES ASSUME RowInv, TypeOK', UnitsConserved, [Next]_vars, NEW k \in Key
               PROVE  stock'[k].qty + Held(k)' = InitStock[k].qty - lost'[k]
    BY DEF UnitsConserved, Held, HeldBy
  <2>0. stock[k].qty + Held(k) = InitStock[k].qty - lost[k]
    BY <1>0
  <2>1. CASE UNCHANGED vars
    BY <2>0, <2>1 DEF vars, data, Held, HeldBy, Active
  <2>2. ASSUME NEW t \in Workers,
               Place(t) \/ Advance(t) \/ Abort(t) \/ \E j \in Key : LockStockRow(t, j)
        PROVE  stock'[k].qty + Held(k)' = InitStock[k].qty - lost'[k]
    BY <2>0, <2>2, WorkerConserves
  <2>3. ASSUME NEW j \in Key, DeleteStockRow(j)
        PROVE  stock'[k].qty + Held(k)' = InitStock[k].qty - lost'[k]
    <3>1. Held(k)' = Held(k)
      BY <2>3 DEF DeleteStockRow, Held, HeldBy, Active
    <3>2. /\ stock' = [stock EXCEPT ![j] = NoRow]
          /\ lost' = [lost EXCEPT ![j] = @ + stock[j].qty]
      BY <2>3 DEF DeleteStockRow
    <3>3. /\ stock \in [Key -> Row] /\ lost \in [Key -> Int] /\ Held(k) \in Int
          /\ InitStock[k].qty \in Int
      BY HeldType, InitStockAssumption DEF RowInv, JobInv, TypeInv, TypeOK, Row
    <3> QED BY <2>0, <3>1, <3>2, <3>3 DEF Row, NoRow
  <2> QED BY <2>1, <2>2, <2>3 DEF Next
<1>3. RowInv => TypeOK
  BY DEF RowInv, JobInv, TypeInv
<1> QED BY <1>1, <1>2, <1>3, RowInvariant, PTL DEF Spec

-----------------------------------------------------------------------------
(* Refinement.                                                             *)

\* The two modules speak of the same things.
LEMMA SameVocabulary ==
  /\ Book!Key = Key /\ Book!Statuses = Statuses /\ Book!NoStatus = NoStatus
  /\ Book!Flow = Flow /\ Book!NoLines = NoLines /\ Book!OrderLines = OrderLines
  /\ \A o, from, to : Book!OrderEvent(o, from, to) = OrderEvent(o, from, to)
  /\ \A keys, qty : Book!StockEvent(keys, qty) = StockEvent(keys, qty)
  /\ \A l : Book!Keys(l) = {k \in Key : l[k] > 0}
<1>1. Book!Key = Key /\ Book!Statuses = Statuses /\ Book!NoStatus = NoStatus
  BY DEF Book!Key, Key, Book!Statuses, Statuses, Book!NoStatus, NoStatus
<1>2. Book!Flow = Flow /\ Book!NoLines = NoLines
  BY <1>1 DEF Book!Flow, Flow, Book!NoLines, NoLines
<1>3. Book!OrderLines = OrderLines
  BY <1>1 DEF Book!OrderLines, OrderLines
<1>4. \A o, from, to : Book!OrderEvent(o, from, to) = OrderEvent(o, from, to)
  BY DEF Book!OrderEvent, OrderEvent
<1>5. \A keys, qty : Book!StockEvent(keys, qty) = StockEvent(keys, qty)
  BY <1>1 DEF Book!StockEvent, StockEvent
<1>6. \A l : Book!Keys(l) = {k \in Key : l[k] > 0}
  BY <1>1 DEF Book!Keys
<1> QED BY <1>1, <1>2, <1>3, <1>4, <1>5, <1>6

\* The tables at the start are an order book without orders.
THEOREM RefinesInit == Init => Book!Init
BY SameVocabulary DEF Init, Book!Init

\* The commit of place_order, whose rows were locked and read one after the other,
\* is the atomic placement of the order book.
LEMMA PlacementIsPlace ==
  ASSUME RowInv, NEW t \in Workers, CommitPlacement(t),
         NEW o \in Orders, o = job[t].order, NEW l \in OrderLines, l = job[t].lines
  PROVE  Book!Place(o, l)
<1>0. /\ status[o] = NoStatus
      /\ job[t].from = NoStatus /\ job[t].to = "PENDING"
      /\ pc[t] = "place" /\ SelectDone(t) /\ Shortages(t) = {}
      /\ items \in [Orders -> [Key -> Nat]] /\ stock \in [Key -> Row]
  BY DEF CommitPlacement, RowInv, JobInv, TypeInv, TypeOK, JobOK, PlacingFresh
<1>1. \A k \in Key : /\ got[t][k] # NoRow <=> l[k] > 0
                     /\ got[t][k] # NoRow => stock[k].pk = got[t][k].pk /\ stock[k].pk # 0
                     /\ got[t][k] # NoRow => got[t][k].qty = stock[k].qty
                     /\ l[k] \in Nat /\ stock[k].qty \in Nat
                     /\ stock[k] # NoRow <=> stock[k].pk # 0
  BY <1>0, HandIsLines
<1>2. \A k \in Key : /\ stock'[k].qty = stock[k].qty - l[k]
                     /\ stock'[k] # NoRow <=> stock[k] # NoRow
  BY <1>0, <1>1 DEF CommitPlacement, WriteStock, NoRow
<1>3. \A k \in Key : l[k] <= stock[k].qty
  BY <1>0, <1>1 DEF Shortages, NoRow
<1>4. items' = [items EXCEPT ![o] = l] /\ items'[o] = l
  BY <1>0 DEF CommitPlacement
<1>5. channel' = Append(Append(channel, OrderEvent(o, NoStatus, "PENDING")),
                      StockEvent({k \in Key : l[k] > 0}, [k \in Key |-> stock'[k].qty]))
  <2>1. {k \in Key : got[t][k] # NoRow} = {k \in Key : l[k] > 0}
    BY <1>1
  <2> QED BY <1>0, <2>1 DEF CommitPlacement, OrderEventOf, StockEventOf
<1>6. /\ status' = [status EXCEPT ![o] = "PENDING"]
      /\ audit' = [audit EXCEPT ![o] = Append(@, <<NoStatus, "PENDING">>)]
  BY <1>0 DEF CommitPlacement, WriteStatus
<1>7. Book!Record(o, NoStatus, "PENDING")
  BY <1>6 DEF Book!Record
<1>8. Book!Announce(o, NoStatus, "PENDING")
  BY <1>4, <1>5, SameVocabulary DEF Book!Announce
<1> QED BY <1>0, <1>1, <1>2, <1>3, <1>4, <1>7, <1>8, SameVocabulary DEF Book!Place, CommitPlacement

\* The commit of a transition without restock is the atomic advance.
LEMMA TransitionIsAdvance ==
  ASSUME RowInv, NEW t \in Workers, CommitTransition(t),
         NEW o \in Orders, o = job[t].order, NEW to \in Statuses, to = job[t].to
  PROVE  Book!Advance(o, to)
<1>0. /\ job[t].from = status[o] /\ status[o] \in Statuses
      /\ to \in Flow[status[o]] \ {"CANCELLED"}
  BY DEF CommitTransition, TransitionAllowed, RowInv, JobInv, TypeInv, TypeOK, JobOK, OrderLockSound
<1>1. Book!Record(o, status[o], to)
  BY <1>0 DEF CommitTransition, WriteStatus, Book!Record
<1>2. channel' = Append(channel, OrderEvent(o, status[o], to))
  BY <1>0 DEF CommitTransition, OrderEventOf
<1> QED BY <1>0, <1>1, <1>2, SameVocabulary DEF CommitTransition, Book!Advance

\* The commit of a cancellation gives every unit of the order back at once, also to
\* rows that the restock has created.
LEMMA CancellationIsCancel ==
  ASSUME RowInv, NEW t \in Workers, CommitCancellation(t), NEW o \in Orders, o = job[t].order
  PROVE  Book!Cancel(o)
<1> DEFINE l == job[t].lines
<1>0. /\ job[t].to = "CANCELLED" /\ job[t].from = status[o]
      /\ status[o] \in Statuses /\ "CANCELLED" \in Flow[status[o]] /\ l = items[o]
      /\ pc[t] = "restock" /\ SelectDone(t) /\ Missing(t) = {}
  BY DEF CommitCancellation, TransitionAllowed, RowInv, JobInv, TypeInv, TypeOK, JobOK, OrderLockSound
<1>1. \A k \in Key : /\ got[t][k] # NoRow <=> l[k] > 0
                     /\ got[t][k] # NoRow => got[t][k].pk # 0
                     /\ got[t][k] # NoRow => got[t][k].qty = stock[k].qty
                     /\ l[k] \in Nat /\ stock[k].qty \in Nat
                     /\ stock[k] # NoRow <=> stock[k].pk # 0
  BY <1>0, HandIsLines
<1>2. \A k \in Key : /\ stock'[k].qty = stock[k].qty + l[k]
                     /\ stock'[k] # NoRow <=> stock[k] # NoRow \/ l[k] > 0
  BY <1>0, <1>1 DEF CommitCancellation, WriteStock, NoRow
<1>3. channel' = Append(Append(channel, OrderEvent(o, status[o], "CANCELLED")),
                      StockEvent({k \in Key : l[k] > 0}, [k \in Key |-> stock'[k].qty]))
  <2>1. {k \in Key : got[t][k] # NoRow} = {k \in Key : l[k] > 0}
    BY <1>1
  <2> QED BY <1>0, <2>1 DEF CommitCancellation, OrderEventOf, StockEventOf
<1>4. items' = items
  BY DEF CommitCancellation
<1>5. /\ status' = [status EXCEPT ![o] = "CANCELLED"]
      /\ audit' = [audit EXCEPT ![o] = Append(@, <<status[o], "CANCELLED">>)]
  BY <1>0 DEF CommitCancellation, WriteStatus
<1> HIDE DEF l
<1>6. Book!Record(o, status[o], "CANCELLED")
  BY <1>5 DEF Book!Record
<1>7. Book!Announce(o, status[o], "CANCELLED")
  BY <1>0, <1>3, <1>4, SameVocabulary DEF Book!Announce
<1> QED BY <1>0, <1>1, <1>2, <1>4, <1>6, <1>7, SameVocabulary DEF Book!Cancel

\* A stock row removed by the admin or a cascade is a delisting of its key.
LEMMA DeletionIsDelist ==
  ASSUME RowInv, NEW k \in Key, DeleteStockRow(k)
  PROVE  Book!Delist(k)
<1>1. /\ stock \in [Key -> Row] /\ stock[k] # NoRow /\ StockRowsDeletable
      /\ stock' = [stock EXCEPT ![k] = NoRow]
      /\ UNCHANGED <<status, items, audit, channel>>
  BY DEF DeleteStockRow, RowInv, JobInv, TypeInv, TypeOK
<1>2. {j \in Key : stock'[j] # NoRow} = {j \in Key : stock[j] # NoRow} \ {k}
  BY <1>1
<1>3. [j \in Key |-> stock'[j].qty] = [[j \in Key |-> stock[j].qty] EXCEPT ![k] = 0]
  BY <1>1 DEF NoRow
<1> QED BY <1>1, <1>2, <1>3, SameVocabulary DEF Book!Delist

\* Every step of the service is a step of the book or none.
THEOREM RefinesNext == RowInv /\ [Next]_vars => [Book!Next]_(Book!vars)
<1> SUFFICES ASSUME RowInv, [Next]_vars PROVE Book!Next \/ UNCHANGED Book!vars
  OBVIOUS
<1>1. CASE UNCHANGED data
  BY <1>1, SameVocabulary DEF data, Book!vars
<1>2. ASSUME NEW t \in Workers, CommitPlacement(t) PROVE Book!Next
  <2>1. PICK o \in Orders, l \in OrderLines : o = job[t].order /\ l = job[t].lines
    BY <1>2 DEF CommitPlacement, RowInv, JobInv, TypeInv, JobOK, PlacingFresh
  <2>2. Book!Place(o, l)
    BY <1>2, <2>1, PlacementIsPlace
  <2> QED BY <2>2, SameVocabulary DEF Book!Next
<1>3. ASSUME NEW t \in Workers, CommitTransition(t) PROVE Book!Next
  <2>1. PICK o \in Orders, to \in Statuses : o = job[t].order /\ to = job[t].to
    BY <1>3 DEF CommitTransition, RowInv, JobInv, TypeInv, JobOK
  <2>2. Book!Advance(o, to)
    BY <1>3, <2>1, TransitionIsAdvance
  <2> QED BY <2>2, SameVocabulary DEF Book!Next
<1>4. ASSUME NEW t \in Workers, CommitCancellation(t) PROVE Book!Next
  <2>1. PICK o \in Orders : o = job[t].order
    BY <1>4 DEF CommitCancellation, RowInv, JobInv, TypeInv, JobOK
  <2>2. Book!Cancel(o)
    BY <1>4, <2>1, CancellationIsCancel
  <2> QED BY <2>2 DEF Book!Next
<1>5. ASSUME NEW k \in Key, DeleteStockRow(k) PROVE Book!Next
  BY <1>5, DeletionIsDelist, SameVocabulary DEF Book!Next
<1>6. ASSUME NEW t \in Workers, NEW k \in Key, RecreateStockRow(t, k) PROVE UNCHANGED Book!vars
  BY <1>6, SameVocabulary DEF RecreateStockRow, Book!vars
<1>7. \/ UNCHANGED data
      \/ \E t \in Workers : \/ CommitPlacement(t) \/ CommitTransition(t) \/ CommitCancellation(t)
                            \/ \E k \in Key : RecreateStockRow(t, k)
      \/ \E k \in Key : DeleteStockRow(k)
  BY DEF Next, Place, Advance, PlaceOrder, InsufficientStock, AdvanceOrder, LockOrder,
         InvalidTransition, BeginRestock, DuplicateStockRow, LockStockRow, Abort, Rollback, data, vars
<1> QED BY <1>1, <1>2, <1>3, <1>4, <1>5, <1>6, <1>7

\* Seen from its commits, the service is serial: with any number of workers, aborts
\* and row deletions it behaves as an OrderBook that does one request at a time.
THEOREM Refinement == Spec => ImplementsOrderBook
<1>1. ImplementsOrderBook <=> Book!Init /\ [][Book!Next]_(Book!vars)
  BY DEF ImplementsOrderBook, Book!Spec
<1> QED BY <1>1, RefinesInit, RefinesNext, RowInvariant, PTL DEF Spec

-----------------------------------------------------------------------------
(* The channel.                                                            *)

\* One more payload either announces the quantity itself or leaves the last word
\* to an earlier one.
LEMMA AppendTells ==
  ASSUME NEW S, NEW ch \in Seq(S), NEW e \in S, NEW k, NEW q,
         IF Announces(e, k) THEN e.levels[k] = q ELSE Tells(ch, k, q)
  PROVE  Tells(Append(ch, e), k, q)
<1> DEFINE n == Len(ch)
           longer == Append(ch, e)
<1>1. /\ n \in Nat /\ Len(longer) = n + 1 /\ longer[n + 1] = e
      /\ \A i \in 1..n : longer[i] = ch[i]
  BY LenProperties, AppendProperties
<1> SUFFICES ASSUME NEW i \in 1..Len(longer), Announces(longer[i], k),
                    \A j \in (i + 1)..Len(longer) : ~Announces(longer[j], k)
             PROVE  longer[i].levels[k] = q
  BY DEF Tells
<1> HIDE DEF longer
<1>2. CASE i = n + 1
  BY <1>1, <1>2
<1>3. CASE i # n + 1
  <2>1. i \in 1..n /\ n + 1 \in (i + 1)..Len(longer)
    BY <1>1, <1>3
  <2>2. ~Announces(e, k) /\ Tells(ch, k, q)
    BY <1>1, <2>1
  <2>3. \A j \in (i + 1)..n : ~Announces(ch[j], k)
    <3> SUFFICES ASSUME NEW j \in (i + 1)..n PROVE ~Announces(ch[j], k)
      OBVIOUS
    <3>1. j \in (i + 1)..Len(longer) /\ j \in 1..n
      BY <1>1, <2>1
    <3> QED BY <1>1, <3>1
  <2> QED BY <1>1, <2>1, <2>2, <2>3 DEF Tells
<1> QED BY <1>2, <1>3

\* A commit announces every row it changed, after everything announced before.
LEMMA CommitTells ==
  ASSUME TypeInv, ChannelTellsStock, NEW t \in Workers, pc[t] # "idle",
         NEW qty \in [Key -> Int], WriteStock(t, qty),
         channel' = Append(Append(channel, OrderEventOf(t)), StockEventOf(t))
  PROVE  ChannelTellsStock'
<1> SUFFICES ASSUME NEW k \in Key, stock'[k] # NoRow PROVE Tells(channel', k, stock'[k].qty)
  BY DEF ChannelTellsStock
<1>1. stock' \in [Key -> Row] /\ OrderEventOf(t) \in Events /\ StockEventOf(t) \in Events
  BY CommitTypes
<1>2. channel \in Seq(Events) /\ Append(channel, OrderEventOf(t)) \in Seq(Events)
  BY <1>1, AppendProperties DEF TypeInv, TypeOK
<1>3. ~Announces(OrderEventOf(t), k)
  BY DEF Announces, OrderEventOf, OrderEvent
<1>4. CASE got[t][k] = NoRow
  <2>1. ~Announces(StockEventOf(t), k) /\ stock'[k] = stock[k]
    BY <1>4 DEF Announces, StockEventOf, StockEvent, WriteStock
  <2>2. Tells(channel, k, stock'[k].qty)
    BY <2>1 DEF ChannelTellsStock
  <2>3. Tells(Append(channel, OrderEventOf(t)), k, stock'[k].qty)
    BY <1>1, <1>2, <1>3, <2>2, AppendTells
  <2> QED BY <1>1, <1>2, <2>1, <2>3, AppendTells
<1>5. CASE got[t][k] # NoRow
  <2>1. Announces(StockEventOf(t), k) /\ StockEventOf(t).levels[k] = stock'[k].qty
    BY <1>5 DEF Announces, StockEventOf, StockEvent
  <2> QED BY <1>1, <1>2, <2>1, AppendTells
<1> QED BY <1>4, <1>5

\* A client that replays the channel ends with the committed stock levels.
THEOREM ChannelComplete == Spec => []ChannelTellsStock
<1> DEFINE Inv == TypeInv /\ ChannelTellsStock
<1>1. Init => Inv
  BY InitType DEF Init, ChannelTellsStock, Tells
<1>2. Inv /\ [Next]_vars => Inv'
  <2> SUFFICES ASSUME TypeInv, ChannelTellsStock, [Next]_vars PROVE ChannelTellsStock'
    BY NextType
  <2>1. CASE UNCHANGED <<stock, channel>>
    BY <2>1 DEF ChannelTellsStock
  <2>2. ASSUME NEW t \in Workers, CommitPlacement(t) PROVE ChannelTellsStock'
    <3> DEFINE qty == [k \in Key |-> got[t][k].qty - job[t].lines[k]]
    <3>1. qty \in [Key -> Int] /\ WriteStock(t, qty) /\ pc[t] # "idle"
      BY <2>2 DEF CommitPlacement, TypeInv, TypeOK, Row, Jobs
    <3> HIDE DEF qty
    <3> QED BY <2>2, <3>1, CommitTells DEF CommitPlacement
  <2>3. ASSUME NEW t \in Workers, CommitCancellation(t) PROVE ChannelTellsStock'
    <3> DEFINE qty == [k \in Key |-> got[t][k].qty + job[t].lines[k]]
    <3>1. qty \in [Key -> Int] /\ WriteStock(t, qty) /\ pc[t] # "idle"
      BY <2>3 DEF CommitCancellation, TypeInv, TypeOK, Row, Jobs
    <3> HIDE DEF qty
    <3> QED BY <2>3, <3>1, CommitTells DEF CommitCancellation
  <2>4. ASSUME NEW t \in Workers, CommitTransition(t) PROVE ChannelTellsStock'
    <3>1. /\ channel' = Append(channel, OrderEventOf(t)) /\ stock' = stock
          /\ OrderEventOf(t) \in Events /\ channel \in Seq(Events)
      BY <2>4, CommitTypes DEF CommitTransition, TypeInv, TypeOK
    <3>2. \A k \in Key : ~Announces(OrderEventOf(t), k)
      BY DEF Announces, OrderEventOf, OrderEvent
    <3> QED BY <3>1, <3>2, AppendTells DEF ChannelTellsStock
  <2>5. ASSUME NEW k \in Key, DeleteStockRow(k) PROVE ChannelTellsStock'
    BY <2>5 DEF DeleteStockRow, ChannelTellsStock, TypeInv, TypeOK
  <2>6. \/ UNCHANGED <<stock, channel>>
        \/ \E t \in Workers : CommitPlacement(t) \/ CommitTransition(t) \/ CommitCancellation(t)
        \/ \E k \in Key : DeleteStockRow(k)
    BY DEF Next, Place, Advance, PlaceOrder, InsufficientStock, AdvanceOrder, LockOrder,
           InvalidTransition, BeginRestock, RecreateStockRow, DuplicateStockRow, LockStockRow,
           Abort, Rollback, data, vars
  <2> QED BY <2>1, <2>2, <2>3, <2>4, <2>5, <2>6
<1> QED BY <1>1, <1>2, PTL DEF Spec

-----------------------------------------------------------------------------
(* Deadlock and refusals, while no row is deleted, for any number of       *)
(* workers, orders, variants and warehouses.                               *)
(*                                                                         *)
(* Argument.  Rows keep their pk, so nothing is ever inserted and the only *)
(* waits left are for an order row and for the next stock row of a SELECT. *)
(* The holder of an order row never waits for an order row; the holder of  *)
(* a stock row waits, if at all, for a row with a larger pk.  A set of     *)
(* workers that all wait inside the set would wait for ever larger pks.    *)

\* Every item has its row; a SELECT finds every row it saw; nothing is inserted.
RowsStay ==
  /\ \A o \in Orders : \A k \in Key : items[o][k] > 0 => stock[k].pk # 0
  /\ \A t \in Workers : \A k \in Key :
       /\ want[t][k] # 0 => stock[k].pk = want[t][k]
       /\ pc[t] \in {"place", "restock"} /\ job[t].lines[k] > 0 =>
            want[t][k] # 0 \/ got[t][k].pk # 0 \/ stock[k].pk = 0
  /\ \A t \in Workers : made[t] = {}

StayInv == RowInv /\ RowsStay

\* Nobody waits and nothing is locked at the start.
THEOREM InitStay == Init => StayInv
<1> SUFFICES ASSUME Init PROVE StayInv
  OBVIOUS
<1>1. RowsStay
  BY DEF Init, RowsStay, NoLines, NothingWanted
<1> QED BY <1>1, InitRow DEF StayInv

\* No missing item, no insertion.
LEMMA NothingMissing ==
  ASSUME StayInv, NEW t \in Workers, pc[t] = "restock", SelectDone(t)
  PROVE  Missing(t) = {}
<1> SUFFICES ASSUME NEW k \in Key, job[t].lines[k] > 0, got[t][k] = NoRow PROVE FALSE
  BY DEF Missing
<1>1. job[t].lines = items[job[t].order] /\ job[t].order \in Orders
  BY DEF StayInv, RowInv, JobInv, TypeInv, JobOK, OrderLockSound
<1>2. want[t][k] = 0 /\ got[t][k].pk = 0
  BY DEF SelectDone, NothingWanted, NoRow
<1> QED BY <1>1, <1>2 DEF StayInv, RowsStay

\* A commit writes the rows it holds in place.
LEMMA CommitStays ==
  ASSUME StayInv, NEW t \in Workers, NEW qty, WriteStock(t, qty)
  PROVE  \A k \in Key : stock'[k].pk = stock[k].pk
<1> SUFFICES ASSUME NEW k \in Key, got[t][k] # NoRow PROVE stock'[k].pk = stock[k].pk
  BY DEF WriteStock
<1>1. HandOK(t, k) /\ made[t] = {}
  BY DEF StayInv, RowInv, HandsSound, RowsStay
<1>2. got[t][k] = stock[k]
  BY <1>1 DEF HandOK, Locked
<1> QED BY <1>2 DEF WriteStock

\* Ending a transaction while rows stay and items have rows.
LEMMA EndStays ==
  ASSUME StayInv, RowInv', NEW t \in Workers, EndTransaction(t),
         \A k \in Key : stock'[k].pk = stock[k].pk,
         \A o \in Orders : \A k \in Key : items'[o][k] > 0 => stock[k].pk # 0
  PROVE  StayInv'
<1>1. made' = made
  BY DEF EndTransaction, StayInv, RowInv, JobInv, TypeInv, TypeOK, RowsStay
<1>2. pc'[t] = "idle" /\ \A u \in Workers : u # t => pc'[u] = pc[u] /\ job'[u] = job[u]
  BY DEF EndTransaction, StayInv, RowInv, JobInv, TypeInv, TypeOK
<1>3. /\ \A k \in Key : want'[t][k] = 0
      /\ \A u \in Workers : u # t => want'[u] = want[u] /\ got'[u] = got[u]
  BY EndTransactionHands DEF StayInv
<1>4. RowsStay'
  BY <1>1, <1>2, <1>3 DEF StayInv, RowsStay
<1> QED BY <1>4 DEF StayInv

\* A rollback releases locks and leaves the waiting order of the others alone.
LEMMA RollbackStays ==
  ASSUME StayInv, RowInv', NEW t \in Workers, Rollback(t)
  PROVE  StayInv'
BY EndStays DEF Rollback, data, StayInv, RowsStay

\* What a SELECT does not see is not there.
LEMMA SnapshotStays ==
  ASSUME StayInv, RowInv', NEW t \in Workers, NEW l, Snapshot(t, l), job'[t].lines = l,
         UNCHANGED <<stock, items, got, made>>,
         \A u \in Workers : u # t => pc'[u] = pc[u] /\ job'[u] = job[u]
  PROVE  StayInv'
<1>1. /\ \A k \in Key : want'[t][k] = IF l[k] > 0 THEN stock[k].pk ELSE 0
      /\ \A u \in Workers : u # t => want'[u] = want[u]
  BY DEF Snapshot, StayInv, RowInv, JobInv, TypeInv, TypeOK
<1>2. RowsStay'
  BY <1>1 DEF StayInv, RowsStay
<1> QED BY <1>2 DEF StayInv

\* While no stock row is removed, every step keeps the order in which locks are
\* taken: ascending pk, as services.py:83-88 and 174-179 ask for.
THEOREM StepStays == ~StockRowsDeletable /\ StayInv /\ LocksExisting /\ [Next]_vars => StayInv'
<1> SUFFICES ASSUME ~StockRowsDeletable, StayInv, LocksExisting, [Next]_vars PROVE StayInv'
  OBVIOUS
<1>r. RowInv'
  BY StepRow DEF StayInv
<1>t. TypeOK
  BY DEF StayInv, RowInv, JobInv, TypeInv
<1>0. CASE UNCHANGED vars
  BY <1>0, <1>r DEF vars, data, txn, StayInv, RowsStay
<1>1. ASSUME NEW t \in Workers, NEW o \in Orders, NEW l \in OrderLines, PlaceOrder(t, o, l)
      PROVE  StayInv'
  BY <1>1, <1>r, <1>t, SnapshotStays DEF PlaceOrder, data, TypeOK
<1>2. ASSUME NEW t \in Workers, InsufficientStock(t) PROVE StayInv'
  BY <1>2, <1>r, RollbackStays DEF InsufficientStock
<1>3. ASSUME NEW t \in Workers, CommitPlacement(t) PROVE StayInv'
  <2>1. \A k \in Key : stock'[k].pk = stock[k].pk
    BY <1>3, CommitStays DEF CommitPlacement
  <2>2. ASSUME NEW k \in Key, job[t].lines[k] > 0 PROVE stock[k].pk # 0
    <3>1. got[t][k].qty >= job[t].lines[k]
      BY <1>3, <1>t DEF CommitPlacement, Shortages, TypeOK, Row, Jobs
    <3>2. got[t][k].pk # 0
      BY <1>t, <2>2, <3>1 DEF StayInv, RowInv, HandsSound, HandOK, NoRow, TypeOK, Jobs
    <3> QED BY <3>2 DEF StayInv, RowsStay, RowInv, HandsSound, HandOK, Locked
  <2>3. items' = [items EXCEPT ![job[t].order] = job[t].lines] /\ EndTransaction(t)
    BY <1>3 DEF CommitPlacement
  <2>4. \A o \in Orders : \A k \in Key : items'[o][k] > 0 => stock[k].pk # 0
    BY <1>t, <2>2, <2>3 DEF StayInv, RowsStay, TypeOK
  <2> QED BY <1>r, <2>1, <2>3, <2>4, EndStays
<1>4. ASSUME NEW t \in Workers, NEW o \in Orders, NEW to \in Targets, AdvanceOrder(t, o, to)
      PROVE  StayInv'
  <2>1. RowsStay'
    BY <1>4, <1>t DEF AdvanceOrder, data, StayInv, RowsStay, TypeOK
  <2> QED BY <1>r, <2>1 DEF StayInv
<1>5. ASSUME NEW t \in Workers, LockOrder(t) PROVE StayInv'
  <2>1. RowsStay'
    BY <1>5, <1>t DEF LockOrder, data, StayInv, RowsStay, TypeOK
  <2> QED BY <1>r, <2>1 DEF StayInv
<1>6. ASSUME NEW t \in Workers, InvalidTransition(t) PROVE StayInv'
  BY <1>6, <1>r, RollbackStays DEF InvalidTransition
<1>7. ASSUME NEW t \in Workers, CommitTransition(t) PROVE StayInv'
  BY <1>7, <1>r, EndStays DEF CommitTransition, StayInv, RowsStay
<1>8. ASSUME NEW t \in Workers, BeginRestock(t) PROVE StayInv'
  BY <1>8, <1>r, <1>t, SnapshotStays DEF BeginRestock, data, TypeOK
<1>9. ASSUME NEW t \in Workers, NEW k \in Key, RecreateStockRow(t, k) PROVE StayInv'
  BY <1>9, NothingMissing DEF RecreateStockRow
<1>10. ASSUME NEW t \in Workers, DuplicateStockRow(t) PROVE StayInv'
  BY <1>10, <1>r, RollbackStays DEF DuplicateStockRow
<1>11. ASSUME NEW t \in Workers, CommitCancellation(t) PROVE StayInv'
  <2>1. \A k \in Key : stock'[k].pk = stock[k].pk
    BY <1>11, CommitStays DEF CommitCancellation
  <2> QED BY <1>11, <1>r, <2>1, EndStays DEF CommitCancellation, StayInv, RowsStay
<1>12. ASSUME NEW t \in Workers, NEW k \in Key, LockStockRow(t, k) PROVE StayInv'
  <2>1. stock[k].pk = want[t][k] /\ want[t][k] # 0
    BY <1>12 DEF LockStockRow, NextRow, StayInv, RowsStay
  <2>2. /\ got'[t][k].pk # 0 /\ want'[t][k] = 0
        /\ \A u \in Workers : \A j \in Key :
             u # t \/ j # k => got'[u][j] = got[u][j] /\ want'[u][j] = want[u][j]
    BY <1>12, <1>t, <2>1 DEF LockStockRow, TypeOK
  <2>3. UNCHANGED <<stock, items, pc, job, made>>
    BY <1>12 DEF LockStockRow, data
  <2>4. RowsStay'
    BY <2>2, <2>3 DEF StayInv, RowsStay
  <2> QED BY <1>r, <2>4 DEF StayInv
<1>13. ASSUME NEW t \in Workers, Abort(t) PROVE StayInv'
  BY <1>13, <1>r, RollbackStays DEF Abort
<1>14. ASSUME NEW k \in Key, DeleteStockRow(k) PROVE StayInv'
  BY <1>14 DEF DeleteStockRow
<1> QED
  BY <1>0, <1>1, <1>2, <1>3, <1>4, <1>5, <1>6, <1>7, <1>8, <1>9, <1>10, <1>11, <1>12, <1>13, <1>14
  DEF Next, Place, Advance

\* The locking order holds always while no stock row is removed.
THEOREM StayInvariant == ASSUME ~StockRowsDeletable PROVE Spec => []StayInv
<1>1. Init => StayInv
  BY InitStay
<1>2. StayInv /\ ServiceInv /\ [Next]_vars => StayInv'
  BY StepStays, FoundIsLocked DEF ServiceInv
<1> QED BY <1>1, <1>2, ServiceInvariant, PTL DEF Spec

-----------------------------------------------------------------------------
(* Nobody waits in a circle.                                               *)

\* The only waits left: for an order row, or for the next row of a SELECT.
LEMMA WaitsForALock ==
  ASSUME StayInv, NEW t \in Workers, NEW u \in Workers, Waits(t, u)
  PROVE  \/ pc[t] = "order" /\ pc[u] \in {"locked", "restock"}
         \/ \E k \in Key : /\ NextRow(t, k)
                           /\ pc[t] \in {"place", "restock"} /\ pc[u] \in {"place", "restock"}
                           /\ got[u][k].pk = want[t][k]
<1>1. CASE pc[t] = "order" /\ HoldsOrder(u, job[t].order)
  BY <1>1 DEF HoldsOrder
<1>2. CASE \E k \in Locked(u) : NextRow(t, k) /\ stock[k].pk = want[t][k]
  <2>1. PICK k \in Locked(u) : NextRow(t, k) /\ stock[k].pk = want[t][k]
    BY <1>2
  <2>2. k \in Key /\ got[u][k].pk # 0 /\ HandOK(u, k) /\ WantOK(t, k)
    BY <2>1 DEF Locked, NextRow, StayInv, RowInv, HandsSound, WantsSound
  <2> QED BY <2>1, <2>2 DEF HandOK, WantOK
<1>3. made[u] = {}
  BY DEF StayInv, RowsStay
<1> QED BY <1>1, <1>2, <1>3 DEF Waits

\* If the holder of a stock row waits too, it waits for a row with a larger pk.
LEMMA WaitsAscend ==
  ASSUME StayInv, NEW t \in Workers, NEW u \in Workers, NEW v \in Workers,
         NEW k \in Key, NextRow(t, k), Waits(t, u), Waits(u, v)
  PROVE  \E j \in Key : NextRow(u, j) /\ want[t][k] < want[u][j]
<1>0. want \in [Workers -> [Key -> Nat]] /\ got \in [Workers -> [Key -> Row]]
  BY DEF StayInv, RowInv, JobInv, TypeInv, TypeOK
<1>1. WantOK(t, k)
  BY DEF NextRow, StayInv, RowInv, WantsSound
<1>2. PICK i \in Key : /\ NextRow(t, i) /\ pc[u] \in {"place", "restock"}
                       /\ got[u][i].pk = want[t][i]
  BY <1>1, WaitsForALock DEF WantOK
<1>3. want[t][i] = want[t][k]
  <2>1. want[t][i] \in Nat /\ want[t][k] \in Nat
    BY <1>0
  <2>2. want[t][i] <= want[t][k] /\ want[t][k] <= want[t][i]
    BY <1>2 DEF NextRow
  <2> QED BY <2>1, <2>2
<1>4. PICK j \in Key : NextRow(u, j)
  BY <1>2, WaitsForALock
<1>5. WantOK(u, j)
  BY <1>4 DEF NextRow, StayInv, RowInv, WantsSound
<1> QED BY <1>2, <1>3, <1>4, <1>5 DEF WantOK

\* The pk order of stock locks and the order-then-stock hierarchy exclude deadlock
\* (services.py:3-10), however many workers and rows there are, as long as no
\* Stock row is removed.
THEOREM DeadlockFree == ASSUME ~StockRowsDeletable PROVE Spec => []NoDeadlock
<1>1. ASSUME StayInv PROVE NoDeadlock
  <2> SUFFICES ASSUME NEW S \in (SUBSET Workers) \ {{}},
                      \A t \in S : \E u \in S : Waits(t, u)
               PROVE  FALSE
    BY DEF NoDeadlock
  <2> USE <1>1
  <2> DEFINE Goal == {w \in Nat : \E t \in S : \E k \in Key : NextRow(t, k) /\ w = nextPk - want[t][k]}
  <2>0. nextPk \in Nat /\ want \in [Workers -> [Key -> Nat]]
    BY DEF StayInv, RowInv, JobInv, TypeInv, TypeOK
  <2>1. \A t \in Workers : \A k \in Key : NextRow(t, k) => nextPk - want[t][k] \in Nat
    BY <2>0 DEF NextRow, StayInv, RowInv, WantsSound, WantOK
  <2>2. \E t \in S : \E k \in Key : NextRow(t, k)
    <3>1. PICK t \in S : \E u \in S : Waits(t, u)
      OBVIOUS
    <3>2. PICK u \in S : Waits(t, u)
      BY <3>1
    <3>3. PICK v \in S : Waits(u, v)
      OBVIOUS
    <3> QED BY <3>2, <3>3, WaitsForALock
  <2>3. Goal # {}
    BY <2>1, <2>2
  <2>4. PICK w \in Goal : \A x \in Goal : w <= x
    <3> Goal \subseteq Nat
      OBVIOUS
    <3> HIDE DEF Goal
    <3> QED BY <2>3, LeastNatural
  <2>5. PICK t \in S, k \in Key : NextRow(t, k) /\ w = nextPk - want[t][k]
    OBVIOUS
  <2>6. PICK u \in S : Waits(t, u)
    OBVIOUS
  <2>7. PICK v \in S : Waits(u, v)
    OBVIOUS
  <2>8. PICK j \in Key : NextRow(u, j) /\ want[t][k] < want[u][j]
    BY <2>5, <2>6, <2>7, WaitsAscend
  <2>9. nextPk - want[u][j] \in Goal
    BY <2>1, <2>8
  <2>10. w <= nextPk - want[u][j]
    BY <2>4, <2>9
  <2>11. want[t][k] \in Nat /\ want[u][j] \in Nat
    BY <2>0
  <2> HIDE DEF Goal
  <2> QED BY <2>0, <2>5, <2>8, <2>10, <2>11
<1> QED BY <1>1, StayInvariant, PTL

-----------------------------------------------------------------------------
(* Refusals.                                                               *)

\* A placement is refused only when some line exceeds the committed quantity at
\* that moment (services.py:62-67), as long as no Stock row is removed.
THEOREM HonestRefusals == ASSUME ~StockRowsDeletable PROVE Spec => RefusalsAreHonest
<1>1. ASSUME StayInv, NEW t \in Workers, InsufficientStock(t)
      PROVE  \E k \in Key : stock[k].qty < job[t].lines[k]
  <2>1. PICK k \in Key : got[t][k].qty < job[t].lines[k]
    BY <1>1 DEF InsufficientStock, Shortages
  <2>2. HandOK(t, k) /\ made[t] = {} /\ want[t][k] = 0 /\ pc[t] = "place"
    BY <1>1 DEF InsufficientStock, SelectDone, NothingWanted, StayInv, RowInv, HandsSound, RowsStay
  <2>3. CASE got[t][k].pk # 0
    BY <2>1, <2>2, <2>3 DEF HandOK, Locked
  <2>4. CASE got[t][k].pk = 0
    <3>1. got[t][k].qty = 0 /\ job[t].lines[k] > 0
      BY <2>1, <2>2, <2>4 DEF HandOK, NoRow
    <3>2. stock[k] = NoRow
      BY <1>1, <2>2, <2>4, <3>1 DEF StayInv, RowsStay, RowInv, RowsSound
    <3> QED BY <3>1, <3>2 DEF NoRow
  <2> QED BY <2>3, <2>4
<1>2. StayInv /\ [Next]_vars =>
        [\A t \in Workers :
           InsufficientStock(t) => \E k \in Key : stock[k].qty < job[t].lines[k]]_vars
  BY <1>1
<1> QED BY <1>2, StayInvariant, PTL DEF Spec, RefusalsAreHonest
=============================================================================
