---------------------------- MODULE OrderService ----------------------------
(***************************************************************************)
(* place_order, advance_order and _restock of                              *)
(* services/core/orders/services.py, run by several workers at once as     *)
(* PostgreSQL READ COMMITTED transactions.                                 *)
(*                                                                         *)
(* A step is what one statement does between two points where another      *)
(* transaction can intervene: taking a snapshot, locking one row, inserting*)
(* one row under the unique constraint, committing.  A worker's own writes *)
(* become visible when it commits; a rolled-back worker leaves nothing,    *)
(* NOTIFY payloads included.                                               *)
(***************************************************************************)
EXTENDS OrderData, Functions, FiniteSetsExt

CONSTANTS
  Workers,            \* concurrent requests in service (gunicorn threads, commands)
  InitStock,          \* [Key -> Row]: committed Stock rows at the start
  FirstPk,            \* next value of the Stock pk sequence at the start
  MaxPk,              \* BOUND: no cancellation starts once the sequence is past it
  Targets,            \* statuses that callers ask advance_order for
  StockRowsDeletable  \* BOOLEAN: whether Stock rows get removed (admin, cascade)

Row == [pk : Nat, qty : Int]
NoRow == [pk |-> 0, qty |-> 0]

ASSUME TargetsAssumption == Targets \subseteq Statuses
ASSUME FirstPkAssumption == FirstPk \in Nat \ {0}
ASSUME MaxPkAssumption == MaxPk \in Nat
ASSUME DeletableAssumption == StockRowsDeletable \in BOOLEAN
ASSUME InitStockAssumption ==
  /\ InitStock \in [Key -> Row]
  /\ \A k \in Key : /\ InitStock[k].qty >= 0
                    /\ InitStock[k].pk < FirstPk
                    /\ InitStock[k].pk = 0 => InitStock[k] = NoRow
  /\ \A k1, k2 \in Key : InitStock[k1].pk = InitStock[k2].pk => InitStock[k1].pk = 0 \/ k1 = k2

VARIABLES
  stock,    \* [Key -> Row]: committed Stock rows, NoRow where there is none
  nextPk,   \* the Stock pk sequence (never rolled back)
  status,   \* [Orders -> status]: committed Order.status, NoStatus: no such order
  items,    \* [Orders -> lines]: committed OrderItem quantities
  audit,    \* [Orders -> Seq(transition)]: committed OrderStatusEvent rows
  channel,  \* Seq(event): committed NOTIFY payloads, in commit order
  lost,     \* [Key -> Nat]: history variable, units removed together with their row
  pc,       \* [Workers -> control state]
  job,      \* [Workers -> the call's arguments and what it read]
  want,     \* [Workers -> [Key -> pk]]: rows a SELECT FOR UPDATE still has to lock
  got,      \* [Workers -> [Key -> Row]]: row objects in hand, as read or created
  made      \* [Workers -> SUBSET Key]: rows inserted and not committed

data == <<stock, nextPk, status, items, audit, channel, lost>>
txn == <<pc, job, want, got, made>>
vars == <<data, txn>>

\* "idle": no transaction.  "place": place_order is locking stock rows.
\* "order": advance_order waits for the order row.  "locked": it holds the order
\* row.  "restock": _restock is locking or recreating stock rows.
PcStates == {"idle", "place", "order", "locked", "restock"}

\* The call in progress: the order, its lines, the status read and the one asked for.
Jobs == [order : Orders \cup {NoOrder}, lines : [Key -> Nat],
         from : Statuses \cup {NoStatus}, to : Statuses \cup {NoStatus}]
NoJob == [order |-> NoOrder, lines |-> NoLines, from |-> NoStatus, to |-> NoStatus]

NothingWanted == [k \in Key |-> 0]
NothingGot == [k \in Key |-> NoRow]

TypeOK ==
  /\ stock \in [Key -> Row]
  /\ nextPk \in Nat \ {0}
  /\ status \in [Orders -> Statuses \cup {NoStatus}]
  /\ items \in [Orders -> [Key -> Nat]]
  /\ audit \in [Orders -> Seq(Transitions)]
  /\ channel \in Seq(Events)
  /\ lost \in [Key -> Int]
  /\ pc \in [Workers -> PcStates]
  /\ job \in [Workers -> Jobs]
  /\ want \in [Workers -> [Key -> Nat]]
  /\ got \in [Workers -> [Key -> Row]]
  /\ made \in [Workers -> SUBSET Key]

Init ==
  /\ stock = InitStock
  /\ nextPk = FirstPk
  /\ status = [o \in Orders |-> NoStatus]
  /\ items = [o \in Orders |-> NoLines]
  /\ audit = [o \in Orders |-> <<>>]
  /\ channel = <<>>
  /\ lost = [k \in Key |-> 0]
  /\ pc = [t \in Workers |-> "idle"]
  /\ job = [t \in Workers |-> NoJob]
  /\ want = [t \in Workers |-> NothingWanted]
  /\ got = [t \in Workers |-> NothingGot]
  /\ made = [t \in Workers |-> {}]

-----------------------------------------------------------------------------
(* Locks and the statements that wait for them.                            *)

\* Rows locked by worker t.  A row it inserted is not there for anyone else to
\* lock; it blocks others through the unique constraint instead.
Locked(t) == {k \in Key : got[t][k].pk # 0} \ made[t]

HoldsOrder(t, o) == pc[t] \in {"locked", "restock"} /\ job[t].order = o

\* Mutant: the SELECT has no ORDER BY and may lock its rows in any order.
NextRowUnordered(t, k) == want[t][k] # 0

\* The row ORDER BY pk makes the SELECT lock next.
NextRow(t, k) ==
  /\ want[t][k] # 0
  /\ \A j \in Key : want[t][j] # 0 => want[t][k] <= want[t][j]

SelectDone(t) == want[t] = NothingWanted

\* Mutant: _restock skips items whose stock row is gone.
MissingIgnored(t) == {}

\* Lines of the order being cancelled that have no row in hand yet.
Missing(t) == {k \in Key : job[t].lines[k] > 0 /\ got[t][k] = NoRow}

\* Mutant: only the presence of the row is checked, not its quantity.
ShortagesOfRowsOnly(t) == {k \in Key : job[t].lines[k] > 0 /\ got[t][k] = NoRow}

\* Mutant: the comparison is off by one and refuses the last unit.
ShortagesOffByOne(t) == {k \in Key : job[t].lines[k] > 0 /\ got[t][k].qty <= job[t].lines[k]}

\* Lines that cannot be satisfied from the locked rows; no row counts as 0.
Shortages(t) == {k \in Key : got[t][k].qty < job[t].lines[k]}

\* The statement of t cannot proceed before u's transaction ends.
Waits(t, u) ==
  /\ t # u
  /\ \/ pc[t] = "order" /\ HoldsOrder(u, job[t].order)
     \/ \E k \in Locked(u) : NextRow(t, k) /\ stock[k].pk = want[t][k]
     \/ /\ pc[t] = "restock" /\ SelectDone(t)
        /\ \E k \in Missing(t) : k \in made[u]
        /\ \A k \in Missing(t) : stock[k] = NoRow /\ \E v \in Workers \ {t} : k \in made[v]

-----------------------------------------------------------------------------
(* Transactions.                                                           *)

\* A SELECT ... FOR UPDATE starts: it sees the rows committed by now.
Snapshot(t, l) ==
  want' = [want EXCEPT ![t] = [k \in Key |-> IF l[k] > 0 THEN stock[k].pk ELSE 0]]

\* Commit or roll back: every lock is released and the worker is free.
EndTransaction(t) ==
  /\ pc' = [pc EXCEPT ![t] = "idle"]
  /\ job' = [job EXCEPT ![t] = NoJob]
  /\ want' = [want EXCEPT ![t] = NothingWanted]
  /\ got' = [got EXCEPT ![t] = NothingGot]
  /\ made' = [made EXCEPT ![t] = {}]

Rollback(t) == EndTransaction(t) /\ UNCHANGED data

\* The rows in hand are written with new quantities.
WriteStock(t, qty) ==
  stock' = [k \in Key |-> IF got[t][k] = NoRow THEN stock[k]
                          ELSE [pk |-> got[t][k].pk, qty |-> qty[k]]]

\* Mutant: from_status and to_status of the audit row are swapped.
WriteStatusSwapped(t) ==
  LET o == job[t].order IN
  /\ status' = [status EXCEPT ![o] = job[t].to]
  /\ audit' = [audit EXCEPT ![o] = Append(@, <<job[t].to, job[t].from>>)]

\* The order of t takes its new status and one audit row is added.
WriteStatus(t) ==
  LET o == job[t].order IN
  /\ status' = [status EXCEPT ![o] = job[t].to]
  /\ audit' = [audit EXCEPT ![o] = Append(@, <<job[t].from, job[t].to>>)]

OrderEventOf(t) == OrderEvent(job[t].order, job[t].from, job[t].to)

\* Mutant: _restock returns the locked rows without the recreated ones.
StockEventOfLocked(t) == StockEvent(Locked(t), [k \in Key |-> stock'[k].qty])

\* emit_stock_events over the rows in hand.
StockEventOf(t) ==
  StockEvent({k \in Key : got[t][k] # NoRow}, [k \in Key |-> stock'[k].qty])

\* Mutant: a plain SELECT, which neither waits for row locks nor takes them.
LockStockRowUnlocked(t, k) ==
  /\ pc[t] \in {"place", "restock"}
  /\ NextRow(t, k)
  /\ got' = IF stock[k].pk = want[t][k] THEN [got EXCEPT ![t][k] = stock[k]] ELSE got
  /\ want' = [want EXCEPT ![t][k] = 0]
  /\ UNCHANGED <<data, pc, job, made>>

\* Lock the next row of the pending SELECT, reading its latest committed
\* version, or skip it when it was deleted after the snapshot.
LockStockRow(t, k) ==
  /\ pc[t] \in {"place", "restock"}
  /\ NextRow(t, k)
  /\ IF stock[k].pk = want[t][k]
     THEN /\ \A u \in Workers \ {t} : k \notin Locked(u)
          /\ got' = [got EXCEPT ![t][k] = stock[k]]
     ELSE UNCHANGED got
  /\ want' = [want EXCEPT ![t][k] = 0]
  /\ UNCHANGED <<data, pc, job, made>>

-----------------------------------------------------------------------------
(* place_order.                                                            *)

\* The request passed validation; its transaction begins and its SELECT takes a
\* snapshot.  o is the uuid that default=uuid.uuid4 will draw for it.
PlaceOrder(t, o, l) ==
  /\ pc[t] = "idle"
  /\ status[o] = NoStatus
  /\ \A u \in Workers : job[u].order # o
  /\ pc' = [pc EXCEPT ![t] = "place"]
  /\ job' = [job EXCEPT ![t] = [order |-> o, lines |-> l, from |-> NoStatus, to |-> "PENDING"]]
  /\ Snapshot(t, l)
  /\ UNCHANGED <<data, got, made>>

InsufficientStock(t) ==
  /\ pc[t] = "place" /\ SelectDone(t)
  /\ Shortages(t) # {}
  /\ Rollback(t)

CommitPlacement(t) ==
  /\ pc[t] = "place" /\ SelectDone(t)
  /\ Shortages(t) = {}
  /\ WriteStock(t, [k \in Key |-> got[t][k].qty - job[t].lines[k]])
  /\ items' = [items EXCEPT ![job[t].order] = job[t].lines]
  /\ WriteStatus(t)
  /\ channel' = Append(Append(channel, OrderEventOf(t)), StockEventOf(t))
  /\ EndTransaction(t)
  /\ UNCHANGED <<nextPk, lost>>

-----------------------------------------------------------------------------
(* advance_order and _restock.                                             *)

AdvanceOrder(t, o, to) ==
  /\ pc[t] = "idle"
  /\ status[o] # NoStatus
  /\ nextPk <= MaxPk
  /\ pc' = [pc EXCEPT ![t] = "order"]
  /\ job' = [job EXCEPT ![t] = [NoJob EXCEPT !.order = o, !.to = to]]
  /\ UNCHANGED <<data, want, got, made>>

\* Mutant: the order row is read without FOR UPDATE.
LockOrderUnlocked(t) ==
  LET o == job[t].order IN
  /\ pc[t] = "order"
  /\ pc' = [pc EXCEPT ![t] = "locked"]
  /\ job' = [job EXCEPT ![t] =
               [order |-> o, lines |-> items[o], from |-> status[o], to |-> job[t].to]]
  /\ UNCHANGED <<data, want, got, made>>

\* SELECT ... FOR UPDATE on the order row, then the reads under that lock.
LockOrder(t) ==
  LET o == job[t].order IN
  /\ pc[t] = "order"
  /\ \A u \in Workers \ {t} : ~HoldsOrder(u, o)
  /\ pc' = [pc EXCEPT ![t] = "locked"]
  /\ job' = [job EXCEPT ![t] =
               [order |-> o, lines |-> items[o], from |-> status[o], to |-> job[t].to]]
  /\ UNCHANGED <<data, want, got, made>>

TransitionAllowed(t) == job[t].to \in Flow[job[t].from]

InvalidTransition(t) ==
  /\ pc[t] = "locked"
  /\ ~TransitionAllowed(t)
  /\ Rollback(t)

CommitTransition(t) ==
  /\ pc[t] = "locked"
  /\ TransitionAllowed(t)
  /\ job[t].to # "CANCELLED"
  /\ WriteStatus(t)
  /\ channel' = Append(channel, OrderEventOf(t))
  /\ EndTransaction(t)
  /\ UNCHANGED <<stock, nextPk, items, lost>>

\* _restock takes its snapshot of the stock rows.
BeginRestock(t) ==
  /\ pc[t] = "locked"
  /\ TransitionAllowed(t)
  /\ job[t].to = "CANCELLED"
  /\ pc' = [pc EXCEPT ![t] = "restock"]
  /\ Snapshot(t, job[t].lines)
  /\ UNCHANGED <<data, job, got, made>>

\* Mutant: Stock has no unique constraint on (variant, warehouse).
RecreateStockRowNotUnique(t, k) ==
  /\ pc[t] = "restock" /\ SelectDone(t)
  /\ k \in Missing(t)
  /\ got' = [got EXCEPT ![t][k] = [pk |-> nextPk, qty |-> 0]]
  /\ made' = [made EXCEPT ![t] = @ \cup {k}]
  /\ nextPk' = nextPk + 1
  /\ UNCHANGED <<stock, status, items, audit, channel, lost, pc, job, want>>

\* Stock.objects.create for an item without a row.  The unique index makes it
\* wait while another transaction has the same key inserted and uncommitted.
\* The loop follows items.all(), which no ordering binds: any missing item.
RecreateStockRow(t, k) ==
  /\ pc[t] = "restock" /\ SelectDone(t)
  /\ k \in Missing(t)
  /\ stock[k] = NoRow
  /\ \A u \in Workers \ {t} : k \notin made[u]
  /\ got' = [got EXCEPT ![t][k] = [pk |-> nextPk, qty |-> 0]]
  /\ made' = [made EXCEPT ![t] = @ \cup {k}]
  /\ nextPk' = nextPk + 1
  /\ UNCHANGED <<stock, status, items, audit, channel, lost, pc, job, want>>

\* ... and it fails with IntegrityError when that key is committed by then.
DuplicateStockRow(t) ==
  /\ pc[t] = "restock" /\ SelectDone(t)
  /\ \E k \in Missing(t) : stock[k] # NoRow
  /\ Rollback(t)

CommitCancellation(t) ==
  /\ pc[t] = "restock" /\ SelectDone(t)
  /\ Missing(t) = {}
  /\ WriteStock(t, [k \in Key |-> got[t][k].qty + job[t].lines[k]])
  /\ WriteStatus(t)
  /\ channel' = Append(Append(channel, OrderEventOf(t)), StockEventOf(t))
  /\ EndTransaction(t)
  /\ UNCHANGED <<nextPk, items, lost>>

-----------------------------------------------------------------------------
(* The environment.                                                        *)

\* The worker dies, its connection drops, or PostgreSQL aborts the transaction
\* (a failed statement, the deadlock detector).
Abort(t) == pc[t] # "idle" /\ Rollback(t)

\* A Stock row that no transaction has locked is deleted with the units it holds.
DeleteStockRow(k) ==
  /\ StockRowsDeletable
  /\ stock[k] # NoRow
  /\ \A u \in Workers : k \notin Locked(u)
  /\ stock' = [stock EXCEPT ![k] = NoRow]
  /\ lost' = [lost EXCEPT ![k] = @ + stock[k].qty]
  /\ UNCHANGED <<nextPk, status, items, audit, channel, txn>>

-----------------------------------------------------------------------------
Place(t) == \/ \E o \in Orders, l \in OrderLines : PlaceOrder(t, o, l)
            \/ InsufficientStock(t)
            \/ CommitPlacement(t)

Advance(t) == \/ \E o \in Orders, to \in Targets : AdvanceOrder(t, o, to)
              \/ LockOrder(t)
              \/ InvalidTransition(t)
              \/ CommitTransition(t)
              \/ BeginRestock(t)
              \/ \E k \in Key : RecreateStockRow(t, k)
              \/ DuplicateStockRow(t)
              \/ CommitCancellation(t)

Next == \/ \E t \in Workers : \/ Place(t)
                              \/ Advance(t)
                              \/ \E k \in Key : LockStockRow(t, k)
                              \/ Abort(t)
        \/ \E k \in Key : DeleteStockRow(k)

Spec == Init /\ [][Next]_vars

(* Fairness.  A worker that is not blocked executes its next statement.  A    *)
(* blocked statement is served in arrival order by PostgreSQL's lock queue,   *)
(* so a lock that keeps becoming free is eventually granted: strong fairness. *)
(* Nothing obliges callers to send requests, transactions to abort, or rows   *)
(* to be deleted.                                                             *)
Grant(t) == \/ LockOrder(t)
            \/ \E k \in Key : LockStockRow(t, k) \/ RecreateStockRow(t, k)

Proceed(t) == \/ InsufficientStock(t) \/ CommitPlacement(t)
              \/ InvalidTransition(t) \/ CommitTransition(t) \/ BeginRestock(t)
              \/ DuplicateStockRow(t) \/ CommitCancellation(t)

WorkerFairness(t) == SF_vars(Grant(t)) /\ WF_vars(Proceed(t))

FairSpec == Spec /\ \A t \in Workers : WorkerFairness(t)

-----------------------------------------------------------------------------
(* Properties.                                                             *)

\* An order that still holds units taken from stock.
Active(o) == status[o] \notin {NoStatus, "CANCELLED"}

\* No committed quantity is ever negative: the CHECK constraint behind
\* PositiveIntegerField is a defence that place_order never has to fall back on.
NoOversell == \A k \in Key : stock[k].qty >= 0

\* Every unit on hand at the start is on hand now, or held by an order that was
\* not cancelled, or was removed together with its row: no decrement and no
\* restock is lost or applied twice, whoever races whom.
UnitsConserved ==
  \A k \in Key :
    stock[k].qty + SumFunctionOnSet([o \in Orders |-> IF Active(o) THEN items[o][k] ELSE 0], Orders)
      = InitStock[k].qty - lost[k]

\* What a worker read under a lock is still what is committed: a locked stock row
\* has not changed since it was read, an order row has not changed under
\* advance_order, and a row it inserted is nobody else's.
LockedRowsFresh ==
  \A t \in Workers :
    /\ \A k \in Locked(t) : got[t][k] = stock[k]
    /\ pc[t] \in {"locked", "restock"} => /\ job[t].from = status[job[t].order]
                                          /\ job[t].lines = items[job[t].order]
    /\ \A k \in made[t] : /\ stock[k] = NoRow
                          /\ \A u \in Workers \ {t} : k \notin made[u]

\* The pk order of the stock locks and the order-then-stock hierarchy leave no set
\* of workers waiting for each other.
NoDeadlock ==
  \A S \in (SUBSET Workers) \ {{}} : \E t \in S : \A u \in S : ~Waits(t, u)

\* A trail of transitions that walks the lifecycle from creation to status st.
LegalTrail(trail, st) ==
  /\ trail = <<>> <=> st = NoStatus
  /\ trail # <<>> => trail[1] = <<NoStatus, "PENDING">> /\ trail[Len(trail)][2] = st
  /\ \A i \in 2..Len(trail) : /\ trail[i][1] = trail[i - 1][2]
                              /\ trail[i][2] \in Flow[trail[i][1]]

\* The audit trail of an order is one legal walk through the lifecycle, from its
\* creation to its present status, with no step missing, repeated or disputed.
AuditIsLifecycle == \A o \in Orders : LegalTrail(audit[o], status[o])

\* The last announcement of key k in ch, if there is one, is quantity q.
Announces(e, k) == e.type = "stock" /\ k \in e.keys
Tells(ch, k, q) ==
  \A i \in 1..Len(ch) :
    Announces(ch[i], k) /\ (\A j \in (i + 1)..Len(ch) : ~Announces(ch[j], k))
    => ch[i].levels[k] = q

\* Whoever replays the committed NOTIFY payloads in order ends with the committed
\* quantities: the last announcement of a key that has a row is its quantity.
ChannelTellsStock == \A k \in Key : stock[k] # NoRow => Tells(channel, k, stock[k].qty)

\* An order is refused for stock only if some line really exceeds what is
\* committed at that moment, however long the request waited for its locks.
RefusalsAreHonest ==
  [][\A t \in Workers :
       InsufficientStock(t) => \E k \in Key : stock[k].qty < job[t].lines[k]]_vars

\* Every request in service is answered, without the deadlock detector's help and
\* without a lock_timeout.
RequestsFinish == \A t \in Workers : pc[t] # "idle" ~> pc[t] = "idle"

\* Seen from its commits, the service is the atomic OrderBook.
Book == INSTANCE OrderBook WITH
  InitLevel   <- [k \in Key |-> InitStock[k].qty],
  InitPresent <- {k \in Key : InitStock[k] # NoRow},
  present     <- {k \in Key : stock[k] # NoRow},
  level       <- [k \in Key |-> stock[k].qty]

ImplementsOrderBook == Book!Spec
=============================================================================
