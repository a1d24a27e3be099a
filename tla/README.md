# realtime-orders-platform: TLA+ models, checks and proofs

The platform takes orders against warehouse stock (a Django service on
PostgreSQL), announces every committed change with `LISTEN/NOTIFY`, fans those
announcements out to browsers over WebSockets (a FastAPI gateway), and shows
them on a dashboard (Vue), together with the picker's route through the
warehouse (Python and C++).

This directory models the parts whose correctness depends on the order in which
things happen, checks them with TLC on small instances, and proves the most
important results with TLAPS for every instance.

## 1. Inventory

| Part (source under `src/`) | State | Operations | Talks to |
|---|---|---|---|
| Order service: `services/core/orders/services.py`, `orders/models.py` | `Stock`, `Order`, `OrderItem`, `OrderStatusEvent` rows; row locks | `place_order`, `advance_order`, `_restock` | PostgreSQL, event emission |
| Event emission: `orders/events.py` | NOTIFY payloads queued in the transaction | `emit_order_event`, `emit_stock_events` | listener |
| Stock and catalogue: `inventory/models.py`, `catalog/models.py` | tables, unique keys, cascades | ORM | order service, admin |
| Order API: `orders/views.py`, `serializers.py` | none | create, advance, retrieve, pick-path, demo | order service, optimiser |
| Demo traffic: `orders/demo.py`, `demo_orders` | none (reads, then calls) | place and advance random orders | order service |
| Back office: the `admin.py` files | forms read earlier, saved later | save, delete | tables, without the service |
| Top sellers: `analytics/` | a cache entry per (hours, limit) | get, compute, set | Redis, PostgreSQL |
| Migration entrypoint: `docker-entrypoint.sh` | an advisory lock of a session | lock, migrate, unlock | PostgreSQL |
| Fan-out manager: `realtime/app/manager.py` | clients, a bounded queue each, drop counters | register, unregister, broadcast | listener, gateway |
| WebSocket gateway: `realtime/app/main.py` | a receiver and a pump task per client | accept, hello, pump, heartbeat, disconnect | manager, browser |
| Listener: `realtime/app/events.py` | connection, `connected`, backoff | connect, listen, keepalive, handle, stop | PostgreSQL, manager |
| Dashboard store, socket, snapshot: `frontend/src` | rows by order and by key, versions, connection | hydrate, apply event, reconnect | gateway, order API |
| Pick-path panel: `PickPathViz.vue` | shown path, error, engine | load, watch | order API |
| Pick-path optimiser and native twin: `native/` | none (functions) | nearest neighbour, 2-opt, Held-Karp | order API |

What is hard, and what makes each part correct:

* **Order service.** Requests interleave statement by statement under READ
  COMMITTED. No unit is lost or sold twice; transitions follow the lifecycle and
  the audit trail agrees with the status; locks never cross; a refusal is
  honest; a crash anywhere leaves all or nothing. Rows may disappear (admin,
  cascade) between placement and cancellation.
* **Event emission.** An event exists if and only if its commit does, and the
  last level announced for a key is its committed level.
* **Gateway and manager.** A slow client loses oldest messages only, never
  reordered or duplicated ones, and never delays others; a client that leaves is
  unregistered.
* **Listener and dashboard.** NOTIFY is not durable and snapshots race with
  events: when is what the screen shows what is committed?
* **API and demo traffic.** They read without locks, decide, and call the service
  later, several times in one demo call. An answer tells what was committed;
  nothing is placed twice; every call is answered.
* **Back office.** Forms read earlier are saved later, under running transactions
  and past the service's rules. What the service has locked stays as it read it,
  and the service itself creates and loses no unit, whatever staff have done.
* **Top sellers.** Slow requests store old snapshots over new ones, answers
  overtake each other: how old can the panel be, does it say so, does it catch up?
* **Optimiser.** The route visits every bin once, no reversal makes it shorter, the
  scan ends, and both engines return the same route, ties included.

`PROJECT.json` lists every component with its status and every hazard at its
line, with the properties that cover it or the reason why none does.

## 2. Modules

| Module | Models | Depends on |
|---|---|---|
| `OrderData` | stock keys, lines, the lifecycle table, NOTIFY payloads | |
| `OrderBook` | **abstract**: one atomic step per accepted request | `OrderData` |
| `OrderService` | `place_order`, `advance_order`, `_restock` at statement granularity; properties; the refinement mapping `Book` | `OrderData` |
| `MCOrderService`, `MCStalledWorker` | instances for TLC; a transaction that stops with its locks | `OrderService` |
| `SumTheorems` | sums of a function over a finite set: one summand out, one changed, elements renamed | |
| `OrderServiceProofs` | type correctness, the inductive invariant, safety, conservation of units; `OrderService` implements `OrderBook`; deadlock freedom and honest refusals | `OrderService`, `SumTheorems` |
| `Traffic`, `MCTraffic` | the API's calls, the demo call and the demo command around the service | `OrderService` |
| `TrafficProofs` | its calls run the service as `OrderService` says, answer honestly, sell what is listed, and are refused only because of others | `Traffic`, `OrderServiceProofs` |
| `BackOffice`, `MCBackOffice` | the admin's stock and order pages beside the service | `OrderService` |
| `BackOfficeProofs` | what the service keeps whatever staff do | `BackOffice`, `OrderServiceProofs` |
| `Feed` | **abstract**: subscribers see what they asked for, in order, at most once | |
| `Gateway` | `ConnectionManager`, `_serve` and `_pump`; properties; refinement of `Feed` | |
| `GatewayProofs` | type, membership, the flow invariant, refinement, what shedding loses, the counter | `Gateway` |
| `EventSource` | the listener: connect, LISTEN per channel, keepalive, reconnect, stop, crash | |
| `LiveView` | a dashboard tab end to end: committed notifications, the listener, one gateway queue, the socket, the snapshot and the store | `EventSource` |
| `LiveViewProofs` | types, the order end to end, honest health, why a row may be stale | `LiveView` |
| `TopSellers` | the analytics view, its cache entry and the panel that polls it | |
| `TopSellersProofs` | how old answers and the panel can be | `TopSellers` |
| `Tour` | distances, 2-opt's test and reversal, the Held-Karp oracle | |
| `NativePickPath` | one call of the C++ engine, an improvement per step | `Tour` |
| `PickPath`, `MCPickPath` | the pick-path view, the choice of the engine, the Python engine pair by pair; it implements `NativePickPath` | `Tour` |
| `PickPathProofs` | each item picked once, both engines take the same steps, 2-optimality, the oracle, an end to every request | `PickPath`, `SumTheorems` |

### OrderService: state and code

| Variable | In the code |
|---|---|
| `stock`, `nextPk` | committed `Stock` rows (`NoRow` where there is none) and their pk sequence |
| `status`, `items`, `audit` | committed `Order.status`, `OrderItem` quantities, `OrderStatusEvent` rows |
| `channel` | NOTIFY payloads of committed transactions, in commit order |
| `lost` | history: units removed together with their row |
| `pc`, `job` | where each worker's transaction is; its arguments and what it read from the order row |
| `want` | rows the pending `SELECT ... FOR UPDATE` saw in its snapshot and still has to lock, by pk |
| `got`, `made` | row objects in hand, as read or created; keys inserted and not committed |

| Action | In the code |
|---|---|
| `PlaceOrder` | validation passed, `atomic()` entered, the SELECT takes its snapshot (services.py:62-88) |
| `LockStockRow` | one row of the pk-ordered SELECT is locked and read, or skipped if it was deleted meanwhile (83-88, 174-179) |
| `InsufficientStock`, `CommitPlacement` | 91-105; 107-133 and COMMIT |
| `AdvanceOrder`, `LockOrder` | the request; the order row lock and the reads under it (views.py:75-86; services.py:144-154) |
| `InvalidTransition`, `CommitTransition` | 150-151; 159-168 and COMMIT |
| `BeginRestock` | the snapshot of `_restock` (171-179) |
| `RecreateStockRow`, `DuplicateStockRow` | `Stock.objects.create` waiting on, or failing at, the unique index (186-196) |
| `CommitCancellation` | 198-201, 159-168 and COMMIT |
| `Abort` | the worker or its connection dies, PostgreSQL aborts |
| `DeleteStockRow` | the admin, or a cascade from a variant or a warehouse, removes a row nobody has locked |

A transaction's writes become visible in its commit step, so a statement that
only writes rows the transaction has already locked needs no step of its own: no
other transaction can tell when it ran. What others can observe or obstruct
(each lock, each insert under the unique key, the commit) is a step of its own.
The statement's snapshot and its row locks are apart, as READ COMMITTED has
them: a row locked after a wait is read again, a row deleted during the wait is
skipped, a row inserted after the snapshot is not seen.

### Gateway: state and code

| Variable | In the code |
|---|---|
| `pending` | notifications whose callback asyncpg has scheduled |
| `clients` | `ConnectionManager._clients` |
| `filter`, `queue`, `dropped` | the fields of each `Client`; cleared when the client is unregistered, because the object is then garbage |
| `serve`, `pump` | the `await` that `_serve` and `_pump` of the connection are at |
| `hand` | the message that `_pump` took and has not sent |
| `wire` | whether the peer is still there |
| `log`, `since`, `sent` | histories: everything broadcast, its length when the client registered, what was written to its socket |

| Action | In the code |
|---|---|
| `Notify`, `Broadcast` | a notification arrives (external); `broadcast`, one step because it never awaits (manager.py:55-69) |
| `Accept`, `HelloSent`, `HelloFails` | main.py:97-98; the greeting and the start of the pump (99-108); a greeting that raises, outside the `try` |
| `Disconnected` | `receive_text` raises, the `finally` runs (109-117) |
| `Take`, `Timeout`, `Beat`, `Send`, `SendFails` | the pump (120-127) |
| `PeerGone` | the browser or the network (external) |

Events are positions in `log`, so two equal payloads stay apart. A `QueueSize`
of 0 is unbounded, as it is for `asyncio.Queue`. A greeting that fails leaves its
client registered for ever (main.py:98-107): `OnlyServedOrOrphaned` names that
leak exactly, and `DropsAccounted` covers the queue that then fills.

### EventSource and LiveView: state and code

A notification is the set of subjects it is about: one order, or the stock keys
of a transaction. Its content is its position in `committed`; a row of the store
holds the position it shows. So "the screen is current" is an equation between
positions.

| Variable | In the code |
|---|---|
| `task`, `link`, `listening`, `connected` | `_run` and its connection; `add_listener` calls done; what `/healthz` reports (events.py:36-83) |
| `arriving` | notifications received whose `_handle` has not run |
| `joined`, `queue` | the tab's `Client` in the manager |
| `wire` | frames sent and not yet handled by the browser |
| `socket` | `store.connection` |
| `orders`, `stock` | the store's rows (dashboard.ts:20-29) |
| `fetch`, `read` | the two snapshot requests of App.vue:30-36, and what was committed when each ran |
| `latest`, `missed`, `wasFresh` | histories |

`LiveView` extends `EventSource`; each of its steps is a step of the listener with
what the tab sees of it, or a step of the socket, the snapshot or the store. The
gateway in it is what module `Gateway` does for one dashboard client. A gateway
that stops or crashes takes the sockets with it, in the same step: any frame the
browser handles after a crash could as well have been handled before it.

### Traffic: state and code

`Traffic` extends `OrderService`: a worker serves a call, and the transactions of
the call are the service's own actions, so nothing of the service is modelled
twice. Between them the call decides on what it has read.

| Variable | In the code |
|---|---|
| `active` | the variants with `is_active` |
| `call[t].kind`, `.stage`, `.tries` | which view or command it is, how far it is, samples left (`for _ in range(3)`) |
| `.lines`, `.plan` | what the serializer or `place_random_order` chose; the orders and statuses that `advance_random_orders` chose |
| `.placed`, `.moved`, `.code` | what the call has committed, and its answer |
| `.alone`, `.listed` | histories: nothing else went on; what has been active since it came in |

| Action | In the code |
|---|---|
| `Create`, `Request`, `Simulate` | POST orders with its validation (serializers.py:55-79), advance, the demo call or a round of the command |
| `Sample`, `BeginPlace` | `place_random_order` (demo.py:23-44) |
| `Refused`, `Placed` | `InsufficientStock` and success, as the caller handles them (views.py:56-73, 164-171; demo_orders.py:43-52) |
| `ReadCandidates`, `BeginAdvance` | `advance_random_orders` (demo.py:47-70) |
| `Advanced`, `NotAdvanced` | the transition, or `InvalidTransition` (views.py:80-86; demo.py:69-73) |
| `Respond`, `Broken` | views.py:171-184; any other exception or a crash |

### BackOffice: state and code

`stockForm` is the row as an open stock form shows it; `SaveStock` writes it back,
with a quantity typed in or not, to the row with that pk. `SaveOrder` saves an
order form with any status in `Edits`, `DeleteOrder` removes an order with its items and
audit rows, `AddStock` and `DeleteStockRow` add and remove rows. Each waits for
the row locks of running transactions, as an UPDATE or a DELETE does, and does
nothing else: the admin knows neither the lifecycle, nor restocking, nor events.
`OrderGone` is `Order.DoesNotExist` in `advance_order`.

### TopSellers: state and code

Time passes in ticks, and a payload carries ages instead of times: that of the
snapshot its rows were read from, and that of `generated_at`. Ages beyond what
the properties compare are not told apart, so there are finitely many states.

| Variable | In the code |
|---|---|
| `sales` | how often the result of the query has changed |
| `cache`, `left` | the entry of the cache, and ticks until it expires |
| `req` | requests in service: asked, missed, computed, answered (analytics/views.py:39-54) |
| `panel`, `timer` | `topSellers` and `topSellersGeneratedAt` of the store; the timer of App.vue |
| `failures` | failed requests and evictions so far |

`Refresh` is `refreshTopSellers`, called when the panel is mounted and whenever
the timer fires, also while an earlier request is unanswered. The timer is set
once the first request is over, whatever came of it. One pair of parameters is
modelled, because every pair has its own key.

### PickPath: state and code

`where` places the items of an order into bins or nowhere (its stock row is gone);
`BinList` is `sorted(bins)`, each bin at its rank (so that it can be reasoned about:
`BinListSorts`); `route` grows by nearest neighbour and is then
improved by 2-opt, with `scan` as the loops' `i` and `j`. `RunPython` is
`pickpath/reference.py` with one pair of the scan per step; `RunNative` is the
C++ engine of `NativePickPath`, in which a whole scan is a step, as nothing
observes it. `EnginesAgree` maps the Python engine to the C++ one: the steps that
keep a pair stutter, and every swap is the swap that the C++ engine makes.
Indices start at 1 in the models and at 0 in the code.

## 3. Runs

| Run | Instance | Distinct states | Shows |
|---|---|---|---|
| `service_race` | 3 workers, 2 orders, 2 variants, quantities to 2, scarce stock; symmetry | 85 208 | no oversell, units conserved, locked rows fresh, no deadlock, honest refusals |
| `service_delist` | 2 workers, 2 orders, rows removed and recreated | 233 974 | conservation, locks, announcements, refinement of `OrderBook` |
| `service_deadlock` | as `service_delist` | violation | see finding 1 |
| `service_lock_timeout` | 2 workers, one may stall; fairness | violation | see finding 2 |
| `traffic` | 2 workers, 2 orders, the last unit of a variant; fairness | 101 134 | honest answers, refusals that only others cause, sold while listed, the audit trail, every call answered |
| `backoffice` | 2 workers, 2 orders, 1 unit, 3 writes by staff; symmetry | 133 993 | locked rows stay as read; the service conserves units |
| `backoffice_stock` | as above, stock page only, nothing typed in | violation | see finding 4 |
| `gateway_fanout` | 2 clients, one may be stuck for ever, queues of 1, 3 events; fairness | 537 340 | membership, losses old and counted, order, refinement of `Feed`, fresh events reach a prompt client |
| `liveview` | 2 orders, 1 key, 4 notifications, 2 failures, lists and queue of 1; fairness | 800 536 | order end to end, the reasons for a stale screen, honest health, everything works together again |
| `liveview_reconnect` | 1 order, 2 notifications, 1 failure | violation | see finding 3 |
| `pickpath` | 5 items on 3 x 3 bins or nowhere, every engine | 104 723 | each bin once, 2-optimal, exact oracle, swaps shorten, the engines agree, the scan ends |
| `topsellers` | 2 requests, a TTL of 2 ticks, a period of 1, requests of up to 2 | 1 413 944 | bounds on the age of answers and panel, an honest stamp, the panel catches up |

**Bounds.** Two orders over two keys are the smallest instance in which two
requests overlap in part, in full, and in opposite order; the third worker adds
a cycle of three and a bystander. `MaxLine` 2 against two units of red and one of
blue makes every placement fit, fit alone, or fit not at all. `MaxPk` stops new
cancellations once the pk sequence has passed it (six rows recreated are more
than any schedule of two orders needs). Quantities and pks are otherwise
unbounded. Symmetry is used in `service_race` and `backoffice` only, where no
liveness is checked. `CHECK_DEADLOCK FALSE` says why in every run: the system may
stop when every identity is used or every bounded event has happened, while a
real deadlock is what `NoDeadlock` states. `topsellers` never stops and has the
check on.

Traffic: one unit that two workers contend for makes every sample that was right
when it was taken wrong when it is placed; two orders let a demo call advance its
own placement and a stranger's; `MaxEvents` stops new calls, not those in service.
BackOffice: one unit shows any unit lost or doubled; three writes are enough to
undo a status, remove an order or a row and add the row again under one running
transaction.

Gateway: a queue of one with three events fills, sheds and drains with a message
in the pump's hand; two clients are one that lags or is stuck beside one that does
not. Larger queues are what the proofs are for. LiveView: four notifications are
two placements, or one placement and two transitions, so a list of one row evicts
an order and gets it back; two failures are a loss during the recovery from
another; `MaxFailures` bounds every failure together. Orders are numbered as they
are placed, which is how the snapshot sorts them.

PickPath: five items on a grid of three by three, in every multiset of bins, with
bins shared and missing; ties are everywhere on such a grid, swaps happen at both
ends of the tour, and several swaps follow each other. Routes of different length
go through the same code. TopSellers: a request may outlast both the TTL and the
period, so entries are overwritten by older ones and polls overtake each other;
longer ones differ by numbers only, which the proofs cover.

**Fairness.** A worker that is not blocked executes its next statement (weak
fairness on `Proceed`). PostgreSQL serves the waiters of a lock in arrival order,
so a lock that keeps becoming free is eventually granted (strong fairness on
`Grant`). Nothing is assumed of callers, of `Abort` or of removals. `Traffic`
assumes the same, and that a call goes on to its next statement (`Decide`,
`Outcome`): the views are straight-line code.
In the gateway the loop runs every ready callback and task, so `Broadcast` and the
tasks of a `Prompt` client (one whose socket takes frames) are weakly fair; its
`Take` is strongly fair, because `wait_for` returns at once when the queue has a
message, so heartbeats cannot pre-empt it for ever. Other clients get no
fairness: their sends may block for ever. In `LiveView` the gateway's process with
its listener, the socket, and the deliveries are weakly fair, each as a whole: what
is not a failure happens, and a gateway that ended is started again
(`restart: unless-stopped` in docker-compose.prod.yml). There are finitely many
notifications, so no delivery starves another for ever. In `PickPath` the code
just goes on. In `TopSellers` time passes, the browser's timer fires, and a
request that does not fail is served; nobody else has to ask.

**Findings.**

1. `service_deadlock`: services.py:6-8 says the global lock order makes
   deadlocks impossible. Cancelling two orders whose stock rows were removed
   recreates the rows in the order of `items.all()`, which nothing orders; each
   transaction then waits on the other's uncommitted unique-index entry.
   PostgreSQL's detector aborts one; nothing is lost (`UnitsConserved` holds with
   `Abort`), but the claim does not.
2. `service_lock_timeout`: README.md:217 says `lock_timeout` bounds how long a
   contended request waits. Nothing sets it (settings.py:85-95), and a
   transaction that stalls with its locks keeps others waiting for ever.
3. `liveview_reconnect`: docs/architecture.md:77-78 and README.md:210-211 say the
   browser reads the snapshot again on reconnect, so that its state heals. App.vue
   reads it once, when mounted; `onclose` only schedules `connect`
   (useWebSocket.ts:38-45). What commits while the socket is down stays off the
   screen until a later event names the same row, or the page is reloaded.
4. `backoffice_stock`: services.py:3-4 says that every code path that mutates stock
   goes through that module and its locking protocol, and inventory/models.py:25-26
   that a change of `quantity` must first take `SELECT ... FOR UPDATE`. The stock
   form of the admin reads the row without a lock and writes its quantity back when
   it is saved; the decrement of an order placed in between is lost.
   `ServiceConserves` and `LockedRowsFresh` say what still holds: the loss is the
   form's alone, and no transaction of the service is misled by it.

`StaleOnlyIfMissed` records when a quiet screen may be stale, and that there is no
other way: the row's last event was missed after the snapshot was read; the
snapshot was older than an event already applied and overwrote it; an older event
was applied over a newer snapshot and the newer event was then lost; or the
snapshot failed and no event has named the row.

`AnswersHonest` allows what the code does when a call breaks: a 500 may follow a
commit, since a demo call is several transactions. `AloneNeverRefused` isolates
the stale reads of the demo traffic: each of its refusals needs another call.

## 4. Proofs

`TopSellersProofs` is about `TopSellers!Spec` with any TTL, polling period, longest
request and number of requests:

* The inductive invariant `IInv` follows a payload through its life: computed, it
  is no older than its request (`RequestOK`); stored, its age and what is left of
  the entry add up to at most a TTL and a request (`EntryOK`); shown, it was young
  enough when the timer was last set, or the request which that timer sent is
  still in service (`PanelOK`). The second case is what `PanelBounded` needs and
  what no state of the panel alone shows: a timer that fires while its answer is
  late.
* `TypeCorrect`, `AnswersAreBounded`, `PanelIsBounded`, `StampsAreHonest` follow.

`GatewayProofs` is about `Gateway!Spec` with any number of clients and orders, any
queue size and any number of events:

* `TypeCorrect` (queues never exceed their size), `Membership`.
* `FlowInvariant`, the inductive invariant `FlowInv`: for each client, the
  positions sent, then the one in the pump's hand, then those queued form one
  rising sequence of positions the client is due. `ImplementsFeed` needs it: the
  step that sends must know that the message in hand is newer than everything
  sent, which nothing in the step itself says.
* `Refinement`: `Spec => ImplementsFeed`.
* `SheddingIsOldest` and `CounterIsExact` follow the set of lost positions through
  each step: only `Broadcast` on a full queue enlarges it, by the head of that
  queue; the remaining queue and the new event, `QueueSize` rising positions, are
  the newer ones that `OnlyOldLost` counts.

`OrderServiceProofs` is about `Spec` with arbitrary constants that satisfy the named
assumptions of `OrderData` and `OrderService`: any number of workers, warehouses and
variants, any finite number of orders
(`OrdersAssumption`: an order is identified by a uuid, and there are finitely many),
any initial stock with distinct pks.

* `TypeCorrect`: `Spec => []TypeOK`.
* `RowInvariant`, the inductive invariant. `LockedRowsFresh` is not inductive
  as it stands: the step that locks a row needs that nobody else holds it, that
  the pk it looks for is really that key's, and that committed pks are distinct
  and below the sequence; the commit needs that a row in hand belongs to a line.
  So `RowInv` adds: an idle worker holds nothing (`IdleClean`), an order being
  placed does not exist and is nobody else's (`PlacingFresh`), one holder per
  order row (`OrderLockSound`), pks are sound (`RowsSound`), a row in hand is the
  committed one or an uncommitted insert (`HandsSound`, `MadeSound`), and a wanted
  pk is stale or the key's own (`WantsSound`).
  `RowInv` leaves out that a waited-for order exists, because staff can delete
  orders; the service alone keeps that as well (`OrdersFound`), and `ServiceInv`,
  inductive for `Spec`, is the two together.
* `NeverOversold`, `LocksProtect`, `AuditComplete` follow from it.
* `UnitsAreConserved`: `Spec => []UnitsConserved`. What orders hold of a key is a sum
  over all orders, and a commit changes one summand by the lines in hand, which is
  what it takes from, or gives to, the locked row (`HandIsLines`). The facts on sums
  that this needs are proved in `SumTheorems`. An induction theorem cannot be
  cited there, so the argument is by a least counterexample: among the subsets of the set
  for which a fact fails one has the fewest elements, and taking an element out of it
  leaves a smaller one.
* `DeadlockFree` and `HonestRefusals`, while no stock row is removed
  (`~StockRowsDeletable`, the condition finding 1 shows to be necessary). Every
  waiter for a stock row wants a pk smaller than every other it still wants, and
  has locked only smaller ones, so along a chain of waiters the pk waited for
  grows; in a set in which everyone waits for a member, the largest has none to
  wait for. The set need not be finite: the argument is the well-foundedness of
  the naturals, not a cardinality.
* `Refinement`: `Spec => ImplementsOrderBook`, with crashes and removals. Each
  commit step maps to one `OrderBook` step and every other step to a stutter.
* `ChannelComplete`: `Spec => []ChannelTellsStock`.

`BackOfficeProofs` is about `OfficeSpec`, with any number of writes by staff:

* `OfficeInv` is `RowInv` with typed forms. Staff break parts of what the service
  keeps on its own (an order that is waited for may be gone, an audit trail may
  disagree with a status), so the proof asks which parts of `RowInv` survive:
  all of them, because every write waits for the row lock, keeps the pk of the row
  it writes, or takes a new one under the unique key.
* `LocksHoldAgainstStaff`, `OfficeNeverOversells`, and `ServiceConservesUnits`: a step of
  the service creates and loses no unit even if staff have rewritten the rows since.
  `NoLostUpdate`, which does not hold, is finding 4.

`LiveViewProofs` is about `LiveView!Spec` with any number of orders, keys,
notifications and failures, any queue size and any length of the list:

* `TypeInv` adds to the types that every position held anywhere is that of a committed
  notification, and what the listener's state says of its subscriptions
  (`Reported`). `TypeCorrect` and `HealthReported` follow.
* `FlowInv`: the frames sent, the tab's queue and the callbacks not yet run are one rising
  sequence, all later than what the tab has applied (`Ordered`); every committed
  position is applied or passed over, on its way, or missed (`Accounted`); and nothing
  is on its way to a tab that is not registered. The last is what a reconnect needs: a
  new queue starts empty, so nothing old can follow. `AppliedInOrder` follows.
* `StoreInv` says where each row is from: the last notification about its subject that
  was applied, or the snapshot. When all is quiet nothing is on its way, so by
  `Accounted` what was not applied was missed, and a case analysis gives the four
  reasons of `StaleOnlyIfMissed` (`StaleRowsExplained`).

`TrafficProofs` is about `TrafficSpec`, under
`Statuses \subseteq Targets`: callers may ask for every status, as the API lets
them. (The `traffic` run asks for one, to stay small.)

* `TrafficInv` says that the stage of a call tells what it has done and where its
  transaction can be: a call that chooses what to place has committed no order and
  no transition, a placement runs only in stage `place` and with valid lines, a
  transition only in stage `walk`. Neither theorem is inductive without it: that
  409 means no trace needs that the placement which was refused is the call's first
  step to commit anything.
* `TrafficRunsService`: `TrafficSpec => Spec`. Every step of a call is a step of the
  service or a stutter, so that what is proved of `Spec` without fairness holds
  behind the API and the demo traffic: `TrafficAudit` and `TrafficNeverOversells`
  state two of these results.
* `HonestAnswers`: `TrafficSpec => []AnswersHonest`.
* `SoldWasListed`: `TrafficSpec => SoldWhileListed`. `ListedInv`: while a call chooses or
  places, everything active now has been listed, and so has every variant of its
  lines; a running placement is that of the call's lines.
* `AloneIsNeverRefused`: `TrafficSpec => AloneNeverRefused`. `AloneInv` follows the
  unlocked reads of a demo call that is alone up to their use: sampled lines fit the
  stock, each row is still to be locked or in hand as it was sampled, each planned
  transition is allowed by the committed status, and a plan names an order once, so
  that a transition of its own does not make the next one stale.

`PickPathProofs` is about `PickPath!Spec` with any finite number of items and any bins
with natural coordinates, as `Stock.bin_x` and `bin_y` are:

* `PathInv`: the bins are those of the order, sorted; the walk visits none twice; when
  the improvements begin none is left (`WalkInv`); and no pair that the scan has left
  behind would shorten the tour (`ScanInv`). `TwoOptimal` alone is not inductive: that
  the scan may stop needs what it has passed, and that it starts again after a swap is
  what keeps this true.
* `ItemsPickedOnce`: `Spec => []EveryItemOnce`. A visited bin is new, a reversal permutes
  the walk, and the list names every located bin once.
* `EnginesTakeSameSteps`: `Spec => EnginesAgree`. A kept pair is a stutter; a swapped one
  is the first improving pair, because every earlier one has been left behind
  (`SwapIsFirst`); and the ascending scan of the C++ engine ends at what `min` returns,
  ties included (`SameNearest`). That scan is a recursive function; `BestComputed`
  proves what it computes by the least counterexample again.
* `ReversalDistance`: the length of the whole tour changes by the difference of the two
  boundary legs. The inner legs are renamed one to one and keep their lengths, since
  a distance is the same in both directions (`SumReindex`). `SwapsShortenTours` and
  `AnswerIsTwoOptimal` follow, for both engines.
* `OracleExact`: `Spec => []OracleIsExact`. The shortest ways through each set of bins
  satisfy the oracle's recursion, so that a table exists, and every table that
  satisfies it holds the shortest ways: the smallest set where it did not would have
  a smaller one. The theorem is for any number of bins; the code refuses more than 12.
  `NeverBelowOptimum`: no answer is shorter than the oracle's, as the tests assume.
* `RequestsEnd`: every step lowers, in lexicographic order, the stages ahead, the bins to
  visit or the length of the tour, and the pairs not yet left behind. With the fairness
  of `Spec` this is why `PathsAnswered` holds; that last step is liveness.

Only model-checked: liveness (`CallsAnswered`, `FreshEventsArrive`, `BackOnline`,
`PanelCatchesUp`, `PathsAnswered`), which needs fairness and `ENABLED`. Every safety
invariant, action property and refinement that a passing run checks is a theorem.

## 5. What could follow

* The liveness properties, with a prover that has rules for fairness: `RequestsEnd`
  is the variant for `PathsAnswered`, and `NoDeadlock` the first half of `CallsAnswered`.
* The orders of Held-Karp's table in which the code fills it: the model computes the
  table from its recursion, not mask by mask.

## 6. Not modelled

* **Pick-path panel.** One request per change of the selection or of the engine,
  and the last answer to arrive is shown, under the number of its own order. The
  code promises nothing about answers that overtake each other.
* **Migration entrypoint.** A lock, a subprocess and an unlock. The session-level
  lock is released when the session ends, as its comment says; a container whose
  session is lost while its subprocess goes on is a case it has no answer to.
* **Seeding.** One transaction on an empty database, beside which nothing runs.
* **`explain_report`**, the health views, list and retrieve only read.
* **Rendering components, settings, migrations, deployment, CI, scripts.** They have
  no behaviour in which an order of events matters; the one setting that does, the
  lock timeout that is not there, is finding 2.
* Of what is modelled: prices, names and notes; the weights of random choices; the
  delays of backoff; payloads that are not JSON, which no sender produces; the
  admin's pages of products, variants and warehouses but for `is_active` and the
  removal of stock rows; the store's selection and animation counters.
