------------------------------ MODULE LiveView ------------------------------
(***************************************************************************)
(* One dashboard tab, end to end: notifications committed by the order     *)
(* service reach the listener (EventSource), the gateway queues them for   *)
(* the tab's socket, and the browser applies them to its store             *)
(* (stores/dashboard.ts) beside one snapshot read over REST (App.vue).     *)
(*                                                                         *)
(* What a row shows is the position of the notification, or of the commit  *)
(* that the snapshot saw, that it came from.  The gateway is the part of   *)
(* module Gateway that one firehose client sees; its other sockets, the    *)
(* selection, the counters and the top sellers do not touch these rows.    *)
(***************************************************************************)
EXTENDS EventSource

CONSTANTS
  QueueSize,  \* client_queue_size
  MaxRows,    \* MAX_ORDER_ROWS
  Limit       \* the limit of fetchRecentOrders

ASSUME LiveViewAssumption == QueueSize \in Nat /\ MaxRows \in Nat \ {0} /\ Limit \in Nat

VARIABLES
  joined,    \* the gateway has registered the tab's socket
  queue,     \* Seq(Nat): the client's queue in the manager
  wire,      \* Seq(Nat): frames sent and not yet handled by the browser
  socket,    \* store.connection
  orders,    \* store.orders: Seq([order, at]), newest first
  stock,     \* store.stock: [Keys -> position], 0 before the first, or NoRow
  fetch,     \* the snapshot: "reading", "done" or "failed"
  read,      \* what each request has read: a position, or NotRead
  latest,    \* history: the last position applied
  wasFresh,  \* history: all was quiet and fresh when the socket was last lost
  missed     \* history: positions that the tab was never sent, or lost

tab == <<joined, queue, wire, socket, wasFresh>>
store == <<orders, stock, latest>>
snapshot == <<fetch, read>>
vars == <<source, tab, store, snapshot, missed>>

NotRead == -1
NoRow == -1

TypeOK ==
  /\ SourceTypeOK
  /\ joined \in BOOLEAN /\ wasFresh \in BOOLEAN
  /\ queue \in Seq(1..MaxNotes) /\ wire \in Seq(1..MaxNotes)
  /\ QueueSize > 0 => Len(queue) <= QueueSize
  /\ socket \in {"connecting", "online", "offline"}
  /\ orders \in Seq([order : Orders, at : 1..MaxNotes])
  /\ Len(orders) <= MaxRows
  /\ \A i, j \in 1..Len(orders) : i # j => orders[i].order # orders[j].order
  /\ stock \in [Keys -> 0..MaxNotes \cup {NoRow}]
  /\ fetch \in {"reading", "done", "failed"}
  /\ read \in [{"orders", "stock"} -> 0..MaxNotes \cup {NotRead}]
  /\ latest \in 0..MaxNotes
  /\ missed \subseteq 1..MaxNotes

Init ==
  /\ SourceInit
  /\ joined = FALSE /\ queue = <<>> /\ wire = <<>> /\ socket = "connecting"
  /\ orders = <<>> /\ stock = [k \in Keys |-> NoRow] /\ latest = 0
  /\ fetch = "reading" /\ read = [r \in {"orders", "stock"} |-> NotRead]
  /\ wasFresh = FALSE /\ missed = {}

\* The last notification about subject s among the first p; 0 if there is none.
LastAt(s, p) ==
  CHOOSE i \in 0..p : /\ i # 0 => s \in committed[i]
                      /\ \A j \in (i + 1)..p : s \notin committed[j]

\* Everything works and nothing is on its way.
Quiet == /\ task = "up" /\ link = "alive" /\ arriving = <<>>
         /\ socket = "online" /\ queue = <<>> /\ wire = <<>>
         /\ fetch # "reading"

\* The last committed notification about s, which its row should show.
Truth(s) == LastAt(s, Len(committed))

\* Every stock row shows the committed state.
Fresh == \A k \in Keys : stock[k] = Truth(k)

Elements(s) == {s[j] : j \in 1..Len(s)}
Least(m, n) == IF m < n THEN m ELSE n

-----------------------------------------------------------------------------
(* The listener's steps, as the tab sees them.                             *)

\* Positions that a step of the listener leaves behind.
Left == (Elements(arriving) \cup (Len(committed) + 1)..Len(committed')) \ Elements(arriving')

Place(o, ks) ==
  /\ Commit(o, ks)
  /\ missed' = missed \cup Left
  /\ UNCHANGED <<tab, store, snapshot>>

SourceUpkeep ==
  /\ Upkeep
  /\ missed' = missed \cup Left
  /\ UNCHANGED <<tab, store, snapshot>>

\* The tab's connection is gone, with all that was on its way.
Hangup ==
  /\ joined' = FALSE /\ queue' = <<>> /\ wire' = <<>>
  /\ socket' = "offline"
  /\ wasFresh' = (Quiet /\ Fresh)

\* The gateway shuts down or crashes; a shutdown closes the sockets first.
GatewayGoes ==
  /\ \/ Stop \/ Stopped \/ Crash
  /\ IF socket = "offline" THEN UNCHANGED tab ELSE Hangup
  /\ missed' = missed \cup Left \cup Elements(queue) \cup Elements(wire)
  /\ UNCHANGED <<store, snapshot>>

GatewayStarts == Start /\ UNCHANGED <<tab, store, snapshot, missed>>

\* _handle hands the notification to broadcast, which sheds from a full queue.
Broadcast ==
  LET i == Head(arriving)
      full == QueueSize > 0 /\ Len(queue) >= QueueSize
  IN
  /\ Handle
  /\ queue' = IF ~joined THEN queue ELSE Append(IF full THEN Tail(queue) ELSE queue, i)
  /\ missed' = CASE ~joined -> missed \cup {i}
                 [] joined /\ full -> missed \cup {Head(queue)}
                 [] OTHER -> missed
  /\ UNCHANGED <<joined, wire, socket, wasFresh, store, snapshot>>

-----------------------------------------------------------------------------
(* The socket.                                                             *)

\* Mutant: a socket is greeted with the last event that it has shown.
JoinReplays ==
  /\ socket = "connecting" /\ ~joined /\ task \notin {"stopping", "ended"}
  /\ joined' = TRUE
  /\ queue' = IF latest = 0 THEN <<>> ELSE <<latest>>
  /\ UNCHANGED <<source, wire, socket, wasFresh, store, snapshot, missed>>

\* The gateway accepts and registers the socket.
Join ==
  /\ socket = "connecting" /\ ~joined /\ task \notin {"stopping", "ended"}
  /\ joined' = TRUE
  /\ UNCHANGED <<source, queue, wire, socket, wasFresh, store, snapshot, missed>>

Open ==
  /\ socket = "connecting" /\ joined
  /\ socket' = "online"
  /\ UNCHANGED <<source, joined, queue, wire, wasFresh, store, snapshot, missed>>

\* The pump sends the oldest message.
Pump ==
  /\ queue # <<>>
  /\ wire' = Append(wire, Head(queue)) /\ queue' = Tail(queue)
  /\ UNCHANGED <<source, joined, socket, wasFresh, store, snapshot, missed>>

\* onclose, after the connection broke.
Break ==
  /\ socket # "offline" /\ Fail
  /\ Hangup
  /\ missed' = missed \cup Elements(queue) \cup Elements(wire)
  /\ UNCHANGED <<committed, task, link, listening, connected, arriving>>
  /\ UNCHANGED <<store, snapshot>>

\* onclose, after an attempt to reach a gateway that is not there.
Refused ==
  /\ socket = "connecting" /\ ~joined /\ task \in {"stopping", "ended"}
  /\ socket' = "offline"
  /\ UNCHANGED <<source, joined, queue, wire, wasFresh, store, snapshot, missed>>

\* The timer that onclose set calls connect.
Reconnect ==
  /\ socket = "offline"
  /\ socket' = "connecting"
  /\ UNCHANGED <<source, joined, queue, wire, wasFresh, store, snapshot, missed>>

-----------------------------------------------------------------------------
(* The store.                                                              *)

\* Mutant: a new order is put first without a limit.
ApplyOrderUnlimited(o, i) ==
  IF \E j \in 1..Len(orders) : orders[j].order = o
  THEN [j \in 1..Len(orders) |-> IF orders[j].order = o THEN [order |-> o, at |-> i] ELSE orders[j]]
  ELSE <<[order |-> o, at |-> i]>> \o orders

\* applyEvent of an order event: update its row, or put a new row first.
ApplyOrder(o, i) ==
  LET row == [order |-> o, at |-> i]
      grown == <<row>> \o orders
  IN
  IF \E j \in 1..Len(orders) : orders[j].order = o
  THEN [j \in 1..Len(orders) |-> IF orders[j].order = o THEN row ELSE orders[j]]
  ELSE SubSeq(grown, 1, Least(MaxRows, Len(grown)))

\* Mutant: only keys that have a row are updated.
ApplyStockKnown(ks, i) == [k \in Keys |-> IF k \in ks /\ stock[k] # NoRow THEN i ELSE stock[k]]

\* applyEvent of a stock event: every change is written to its key's row.
ApplyStock(ks, i) == [k \in Keys |-> IF k \in ks THEN i ELSE stock[k]]

OnMessage ==
  LET i == Head(wire)
      n == committed[i]
  IN
  /\ socket = "online" /\ wire # <<>>
  /\ wire' = Tail(wire)
  /\ latest' = i
  /\ orders' = IF n \subseteq Orders THEN ApplyOrder(CHOOSE o \in n : TRUE, i) ELSE orders
  /\ stock' = IF n \subseteq Orders THEN stock ELSE ApplyStock(n, i)
  /\ UNCHANGED <<source, joined, queue, socket, wasFresh, snapshot, missed>>

\* The two requests that App.vue makes when it is mounted.  Each reads what is
\* committed when it runs.
Read(r) ==
  /\ fetch = "reading" /\ read[r] = NotRead
  /\ read' = [read EXCEPT ![r] = Len(committed)]
  /\ UNCHANGED <<source, tab, store, fetch, missed>>

\* Either request fails: nothing is hydrated, and nothing asks again.
FetchFails ==
  /\ fetch = "reading" /\ Fail
  /\ fetch' = "failed"
  /\ UNCHANGED <<committed, task, link, listening, connected, arriving>>
  /\ UNCHANGED <<tab, store, read, missed>>

\* Orders placed by position p; the numbers of the newer ones among them are larger.
PlacedBy(p) == {o \in Orders : LastAt(o, p) # 0}
Newer(o, p) == Cardinality({q \in PlacedBy(p) : q > o})

\* The newest orders at position p, newest first.
OrdersAt(p) ==
  [j \in 1..Least(Cardinality(PlacedBy(p)), Least(Limit, MaxRows)) |->
     LET o == CHOOSE o \in PlacedBy(p) : Newer(o, p) = j - 1
     IN [order |-> o, at |-> LastAt(o, p)]]

\* Both answers are there: hydrateOrders and hydrateStock replace the rows.
Hydrate ==
  /\ fetch = "reading" /\ \A r \in {"orders", "stock"} : read[r] # NotRead
  /\ orders' = OrdersAt(read["orders"])
  /\ stock' = [k \in Keys |-> LastAt(k, read["stock"])]
  /\ fetch' = "done"
  /\ UNCHANGED <<source, tab, latest, read, missed>>

-----------------------------------------------------------------------------
Next ==
  \/ \E o \in Orders, ks \in SUBSET Keys : Place(o, ks)
  \/ SourceUpkeep \/ GatewayGoes \/ GatewayStarts \/ Broadcast
  \/ Join \/ Open \/ Pump \/ Break \/ Refused \/ Reconnect
  \/ OnMessage \/ Hydrate \/ FetchFails
  \/ \E r \in {"orders", "stock"} : Read(r)

Spec == Init /\ [][Next]_vars

\* What each party does that is no failure: the gateway's process with its listener,
\* the socket, and whatever hands on a notification or an answer.
Process == \/ (Connect \/ AddListener \/ Disconnect \/ Retry) /\ SourceUpkeep
           \/ Stopped /\ GatewayGoes
           \/ GatewayStarts
Socket == Join \/ Open \/ Refused \/ Reconnect
Deliver == Broadcast \/ Pump \/ OnMessage \/ Hydrate \/ \E r \in {"orders", "stock"} : Read(r)

(* Fairness.  What is not a failure happens: the listener's task and the   *)
(* loop's callbacks run, answers and frames arrive, the browser's timers   *)
(* fire, and a gateway that ended is started again (restart:               *)
(* unless-stopped).  A dead link is noticed by the keepalive.  There are   *)
(* finitely many deliveries, so one condition serves them all.             *)
FairSpec == Spec /\ WF_vars(Process) /\ WF_vars(Socket) /\ WF_vars(Deliver)

-----------------------------------------------------------------------------
(* Properties.                                                             *)

\* What is on its way to a tab follows what it has applied, each notification at
\* most once and in commit order, across reconnections of the listener and of the
\* socket, restarts of the gateway and shedding.
InOrder ==
  LET way == <<latest>> \o wire \o queue \o arriving
  IN \A i, j \in 1..Len(way) : i < j => way[i] < way[j]

\* The ways in which a row about subject s, of request r, that shows position at
\* may stay behind once all is quiet.  Its last event was missed (no listener, no
\* socket, shed, or lost with a connection) after the snapshot was read:
Missed(s, r) == Truth(s) \in missed /\ (fetch = "done" => Truth(s) > read[r])

\* it was applied, and then replaced by a snapshot that had been read before it:
Overwritten(s, r) == Truth(s) \notin missed /\ fetch = "done" /\ Truth(s) > read[r]

\* the snapshot had it, and an older event, late, was applied over the snapshot;
Rewound(s, at) == Truth(s) \in missed /\ at \in 1..latest /\ at \notin missed /\ at < Truth(s)

\* or the snapshot failed and no event has named it yet.
Unread(s) == fetch = "failed" /\ Truth(s) = 0

\* When all is quiet every row shows the committed state, but for those four.
StaleOnlyIfMissed ==
  LET fresh(s, r, at) == \/ at = Truth(s)
                         \/ Missed(s, r) \/ Overwritten(s, r) \/ Rewound(s, at) \/ Unread(s)
  IN
  Quiet => /\ \A k \in Keys : fresh(k, "stock", stock[k])
           /\ \A j \in 1..Len(orders) : fresh(orders[j].order, "orders", orders[j].at)

\* After any failures, the listener, the gateway and the tab work together again.
BackOnline == []<>Quiet

\* README.md and docs/architecture.md: a dashboard that reconnects reads the
\* current state again, so that a screen that was fresh is fresh again.
SelfHeals == Quiet /\ wasFresh => Fresh
=============================================================================
