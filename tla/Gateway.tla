------------------------------ MODULE Gateway ------------------------------
(***************************************************************************)
(* The realtime gateway: ConnectionManager (app/manager.py) and the two    *)
(* coroutines that serve a WebSocket, _serve and _pump (app/main.py).      *)
(*                                                                         *)
(* Everything runs on one asyncio loop, so a step is what a task does from *)
(* one await to the next; broadcast has no await and is one step.  Events  *)
(* are their positions in log, so that two equal payloads stay apart.      *)
(***************************************************************************)
EXTENDS Integers, Sequences, FiniteSets

CONSTANTS
  Clients,    \* identities for connections (a reconnection is a new client)
  Orders,     \* orders that events are about
  Stock,      \* the payload of a stock event
  Firehose,   \* order_filter is None
  QueueSize,  \* client_queue_size; 0 means no bound, as for asyncio.Queue
  MaxEvents,  \* BOUND: events that the listener ever hands over
  Prompt      \* clients whose sockets keep taking frames (fairness only)

ASSUME QueueSizeAssumption == QueueSize \in Nat
ASSUME MaxEventsAssumption == MaxEvents \in Nat
ASSUME FirehoseAssumption == Firehose \notin Orders /\ Stock # Firehose
ASSUME PromptAssumption == Prompt \subseteq Clients

Payloads == Orders \cup {Stock}
Filters == Orders \cup {Firehose}
NotJoined == -1

VARIABLES
  pending,  \* Seq(Payloads): notifications whose callback has not run yet
  log,      \* history: payloads broadcast, in order
  clients,  \* manager._clients
  filter,   \* [Clients -> Filters]: client.order_filter
  queue,    \* [Clients -> Seq(Nat)]: client.queue
  dropped,  \* [Clients -> Nat]: client.dropped
  serve,    \* [Clients -> the await that _serve is at]
  pump,     \* [Clients -> the await that _pump is at]
  hand,     \* [Clients -> Nat]: the message _pump took from the queue, or 0
  wire,     \* [Clients -> "up" or "down"]: the peer's end of the socket
  sent,     \* history: [Clients -> Seq(Nat)], events written to the socket
  since     \* history: Len(log) when the client registered

conn == <<filter, serve, wire, since>>
task == <<pump, hand, sent>>
vars == <<pending, log, clients, queue, dropped, conn, task>>

\* _serve: "new" not accepted, "hello" sends the greeting, "open" waits for
\* frames, "over" left through the finally, "failed" raised before the try.
ServeStates == {"new", "hello", "open", "over", "failed"}

\* _pump: "off" no task or a cancelled one, "waiting" for the queue, "sending" a
\* message, "beating" sends a heartbeat, "dead" ended by an exception.
PumpStates == {"off", "waiting", "sending", "beating", "dead"}

Full(c) == QueueSize > 0 /\ Len(queue[c]) >= QueueSize

TypeOK ==
  /\ pending \in Seq(Payloads)
  /\ log \in Seq(Payloads)
  /\ clients \subseteq Clients
  /\ filter \in [Clients -> Filters]
  /\ queue \in [Clients -> Seq(Nat)]
  /\ QueueSize > 0 => \A c \in Clients : Len(queue[c]) <= QueueSize
  /\ dropped \in [Clients -> Nat]
  /\ serve \in [Clients -> ServeStates]
  /\ pump \in [Clients -> PumpStates]
  /\ hand \in [Clients -> Nat]
  /\ wire \in [Clients -> {"up", "down"}]
  /\ sent \in [Clients -> Seq(Nat)]
  /\ since \in [Clients -> Nat \cup {NotJoined}]

Init ==
  /\ pending = <<>> /\ log = <<>> /\ clients = {}
  /\ filter = [c \in Clients |-> Firehose]
  /\ queue = [c \in Clients |-> <<>>]
  /\ dropped = [c \in Clients |-> 0]
  /\ serve = [c \in Clients |-> "new"]
  /\ pump = [c \in Clients |-> "off"]
  /\ hand = [c \in Clients |-> 0]
  /\ wire = [c \in Clients |-> "up"]
  /\ sent = [c \in Clients |-> <<>>]
  /\ since = [c \in Clients |-> NotJoined]

-----------------------------------------------------------------------------
(* The manager.                                                            *)

\* Mutant: only order events are filtered, so an order socket gets stock events.
WantsStockToo(c, e) == filter[c] = Firehose \/ e = Stock \/ e = filter[c]

\* Client.wants
Wants(c, e) == filter[c] = Firehose \/ (e \in Orders /\ e = filter[c])

\* Mutant: the queue has no bound.
OfferUnbounded(c, i) == Append(queue[c], i)

\* Mutant: a full queue keeps its oldest messages and refuses the new one.
OfferDropsNewest(c, i) == IF Full(c) THEN queue[c] ELSE Append(queue[c], i)

\* put_nowait, after shedding the oldest message of a full queue.
Offer(c, i) == Append(IF Full(c) THEN Tail(queue[c]) ELSE queue[c], i)

\* A notification reaches this process (asyncpg, from PostgreSQL).
Notify(e) ==
  /\ Len(log) + Len(pending) < MaxEvents
  /\ pending' = Append(pending, e)
  /\ UNCHANGED <<log, clients, queue, dropped, conn, task>>

\* Mutant: broadcast awaits put() and stops at the first full queue.
BroadcastWaits ==
  /\ pending # <<>>
  /\ \A c \in clients : Wants(c, Head(pending)) => ~Full(c)
  /\ pending' = Tail(pending)
  /\ log' = Append(log, Head(pending))
  /\ queue' = [c \in Clients |-> IF c \in clients /\ Wants(c, Head(pending))
                                 THEN Append(queue[c], Len(log) + 1) ELSE queue[c]]
  /\ UNCHANGED <<clients, dropped, conn, task>>

Broadcast ==
  LET to == {c \in clients : Wants(c, Head(pending))} IN
  /\ pending # <<>>
  /\ pending' = Tail(pending)
  /\ log' = Append(log, Head(pending))
  /\ queue' = [c \in Clients |-> IF c \in to THEN Offer(c, Len(log) + 1) ELSE queue[c]]
  /\ dropped' = [c \in Clients |-> IF c \in to /\ Full(c) THEN dropped[c] + 1 ELSE dropped[c]]
  /\ UNCHANGED <<clients, conn, task>>

-----------------------------------------------------------------------------
(* _serve.                                                                 *)

\* accept() returned: the client is registered and the greeting is on its way.
Accept(c, f) ==
  /\ serve[c] = "new"
  /\ serve' = [serve EXCEPT ![c] = "hello"]
  /\ filter' = [filter EXCEPT ![c] = f]
  /\ clients' = clients \cup {c}
  /\ since' = [since EXCEPT ![c] = Len(log)]
  /\ UNCHANGED <<pending, log, queue, dropped, wire, task>>

\* The greeting is sent and the pump task starts.
HelloSent(c) ==
  /\ serve[c] = "hello" /\ wire[c] = "up"
  /\ serve' = [serve EXCEPT ![c] = "open"]
  /\ pump' = [pump EXCEPT ![c] = "waiting"]
  /\ UNCHANGED <<pending, log, clients, queue, dropped, filter, wire, since, hand, sent>>

\* send_text raises before the try: nothing unregisters the client.
HelloFails(c) ==
  /\ serve[c] = "hello" /\ wire[c] = "down"
  /\ serve' = [serve EXCEPT ![c] = "failed"]
  /\ UNCHANGED <<pending, log, clients, queue, dropped, filter, wire, since, task>>

\* Mutant: unregister sits after the receive loop, not in the finally.
DisconnectedKeepsClient(c) ==
  /\ serve[c] = "open" /\ wire[c] = "down"
  /\ serve' = [serve EXCEPT ![c] = "over"]
  /\ pump' = [pump EXCEPT ![c] = "off"]
  /\ UNCHANGED <<pending, log, clients, queue, dropped, filter, wire, since, hand, sent>>

\* receive_text raises; the finally cancels the pump and unregisters the client,
\* whose queue, counter and message in hand are garbage from then on.
Disconnected(c) ==
  /\ serve[c] = "open" /\ wire[c] = "down"
  /\ serve' = [serve EXCEPT ![c] = "over"]
  /\ clients' = clients \ {c}
  /\ pump' = [pump EXCEPT ![c] = "off"]
  /\ hand' = [hand EXCEPT ![c] = 0]
  /\ queue' = [queue EXCEPT ![c] = <<>>]
  /\ dropped' = [dropped EXCEPT ![c] = 0]
  /\ UNCHANGED <<pending, log, filter, wire, since, sent>>

-----------------------------------------------------------------------------
(* _pump.                                                                  *)

Take(c) ==
  /\ pump[c] = "waiting" /\ queue[c] # <<>>
  /\ pump' = [pump EXCEPT ![c] = "sending"]
  /\ hand' = [hand EXCEPT ![c] = Head(queue[c])]
  /\ queue' = [queue EXCEPT ![c] = Tail(@)]
  /\ UNCHANGED <<pending, log, clients, dropped, conn, sent>>

\* Mutant: the timeout discards a message that arrived with it.
TimeoutLosesMessage(c) ==
  /\ pump[c] = "waiting"
  /\ pump' = [pump EXCEPT ![c] = "beating"]
  /\ queue' = [queue EXCEPT ![c] = IF @ = <<>> THEN @ ELSE Tail(@)]
  /\ UNCHANGED <<pending, log, clients, dropped, conn, hand, sent>>

\* wait_for times out, perhaps just as a message arrives: Queue.get takes a
\* message only when it returns it, so that message stays in the queue.
Timeout(c) ==
  /\ pump[c] = "waiting"
  /\ pump' = [pump EXCEPT ![c] = "beating"]
  /\ UNCHANGED <<pending, log, clients, queue, dropped, conn, hand, sent>>

Beat(c) ==
  /\ pump[c] = "beating" /\ wire[c] = "up"
  /\ pump' = [pump EXCEPT ![c] = "waiting"]
  /\ UNCHANGED <<pending, log, clients, queue, dropped, conn, hand, sent>>

Send(c) ==
  /\ pump[c] = "sending" /\ wire[c] = "up"
  /\ pump' = [pump EXCEPT ![c] = "waiting"]
  /\ hand' = [hand EXCEPT ![c] = 0]
  /\ sent' = [sent EXCEPT ![c] = Append(@, hand[c])]
  /\ UNCHANGED <<pending, log, clients, queue, dropped, conn>>

\* send_text raises and ends the task; _serve does not look at it.
SendFails(c) ==
  /\ pump[c] \in {"sending", "beating"} /\ wire[c] = "down"
  /\ pump' = [pump EXCEPT ![c] = "dead"]
  /\ UNCHANGED <<pending, log, clients, queue, dropped, conn, hand, sent>>

\* The peer closes, crashes or becomes unreachable.
PeerGone(c) ==
  /\ serve[c] \in {"hello", "open"} /\ wire[c] = "up"
  /\ wire' = [wire EXCEPT ![c] = "down"]
  /\ UNCHANGED <<pending, log, clients, queue, dropped, filter, serve, since, task>>

-----------------------------------------------------------------------------
Serve(c) == \/ \E f \in Filters : Accept(c, f)
            \/ HelloSent(c) \/ HelloFails(c) \/ Disconnected(c)

Pump(c) == Take(c) \/ Timeout(c) \/ Beat(c) \/ Send(c) \/ SendFails(c)

Next == \/ \E e \in Payloads : Notify(e)
        \/ Broadcast
        \/ \E c \in Clients : Serve(c) \/ Pump(c) \/ PeerGone(c)

Spec == Init /\ [][Next]_vars

(* Fairness.  The loop runs every ready callback and task.  Only the sockets  *)
(* of Prompt clients keep accepting frames; another client's send may block   *)
(* for ever.  When the queue has a message wait_for returns at once, so the   *)
(* timeout cannot beat Take for ever: strong fairness.                        *)
ClientFairness(c) == /\ WF_vars(HelloSent(c)) /\ WF_vars(Disconnected(c)) /\ WF_vars(HelloFails(c))
                     /\ SF_vars(Take(c)) /\ WF_vars(Beat(c)) /\ WF_vars(Send(c))

FairSpec == Spec /\ WF_vars(Broadcast) /\ \A c \in Prompt : ClientFairness(c)

-----------------------------------------------------------------------------
(* Properties.                                                             *)

Elements(s) == {s[j] : j \in 1..Len(s)}

\* The positions c has been due since it registered.
Due(c) == {i \in (since[c] + 1)..Len(log) : Wants(c, log[i])}

\* Events for c that are sent, in the pump's hand or queued.
Kept(c) == Elements(sent[c]) \cup Elements(queue[c]) \cup ({hand[c]} \ {0})

\* Events that c was due and will never get.
Lost(c) == Due(c) \ Kept(c)

\* A registered client has lost an event only if at least QueueSize newer ones it
\* wants were broadcast since: shedding takes the oldest, and only from a client
\* that lags by a whole queue.
OnlyOldLost ==
  \A c \in clients : \A i \in Lost(c) :
    QueueSize > 0 /\ Cardinality({j \in Due(c) : j > i}) >= QueueSize

\* The drop counter behind /healthz is exact for every registered client: an event
\* it was due and that is neither sent, in hand nor queued was counted, across
\* timeouts, failed sends and refilled queues.
DropsAccounted == \A c \in clients : Cardinality(Lost(c)) = dropped[c]

\* The manager holds exactly the clients being served, and those whose peer went
\* away before the greeting, which nothing ever removes.
OnlyServedOrOrphaned ==
  /\ clients = {c \in Clients : serve[c] \in {"hello", "open", "failed"}}
  /\ \A c \in Clients : pump[c] # "off" => serve[c] = "open"

\* A client whose socket takes frames is sent every event it wants, or a newer one,
\* whatever the other clients' sockets do.
Known == log \o pending
FreshEventsArrive ==
  \A c \in Prompt, n \in 1..MaxEvents :
    (/\ c \in clients /\ n \in (since[c] + 1)..Len(Known) /\ Wants(c, Known[n]))
      ~> (wire[c] = "down" \/ \E i \in Elements(sent[c]) : i >= n)

\* Each client sees events it wants, at most once and in broadcast order.
Subscriptions == INSTANCE Feed WITH seen <- sent
ImplementsFeed == Subscriptions!Spec
=============================================================================
