---------------------------- MODULE EventSource ----------------------------
(***************************************************************************)
(* PostgresEventSource (realtime app/events.py): one task keeps a          *)
(* connection that LISTENs on two channels, and reconnects when it is      *)
(* lost.  Notifications are not durable: PostgreSQL sends one to the       *)
(* sessions that listen on its channel when it commits, and forgets it.    *)
(*                                                                         *)
(* A notification is the set of subjects it is about: one order, or the    *)
(* stock keys that a transaction changed.  Its content does not matter,    *)
(* only its position among the committed ones.  The delays of the backoff  *)
(* and the text of last_error are left out: nothing here measures time.    *)
(***************************************************************************)
EXTENDS Integers, Sequences, FiniteSets

CONSTANTS
  Orders,      \* orders, numbered as they are placed; the subjects of order events
  Keys,        \* stock keys, the subjects of stock events
  MaxNotes,    \* BOUND: notifications ever committed
  MaxFailures  \* BOUND: things that go wrong

ASSUME SubjectsAssumption == Orders \subseteq Nat /\ Orders \cap Keys = {}
ASSUME EventSourceBounds == MaxNotes \in Nat /\ MaxFailures \in Nat

VARIABLES
  committed,  \* Seq(Notes): every NOTIFY ever committed, in commit order
  task,       \* where _run is: see TaskStates
  link,       \* its session: "none", "alive", or "dead" and not noticed yet
  listening,  \* how many of Channels the session LISTENs on
  connected,  \* what /healthz reports as pg_listener
  arriving,   \* positions received, whose callback _handle has not run yet
  failures    \* how many things went wrong

source == <<committed, task, link, listening, connected, arriving, failures>>

Notes == {{o} : o \in Orders} \cup ((SUBSET Keys) \ {{}})
Channels == <<"order_events", "stock_events">>
ChannelOf(n) == IF n \subseteq Orders THEN "order_events" ELSE "stock_events"

\* "connecting" awaits asyncpg.connect, "listening" an add_listener, "up" the
\* keepalive, "waiting" the backoff; "stopping" was cancelled; "ended": the
\* process is gone.
TaskStates == {"connecting", "listening", "up", "waiting", "stopping", "ended"}

SourceTypeOK ==
  /\ committed \in Seq(Notes)
  /\ task \in TaskStates
  /\ link \in {"none", "alive", "dead"}
  /\ listening \in 0..Len(Channels)
  /\ connected \in BOOLEAN
  /\ arriving \in Seq(1..Len(committed))
  /\ failures \in 0..MaxFailures

SourceInit ==
  /\ committed = <<>> /\ task = "connecting" /\ link = "none" /\ listening = 0
  /\ connected = FALSE /\ arriving = <<>> /\ failures = 0

\* The session hears notification n.
Hears(n) == link = "alive" /\ \E j \in 1..listening : Channels[j] = ChannelOf(n)

\* What it receives of a notification n committed at position i.
Received(i, n) == IF Hears(n) THEN <<i>> ELSE <<>>

Fail == failures < MaxFailures /\ failures' = failures + 1

\* The connection is gone: bytes not read yet are lost, scheduled callbacks run.
Cut == /\ \E n \in 0..Len(arriving) : arriving' = SubSeq(arriving, 1, n)
       /\ listening' = 0

-----------------------------------------------------------------------------
\* Existing(o): the order has been placed.
Existing(o) == \E i \in 1..Len(committed) : committed[i] = {o}

\* A transaction of the order service commits: the event of its order, then the
\* event of the stock it changed, if any.  A placement always changes stock.
Commit(o, ks) ==
  LET ns == IF ks = {} THEN <<{o}>> ELSE <<{o}, ks>>
      end == Len(committed)
  IN
  /\ IF Existing(o) THEN TRUE
     ELSE ks # {} /\ \A q \in Orders : q < o => Existing(q)
  /\ end + Len(ns) <= MaxNotes
  /\ committed' = committed \o ns
  /\ arriving' = arriving \o Received(end + 1, {o})
                           \o (IF ks = {} THEN <<>> ELSE Received(end + 2, ks))
  /\ UNCHANGED <<task, link, listening, connected, failures>>

Connect ==
  /\ task = "connecting"
  /\ task' = "listening" /\ link' = "alive" /\ listening' = 0
  /\ UNCHANGED <<committed, connected, arriving, failures>>

ConnectFails ==
  /\ task = "connecting" /\ Fail
  /\ task' = "waiting" /\ connected' = FALSE
  /\ UNCHANGED <<committed, link, listening, arriving>>

\* Mutant: the source reports itself connected from the first channel on.
AddListenerEager ==
  /\ task = "listening" /\ link = "alive"
  /\ listening' = listening + 1
  /\ task' = IF listening' = Len(Channels) THEN "up" ELSE task
  /\ connected' = TRUE
  /\ UNCHANGED <<committed, link, arriving, failures>>

\* One add_listener returns; after the last one the source is connected.
AddListener ==
  /\ task = "listening" /\ link = "alive"
  /\ listening' = listening + 1
  /\ IF listening' = Len(Channels) THEN task' = "up" /\ connected' = TRUE
                                   ELSE UNCHANGED <<task, connected>>
  /\ UNCHANGED <<committed, link, arriving, failures>>

\* An add_listener or the keepalive raises: report it, close, and back off.
Disconnect ==
  /\ task \in {"listening", "up"} /\ link = "dead"
  /\ task' = "waiting" /\ link' = "none" /\ connected' = FALSE
  /\ UNCHANGED <<committed, listening, arriving, failures>>

\* Mutant: the second failure ends the task.
RetryOnce ==
  /\ task = "waiting" /\ failures < 2
  /\ task' = "connecting"
  /\ UNCHANGED <<committed, link, listening, connected, arriving, failures>>

Retry ==
  /\ task = "waiting"
  /\ task' = "connecting"
  /\ UNCHANGED <<committed, link, listening, connected, arriving, failures>>

\* asyncpg runs _handle for the oldest notification; even after a close.
Handle ==
  /\ arriving # <<>>
  /\ arriving' = Tail(arriving)
  /\ UNCHANGED <<committed, task, link, listening, connected, failures>>

\* stop() cancels the task, which closes the connection ...
Stop ==
  /\ task \notin {"stopping", "ended"} /\ Fail
  /\ task' = "stopping" /\ link' = "none" /\ Cut
  /\ UNCHANGED <<committed, connected>>

\* ... and then reports; the process ends and its callbacks with it.
Stopped ==
  /\ task = "stopping"
  /\ task' = "ended" /\ connected' = FALSE /\ arriving' = <<>>
  /\ UNCHANGED <<committed, link, listening, failures>>

\* The connection breaks, or PostgreSQL restarts; nobody notices yet.
LinkDies ==
  /\ link = "alive" /\ Fail
  /\ link' = "dead" /\ Cut
  /\ UNCHANGED <<committed, task, connected>>

Crash ==
  /\ task # "ended" /\ Fail
  /\ task' = "ended" /\ link' = "none" /\ listening' = 0
  /\ connected' = FALSE /\ arriving' = <<>>
  /\ UNCHANGED <<committed>>

\* A new process starts, and its lifespan starts the source.
Start ==
  /\ task = "ended"
  /\ task' = "connecting"
  /\ UNCHANGED <<committed, link, listening, connected, arriving, failures>>

\* The steps that neither bring nor hand on a notification.
Upkeep == Connect \/ ConnectFails \/ AddListener \/ Disconnect \/ Retry \/ LinkDies

\* /healthz is honest: a notification committed while the source is connected and
\* its link works reaches the process, whichever channel it is on.
HealthIsHonest ==
  [][connected /\ link = "alive" /\ committed' # committed =>
       \A i \in (Len(committed) + 1)..Len(committed') :
         \E j \in 1..Len(arriving') : arriving'[j] = i]_source
=============================================================================
