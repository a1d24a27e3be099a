-------------------------------- MODULE Feed --------------------------------
(***************************************************************************)
(* What the realtime gateway promises a subscriber: from the moment it     *)
(* joins, it sees events it asked for, each at most once and in the order  *)
(* they were broadcast.  Events may be skipped; nothing obliges a          *)
(* subscriber to keep up.                                                  *)
(***************************************************************************)
EXTENDS Integers, Sequences

CONSTANTS
  Clients,   \* identities for connections (a reconnection is a new client)
  Orders,    \* orders that events are about
  Stock,     \* the payload of a stock event
  Firehose   \* the filter of a dashboard socket: order_filter is None

Payloads == Orders \cup {Stock}
Filters == Orders \cup {Firehose}

\* The value of since[c] before c joins.
NotJoined == -1

VARIABLES
  log,     \* Seq(Payloads): everything broadcast so far
  filter,  \* [Clients -> Filters]
  since,   \* [Clients -> NotJoined, or the length of log when the client joined]
  seen     \* [Clients -> Seq(positions in log)]: what the client was sent

vars == <<log, filter, since, seen>>

\* A stock event is nobody's order, so a filtered client never gets one.
Wants(f, e) == f = Firehose \/ f = e

\* Position i is one that c may be sent.
Due(c, i) == i \in (since[c] + 1)..Len(log) /\ Wants(filter[c], log[i])

Init ==
  /\ log = <<>>
  /\ filter = [c \in Clients |-> Firehose]
  /\ since = [c \in Clients |-> NotJoined]
  /\ seen = [c \in Clients |-> <<>>]

Publish(e) ==
  /\ log' = Append(log, e)
  /\ UNCHANGED <<filter, since, seen>>

Join(c, f) ==
  /\ since[c] = NotJoined
  /\ since' = [since EXCEPT ![c] = Len(log)]
  /\ filter' = [filter EXCEPT ![c] = f]
  /\ UNCHANGED <<log, seen>>

See(c, i) ==
  /\ since[c] # NotJoined
  /\ Due(c, i)
  /\ \A j \in 1..Len(seen[c]) : seen[c][j] < i
  /\ seen' = [seen EXCEPT ![c] = Append(@, i)]
  /\ UNCHANGED <<log, filter, since>>

Next ==
  \/ \E e \in Payloads : Publish(e)
  \/ \E c \in Clients : \/ \E f \in Filters : Join(c, f)
                        \/ \E i \in 1..Len(log) : See(c, i)

Spec == Init /\ [][Next]_vars
=============================================================================
