--------------------------- MODULE GatewayProofs ---------------------------
(***************************************************************************)
(* Theorems about Gateway, for all constants.                              *)
(***************************************************************************)
EXTENDS Gateway, SequenceTheorems, FiniteSetTheorems, FunctionTheorems, TLAPS

-----------------------------------------------------------------------------
(* Lemmas about sequences of positions.                                    *)

Rising(s) == \A i, j \in 1..Len(s) : i < j => s[i] < s[j]

\* Appending x adds x to the elements, and keeps a sequence rising if x is larger
\* than all of them.
LEMMA AppendElements ==
  ASSUME NEW s \in Seq(Nat), NEW x \in Nat
  PROVE  /\ Append(s, x) \in Seq(Nat)
         /\ Len(Append(s, x)) = Len(s) + 1
         /\ Elements(Append(s, x)) = Elements(s) \cup {x}
         /\ Rising(s) /\ (\A y \in Elements(s) : y < x) => Rising(Append(s, x))
<1>1. /\ Append(s, x) \in Seq(Nat)
      /\ Len(Append(s, x)) = Len(s) + 1
      /\ \A i \in 1..Len(s) : Append(s, x)[i] = s[i]
      /\ Append(s, x)[Len(s) + 1] = x
      /\ Len(s) \in Nat
  OBVIOUS
<1>2. Elements(Append(s, x)) = Elements(s) \cup {x}
  BY <1>1 DEF Elements
<1>3. Rising(s) /\ (\A y \in Elements(s) : y < x) => Rising(Append(s, x))
  BY <1>1 DEF Rising, Elements
<1> QED BY <1>1, <1>2, <1>3

\* The elements of a rising sequence are its head, and larger ones in its tail.
LEMMA TailElements ==
  ASSUME NEW s \in Seq(Nat), s # <<>>
  PROVE  /\ Head(s) \in Nat
         /\ Tail(s) \in Seq(Nat)
         /\ Len(Tail(s)) = Len(s) - 1
         /\ Elements(s) = Elements(Tail(s)) \cup {Head(s)}
         /\ Rising(s) => Rising(Tail(s)) /\ \A y \in Elements(Tail(s)) : Head(s) < y
<1>1. /\ Head(s) \in Nat /\ Head(s) = s[1]
      /\ Tail(s) \in Seq(Nat)
      /\ Len(Tail(s)) = Len(s) - 1
      /\ \A i \in 1..Len(Tail(s)) : Tail(s)[i] = s[i + 1]
      /\ Len(s) \in Nat /\ Len(s) >= 1
  BY HeadTailProperties, EmptySeq
<1>2. Elements(s) = Elements(Tail(s)) \cup {Head(s)}
  <2>1. \A i \in 1..Len(s) : i = 1 \/ (i - 1 \in 1..Len(Tail(s)) /\ s[i] = Tail(s)[i - 1])
    BY <1>1
  <2>2. \A i \in 1..Len(Tail(s)) : i + 1 \in 1..Len(s)
    BY <1>1
  <2> QED BY <1>1, <2>1, <2>2 DEF Elements
<1>3. Rising(s) => Rising(Tail(s)) /\ \A y \in Elements(Tail(s)) : Head(s) < y
  BY <1>1 DEF Rising, Elements
<1> QED BY <1>1, <1>2, <1>3

-----------------------------------------------------------------------------
(* Type correctness.                                                       *)

\* What a client is offered fits its queue.
LEMMA OfferType ==
  ASSUME TypeOK, NEW c \in Clients, NEW i \in Nat
  PROVE  /\ Offer(c, i) \in Seq(Nat)
         /\ QueueSize > 0 => Len(Offer(c, i)) <= QueueSize
<1> USE DEF TypeOK
<1>1. CASE Full(c)
  <2>1. queue[c] # <<>>
    BY <1>1, QueueSizeAssumption DEF Full
  <2> QED BY <1>1, <2>1, TailElements, AppendElements, QueueSizeAssumption DEF Offer, Full
<1>2. CASE ~Full(c)
  BY <1>2, AppendElements, QueueSizeAssumption DEF Offer, Full
<1> QED BY <1>1, <1>2

\* The gateway starts well typed, without clients.
THEOREM InitType == Init => TypeOK
BY QueueSizeAssumption DEF Init, TypeOK, Filters, ServeStates, PumpStates

\* Every step of the manager, of a connection and of the browser keeps the types.
THEOREM NextType == TypeOK /\ [Next]_vars => TypeOK'
<1> SUFFICES ASSUME TypeOK, [Next]_vars PROVE TypeOK'
  OBVIOUS
<1> USE DEF TypeOK, conn, task, ServeStates, PumpStates
<1>0. CASE UNCHANGED vars
  BY <1>0 DEF vars
<1>1. ASSUME NEW e \in Payloads, Notify(e) PROVE TypeOK'
  BY <1>1 DEF Notify
<1>2. CASE Broadcast
  <2>1. Head(pending) \in Payloads /\ Tail(pending) \in Seq(Payloads)
    BY <1>2, HeadTailProperties DEF Broadcast
  <2>2. Len(log) + 1 \in Nat
    OBVIOUS
  <2>3. /\ queue' \in [Clients -> Seq(Nat)]
        /\ QueueSize > 0 => \A c \in Clients : Len(queue'[c]) <= QueueSize
    BY <1>2, <2>2, OfferType DEF Broadcast
  <2>4. log' \in Seq(Payloads) /\ dropped' \in [Clients -> Nat]
    BY <1>2, <2>1 DEF Broadcast
  <2> QED BY <1>2, <2>1, <2>3, <2>4 DEF Broadcast
<1>3. ASSUME NEW c \in Clients, NEW f \in Filters, Accept(c, f) PROVE TypeOK'
  BY <1>3 DEF Accept
<1>4. ASSUME NEW c \in Clients, HelloSent(c) PROVE TypeOK'
  BY <1>4 DEF HelloSent
<1>5. ASSUME NEW c \in Clients, HelloFails(c) PROVE TypeOK'
  BY <1>5 DEF HelloFails
<1>6. ASSUME NEW c \in Clients, Disconnected(c) PROVE TypeOK'
  BY <1>6, EmptySeq, QueueSizeAssumption DEF Disconnected
<1>7. ASSUME NEW c \in Clients, Take(c) PROVE TypeOK'
  <2>1. /\ Head(queue[c]) \in Nat /\ Tail(queue[c]) \in Seq(Nat)
        /\ Len(Tail(queue[c])) = Len(queue[c]) - 1
    BY <1>7, TailElements DEF Take
  <2> QED BY <1>7, <2>1, QueueSizeAssumption DEF Take
<1>8. ASSUME NEW c \in Clients, Timeout(c) \/ Beat(c) \/ SendFails(c) PROVE TypeOK'
  BY <1>8 DEF Timeout, Beat, SendFails
<1>9. ASSUME NEW c \in Clients, Send(c) PROVE TypeOK'
  BY <1>9 DEF Send
<1>10. ASSUME NEW c \in Clients, PeerGone(c) PROVE TypeOK'
  BY <1>10 DEF PeerGone
<1> QED
  BY <1>0, <1>1, <1>2, <1>3, <1>4, <1>5, <1>6, <1>7, <1>8, <1>9, <1>10 DEF Next, Serve, Pump

\* Every reachable state is well typed; in particular no queue outgrows its bound.
THEOREM TypeCorrect == Spec => []TypeOK
BY InitType, NextType, PTL DEF Spec

-----------------------------------------------------------------------------
(* Who is registered, and where a message can be.                          *)

MemberOf(c) ==
  /\ serve[c] = "new" => since[c] = NotJoined /\ sent[c] = <<>>
  /\ serve[c] # "new" => since[c] \in 0..Len(log)
  /\ c \notin clients => queue[c] = <<>> /\ hand[c] = 0 /\ dropped[c] = 0
  /\ pump[c] \notin {"sending", "dead"} => hand[c] = 0

MemberInv == TypeOK /\ OnlyServedOrOrphaned /\ \A c \in Clients : MemberOf(c)

\* Nobody is registered at the start.
THEOREM InitMember == Init => MemberInv
BY InitType DEF Init, MemberInv, OnlyServedOrOrphaned, MemberOf

\* Registration follows the life of the connection: register before the greeting,
\* unregister in the finally of _serve.
THEOREM NextMember == MemberInv /\ [Next]_vars => MemberInv'
<1> SUFFICES ASSUME MemberInv, [Next]_vars PROVE MemberInv'
  OBVIOUS
<1>t. TypeOK /\ TypeOK'
  BY NextType DEF MemberInv
<1> SUFFICES OnlyServedOrOrphaned' /\ \A c \in Clients : MemberOf(c)'
  BY <1>t DEF MemberInv
<1> USE <1>t DEF MemberInv, OnlyServedOrOrphaned, MemberOf, conn, task
<1>0. CASE UNCHANGED vars
  BY <1>0 DEF vars
<1>1. ASSUME NEW e \in Payloads, Notify(e)
      PROVE  OnlyServedOrOrphaned' /\ \A c \in Clients : MemberOf(c)'
  BY <1>1 DEF Notify
<1>2. ASSUME Broadcast PROVE OnlyServedOrOrphaned' /\ \A c \in Clients : MemberOf(c)'
  <2>1. Len(log') = Len(log) + 1 /\ Len(log) \in Nat
    BY <1>2, HeadTailProperties DEF Broadcast, TypeOK
  <2>2. \A c \in Clients : c \notin clients => queue'[c] = queue[c] /\ dropped'[c] = dropped[c]
    BY <1>2 DEF Broadcast, TypeOK
  <2> QED BY <1>2, <2>1, <2>2 DEF Broadcast
<1>3. ASSUME NEW d \in Clients, NEW f \in Filters, Accept(d, f)
      PROVE  OnlyServedOrOrphaned' /\ \A c \in Clients : MemberOf(c)'
  <2>1. Len(log) \in Nat
    BY DEF TypeOK
  <2> QED BY <1>3, <2>1 DEF Accept, TypeOK
<1>4. ASSUME NEW d \in Clients, HelloSent(d) \/ HelloFails(d)
      PROVE  OnlyServedOrOrphaned' /\ \A c \in Clients : MemberOf(c)'
  <2>1. CASE HelloSent(d)
    <3>1. OnlyServedOrOrphaned'
      BY <2>1 DEF HelloSent, TypeOK
    <3>2. \A c \in Clients : MemberOf(c)'
      BY <2>1 DEF HelloSent, TypeOK
    <3> QED BY <3>1, <3>2
  <2>2. CASE HelloFails(d)
    BY <2>2 DEF HelloFails, TypeOK
  <2> QED BY <1>4, <2>1, <2>2
<1>5. ASSUME NEW d \in Clients, Disconnected(d)
      PROVE  OnlyServedOrOrphaned' /\ \A c \in Clients : MemberOf(c)'
  BY <1>5 DEF Disconnected, TypeOK
<1>6. ASSUME NEW d \in Clients, Take(d)
      PROVE  OnlyServedOrOrphaned' /\ \A c \in Clients : MemberOf(c)'
  BY <1>6 DEF Take, TypeOK
<1>7. ASSUME NEW d \in Clients, Timeout(d) \/ Beat(d) \/ SendFails(d)
      PROVE  OnlyServedOrOrphaned' /\ \A c \in Clients : MemberOf(c)'
  BY <1>7 DEF Timeout, Beat, SendFails, TypeOK
<1>8. ASSUME NEW d \in Clients, Send(d)
      PROVE  OnlyServedOrOrphaned' /\ \A c \in Clients : MemberOf(c)'
  BY <1>8 DEF Send, TypeOK
<1>9. ASSUME NEW d \in Clients, PeerGone(d)
      PROVE  OnlyServedOrOrphaned' /\ \A c \in Clients : MemberOf(c)'
  BY <1>9 DEF PeerGone, TypeOK
<1> QED
  BY <1>0, <1>1, <1>2, <1>3, <1>4, <1>5, <1>6, <1>7, <1>8, <1>9 DEF Next, Serve, Pump

\* The manager holds exactly the clients being served and those whose greeting
\* failed.
THEOREM Membership == Spec => []OnlyServedOrOrphaned
<1>1. MemberInv => OnlyServedOrOrphaned
  BY DEF MemberInv
<1> QED BY InitMember, NextMember, <1>1, PTL DEF Spec

-----------------------------------------------------------------------------
(* The order of messages.                                                  *)

\* What is sent comes before what is in hand, which comes before what is queued,
\* and all of it was due.
FlowOf(c) ==
  /\ Rising(queue[c])
  /\ Elements(queue[c]) \subseteq Due(c)
  /\ hand[c] # 0 => hand[c] \in Due(c) /\ \A y \in Elements(queue[c]) : hand[c] < y
  /\ pump[c] = "sending" => hand[c] # 0
  /\ \A x \in Elements(sent[c]) : /\ x \in Due(c)
                                  /\ hand[c] # 0 => x < hand[c]
                                  /\ \A y \in Elements(queue[c]) : x < y

FlowInv == MemberInv /\ \A c \in Clients : FlowOf(c)

\* Positions that were due stay due, and a broadcast adds at most its own.
LEMMA BroadcastDue ==
  ASSUME MemberInv, Broadcast, NEW c \in Clients, serve[c] # "new"
  PROVE  /\ Due(c)' = Due(c) \cup IF Wants(c, Head(pending)) THEN {Len(log) + 1} ELSE {}
         /\ \A i \in Due(c) : i \in Nat /\ 0 < i /\ i <= Len(log)
<1> USE DEF MemberInv, MemberOf, TypeOK, Broadcast, conn
<1>1. since[c] \in Nat /\ since[c] <= Len(log) /\ Len(log) \in Nat /\ since' = since
  OBVIOUS
<1>2. Head(pending) \in Payloads
  BY HeadTailProperties
<1>3. /\ Len(log') = Len(log) + 1
      /\ \A i \in 1..Len(log) : log'[i] = log[i]
      /\ log'[Len(log) + 1] = Head(pending)
  BY <1>2
<1>4. \A e : Wants(c, e)' <=> Wants(c, e)
  BY DEF Wants
<1>5. \A i \in Due(c) : i \in Nat /\ 0 < i /\ i <= Len(log)
  BY <1>1 DEF Due
<1>6. Due(c)' = {i \in (since[c] + 1)..(Len(log) + 1) : Wants(c, log'[i])}
  BY <1>1, <1>3 DEF Due, Wants
<1> HIDE DEF MemberInv, MemberOf, TypeOK, Broadcast, conn
<1>7. (since[c] + 1)..(Len(log) + 1) = (since[c] + 1)..Len(log) \cup {Len(log) + 1}
  BY <1>1
<1>8. \A i \in (since[c] + 1)..Len(log) : log'[i] = log[i]
  BY <1>1, <1>3
<1>9. Due(c) = {i \in (since[c] + 1)..Len(log) : Wants(c, log'[i])}
  BY <1>8 DEF Due
<1> QED BY <1>3, <1>5, <1>6, <1>7, <1>9

\* What the offer puts in a queue.
LEMMA OfferFlow ==
  ASSUME TypeOK, NEW c \in Clients, NEW i \in Nat, Rising(queue[c]),
         \A y \in Elements(queue[c]) : y < i
  PROVE  /\ Rising(Offer(c, i))
         /\ IF Full(c)
            THEN /\ queue[c] # <<>>
                 /\ Elements(Offer(c, i)) = (Elements(queue[c]) \ {Head(queue[c])}) \cup {i}
                 /\ Head(queue[c]) \in Elements(queue[c])
                 /\ \A y \in Elements(Offer(c, i)) : Head(queue[c]) < y
            ELSE Elements(Offer(c, i)) = Elements(queue[c]) \cup {i}
<1> USE DEF TypeOK
<1>1. CASE Full(c)
  <2>1. queue[c] # <<>>
    BY <1>1, QueueSizeAssumption DEF Full
  <2> DEFINE h == Head(queue[c])
             s == Tail(queue[c])
  <2>2. /\ h \in Nat /\ s \in Seq(Nat)
        /\ Elements(queue[c]) = Elements(s) \cup {h}
        /\ Rising(s)
        /\ \A y \in Elements(s) : h < y
    BY <2>1, TailElements
  <2>3. h \notin Elements(s)
    BY <2>2
  <2>4. Offer(c, i) = Append(s, i)
    BY <1>1 DEF Offer
  <2>5. Elements(Append(s, i)) = Elements(s) \cup {i} /\ Rising(Append(s, i))
    BY <2>2, AppendElements
  <2> QED BY <1>1, <2>1, <2>2, <2>3, <2>4, <2>5
<1>2. CASE ~Full(c)
  BY <1>2, AppendElements DEF Offer
<1> QED BY <1>1, <1>2

\* Nothing but a broadcast or its own registration changes what a client is due.
LEMMA SameDue ==
  ASSUME NEW c \in Clients, log' = log, since'[c] = since[c], filter'[c] = filter[c]
  PROVE  Due(c)' = Due(c)
BY DEF Due, Wants

\* A client without queue, hand and history is in order whatever it is due.
LEMMA EmptyFlow ==
  ASSUME NEW c \in Clients, queue[c] = <<>>, hand[c] = 0, sent[c] = <<>>, pump[c] # "sending"
  PROVE  FlowOf(c)
BY DEF FlowOf, Rising, Elements

\* Nothing is sent, in hand or queued at the start.
THEOREM InitFlow == Init => FlowInv
BY InitMember, EmptyFlow DEF Init, FlowInv

\* A broadcast (manager.py:55-69) appends a newer position to a queue, dropping the
\* head of a full one, so the client's flow stays rising.
LEMMA BroadcastFlow ==
  ASSUME FlowInv, Broadcast, NEW c \in Clients
  PROVE  FlowOf(c)'
<1> DEFINE n == Len(log) + 1
<1>t. TypeOK /\ n \in Nat
  BY DEF FlowInv, MemberInv, TypeOK
<1>1. /\ hand' = hand /\ sent' = sent /\ pump' = pump
      /\ queue' = [d \in Clients |-> IF d \in clients /\ Wants(d, Head(pending))
                                     THEN Offer(d, n) ELSE queue[d]]
  BY DEF Broadcast, task
<1>2. CASE serve[c] = "new"
  <2>1. c \notin clients /\ queue[c] = <<>> /\ hand[c] = 0 /\ sent[c] = <<>> /\ pump[c] # "sending"
    BY <1>2 DEF FlowInv, MemberInv, MemberOf, OnlyServedOrOrphaned
  <2>2. queue'[c] = <<>>
    BY <1>1, <2>1
  <2> QED BY <1>1, <2>1, <2>2 DEF FlowOf, Rising, Elements
<1>3. CASE serve[c] # "new"
  <2>1. /\ Due(c) \subseteq Due(c)'
        /\ Wants(c, Head(pending)) => n \in Due(c)'
        /\ \A i \in Due(c) : i \in Nat /\ i < n
    BY <1>3, <1>t, BroadcastDue DEF FlowInv
  <2>2. \A y \in Elements(queue[c]) : y < n
    BY <2>1 DEF FlowInv, FlowOf
  <2>3. CASE c \in clients /\ Wants(c, Head(pending))
    <3>1. queue'[c] = Offer(c, n)
      BY <1>1, <2>3
    <3>2. Rising(Offer(c, n)) /\ Elements(Offer(c, n)) \subseteq Elements(queue[c]) \cup {n}
      BY <1>t, <2>2, OfferFlow DEF FlowInv, FlowOf
    <3>3. Rising(queue[c])' /\ Elements(queue[c])' \subseteq Elements(queue[c]) \cup {n}
      BY <3>1, <3>2 DEF Rising, Elements
    <3>4. Elements(sent[c])' = Elements(sent[c]) /\ hand'[c] = hand[c] /\ pump'[c] = pump[c]
      BY <1>1 DEF Elements
    <3>5. FlowOf(c)
      BY DEF FlowInv
    <3>6. /\ hand[c] # 0 => hand[c] \in Due(c)' /\ \A y \in Elements(queue[c])' : hand[c] < y
          /\ \A x \in Elements(sent[c]) : \A y \in Elements(queue[c])' : x < y
          /\ Elements(queue[c])' \subseteq Due(c)'
      BY <2>1, <2>3, <3>3, <3>5 DEF FlowOf
    <3> QED BY <2>1, <3>3, <3>4, <3>5, <3>6 DEF FlowOf
  <2>4. CASE ~(c \in clients /\ Wants(c, Head(pending)))
    <3>1. queue'[c] = queue[c]
      BY <1>1, <2>4
    <3> QED BY <1>1, <2>1, <3>1 DEF FlowInv, FlowOf, Elements, Rising
  <2> QED BY <2>3, <2>4
<1> QED BY <1>2, <1>3

\* Every step keeps each client's flow: what is sent, then in hand, then queued.
THEOREM NextFlow == FlowInv /\ [Next]_vars => FlowInv'
<1> SUFFICES ASSUME FlowInv, [Next]_vars PROVE FlowInv'
  OBVIOUS
<1>t. MemberInv /\ MemberInv' /\ TypeOK
  BY NextMember DEF FlowInv, MemberInv
<1> SUFFICES ASSUME NEW c \in Clients PROVE FlowOf(c)'
  BY <1>t DEF FlowInv
<1>f. FlowOf(c)
  BY DEF FlowInv
<1>u. ASSUME UNCHANGED <<log, since, filter, queue, hand, sent>>, pump'[c] = "sending" => pump[c] = "sending"
      PROVE  FlowOf(c)'
  <2>1. Due(c)' = Due(c)
    BY <1>u, SameDue
  <2> QED BY <1>f, <1>u, <2>1 DEF FlowOf, Rising, Elements
<1>0. CASE UNCHANGED vars
  BY <1>0, <1>u DEF vars, conn, task
<1>1. ASSUME NEW e \in Payloads, Notify(e) PROVE FlowOf(c)'
  BY <1>1, <1>u DEF Notify, conn, task
<1>2. CASE Broadcast
  BY <1>2, BroadcastFlow
<1>3. ASSUME NEW d \in Clients, NEW f \in Filters, Accept(d, f) PROVE FlowOf(c)'
  <2>1. CASE c = d
    <3>1. queue[c] = <<>> /\ hand[c] = 0 /\ sent[c] = <<>> /\ pump[c] # "sending"
      BY <1>3, <2>1, <1>t DEF Accept, MemberInv, MemberOf, OnlyServedOrOrphaned
    <3>2. queue'[c] = <<>> /\ hand'[c] = 0 /\ sent'[c] = <<>> /\ pump'[c] # "sending"
      BY <1>3, <3>1 DEF Accept, task
    <3> QED BY <3>2 DEF FlowOf, Rising, Elements
  <2>2. CASE c # d
    <3>1. Due(c)' = Due(c)
      BY <1>3, <2>2, <1>t, SameDue DEF Accept, TypeOK
    <3> QED BY <1>3, <1>f, <3>1 DEF Accept, task, FlowOf, Rising, Elements
  <2> QED BY <2>1, <2>2
<1>4. ASSUME NEW d \in Clients, HelloSent(d) \/ HelloFails(d) PROVE FlowOf(c)'
  BY <1>4, <1>u, <1>t DEF HelloSent, HelloFails, task, TypeOK
<1>5. ASSUME NEW d \in Clients, Disconnected(d) PROVE FlowOf(c)'
  <2>1. Due(c)' = Due(c)
    BY <1>5, SameDue DEF Disconnected
  <2>2. CASE c = d
    <3>1. queue'[c] = <<>> /\ hand'[c] = 0 /\ pump'[c] = "off" /\ sent' = sent
      BY <1>5, <2>2, <1>t DEF Disconnected, TypeOK
    <3> QED BY <1>f, <2>1, <3>1 DEF FlowOf, Rising, Elements
  <2>3. CASE c # d
    <3>1. queue'[c] = queue[c] /\ hand'[c] = hand[c] /\ pump'[c] = pump[c] /\ sent' = sent
      BY <1>5, <2>3, <1>t DEF Disconnected, TypeOK
    <3> QED BY <1>f, <2>1, <3>1 DEF FlowOf, Rising, Elements
  <2> QED BY <2>2, <2>3
<1>6. ASSUME NEW d \in Clients, Take(d) PROVE FlowOf(c)'
  <2>1. Due(c)' = Due(c)
    BY <1>6, SameDue DEF Take, conn
  <2>2. CASE c = d
    <3>1. /\ queue[c] # <<>> /\ queue'[c] = Tail(queue[c]) /\ hand'[c] = Head(queue[c])
          /\ sent' = sent /\ hand[c] = 0
      BY <1>6, <2>2, <1>t DEF Take, TypeOK, MemberInv, MemberOf
    <3>2. /\ Elements(queue[c]) = Elements(Tail(queue[c])) \cup {Head(queue[c])}
          /\ Rising(Tail(queue[c]))
          /\ \A y \in Elements(Tail(queue[c])) : Head(queue[c]) < y
      BY <3>1, <1>t, <1>f, TailElements DEF TypeOK, FlowOf
    <3>3. Head(queue[c]) # 0
      <4>1. serve[c] # "new"
        BY <3>1, <1>t DEF MemberInv, MemberOf, OnlyServedOrOrphaned
      <4>2. since[c] \in Nat /\ Len(log) \in Nat
        BY <4>1, <1>t DEF MemberInv, MemberOf, TypeOK
      <4>3. \A i \in Due(c) : i # 0
        BY <4>2 DEF Due
      <4> QED BY <3>2, <4>3, <1>f DEF FlowOf
    <3>4. /\ Elements(queue[c])' = Elements(Tail(queue[c]))
          /\ Rising(queue[c])'
          /\ Elements(sent[c])' = Elements(sent[c])
      BY <3>1, <3>2 DEF Elements, Rising
    <3> QED BY <1>f, <2>1, <3>1, <3>2, <3>3, <3>4 DEF FlowOf
  <2>3. CASE c # d
    <3>1. queue'[c] = queue[c] /\ hand'[c] = hand[c] /\ pump'[c] = pump[c] /\ sent' = sent
      BY <1>6, <2>3, <1>t DEF Take, TypeOK
    <3> QED BY <1>f, <2>1, <3>1 DEF FlowOf, Rising, Elements
  <2> QED BY <2>2, <2>3
<1>7. ASSUME NEW d \in Clients, Timeout(d) \/ Beat(d) \/ SendFails(d) PROVE FlowOf(c)'
  BY <1>7, <1>u, <1>t DEF Timeout, Beat, SendFails, conn, TypeOK
<1>8. ASSUME NEW d \in Clients, Send(d) PROVE FlowOf(c)'
  <2>1. Due(c)' = Due(c)
    BY <1>8, SameDue DEF Send, conn
  <2>2. CASE c = d
    <3>1. /\ queue' = queue /\ hand'[c] = 0 /\ hand[c] # 0 /\ pump'[c] = "waiting"
          /\ sent'[c] = Append(sent[c], hand[c])
      BY <1>8, <2>2, <1>t, <1>f DEF Send, TypeOK, FlowOf
    <3>2. Elements(sent[c])' = Elements(sent[c]) \cup {hand[c]}
      <4>1. Elements(Append(sent[c], hand[c])) = Elements(sent[c]) \cup {hand[c]}
        BY <1>t, AppendElements DEF TypeOK
      <4> QED BY <3>1, <4>1 DEF Elements
    <3>3. Elements(queue[c])' = Elements(queue[c]) /\ Rising(queue[c])'
      BY <1>f, <3>1 DEF Elements, Rising, FlowOf
    <3> QED BY <1>f, <2>1, <3>1, <3>2, <3>3 DEF FlowOf
  <2>3. CASE c # d
    <3>1. queue'[c] = queue[c] /\ hand'[c] = hand[c] /\ pump'[c] = pump[c] /\ sent'[c] = sent[c]
      BY <1>8, <2>3, <1>t DEF Send, TypeOK
    <3> QED BY <1>f, <2>1, <3>1 DEF FlowOf, Rising, Elements
  <2> QED BY <2>2, <2>3
<1>9. ASSUME NEW d \in Clients, PeerGone(d) PROVE FlowOf(c)'
  BY <1>9, <1>u DEF PeerGone, task
<1> QED
  BY <1>0, <1>1, <1>2, <1>3, <1>4, <1>5, <1>6, <1>7, <1>8, <1>9 DEF Next, Serve, Pump

\* The flow invariant holds always.
THEOREM FlowInvariant == Spec => []FlowInv
BY InitFlow, NextFlow, PTL DEF Spec

-----------------------------------------------------------------------------
(* The gateway implements Feed.                                            *)

\* The filter test of broadcast is the one of the abstract feed.
LEMMA SameWants ==
  ASSUME NEW f \in Filters, NEW e \in Payloads
  PROVE  Subscriptions!Wants(f, e) <=> f = Firehose \/ (e \in Orders /\ e = f)
BY DEF Subscriptions!Wants, Filters

\* A gateway without clients is a feed without subscribers.
THEOREM RefinesInit == Init => Subscriptions!Init
BY DEF Init, Subscriptions!Init, NotJoined, Subscriptions!NotJoined

\* Every step of the gateway is a step of the abstract feed or a stutter: writing a
\* frame to the socket is the delivery, all the rest is invisible.
THEOREM RefinesNext == FlowInv /\ [Next]_vars => [Subscriptions!Next]_(Subscriptions!vars)
<1> SUFFICES ASSUME FlowInv, [Next]_vars PROVE [Subscriptions!Next]_(Subscriptions!vars)
  OBVIOUS
<1>t. TypeOK /\ MemberInv
  BY DEF FlowInv, MemberInv
<1>0. CASE UNCHANGED vars
  BY <1>0 DEF vars, conn, task, Subscriptions!vars
<1>1. ASSUME NEW e \in Payloads, Notify(e) PROVE UNCHANGED Subscriptions!vars
  BY <1>1 DEF Notify, conn, task, Subscriptions!vars
<1>2. CASE Broadcast
  <2>1. Head(pending) \in Subscriptions!Payloads
    BY <1>2, <1>t, HeadTailProperties DEF Broadcast, TypeOK, Payloads, Subscriptions!Payloads
  <2>2. Subscriptions!Publish(Head(pending))
    BY <1>2 DEF Broadcast, conn, task, Subscriptions!Publish
  <2> QED BY <2>1, <2>2 DEF Subscriptions!Next
<1>3. ASSUME NEW c \in Clients, NEW f \in Filters, Accept(c, f) PROVE Subscriptions!Next
  <2>1. Subscriptions!Join(c, f)
    BY <1>3, <1>t
    DEF Accept, task, Subscriptions!Join, MemberInv, MemberOf, NotJoined, Subscriptions!NotJoined
  <2> QED BY <2>1 DEF Subscriptions!Next, Filters, Subscriptions!Filters
<1>4. ASSUME NEW c \in Clients, HelloSent(c) \/ HelloFails(c) \/ Disconnected(c) \/ PeerGone(c)
      PROVE  UNCHANGED Subscriptions!vars
  BY <1>4 DEF HelloSent, HelloFails, Disconnected, PeerGone, task, Subscriptions!vars
<1>5. ASSUME NEW c \in Clients, Take(c) \/ Timeout(c) \/ Beat(c) \/ SendFails(c)
      PROVE  UNCHANGED Subscriptions!vars
  BY <1>5 DEF Take, Timeout, Beat, SendFails, conn, Subscriptions!vars
<1>6. ASSUME NEW c \in Clients, Send(c) PROVE Subscriptions!Next
  <2>1. /\ hand[c] # 0 /\ hand[c] \in Due(c)
        /\ \A x \in Elements(sent[c]) : x < hand[c]
    BY <1>6 DEF FlowInv, FlowOf, Send
  <2>2. since[c] \in 0..Len(log)
    BY <1>6, <1>t DEF Send, MemberInv, MemberOf, OnlyServedOrOrphaned
  <2>3. hand[c] \in (since[c] + 1)..Len(log) /\ hand[c] \in 1..Len(log)
    BY <2>1, <2>2, <1>t DEF Due, TypeOK
  <2>4. Subscriptions!Due(c, hand[c])
    BY <2>1, <2>3, <1>t, SameWants, ElementOfSeq DEF Due, Wants, Subscriptions!Due, TypeOK
  <2>5. \A j \in 1..Len(sent[c]) : sent[c][j] < hand[c]
    BY <2>1 DEF Elements
  <2>6. Subscriptions!See(c, hand[c])
    BY <1>6, <2>2, <2>4, <2>5 DEF Send, conn, Subscriptions!See, Subscriptions!NotJoined
  <2> QED BY <2>3, <2>6 DEF Subscriptions!Next
<1> QED
  BY <1>0, <1>1, <1>2, <1>3, <1>4, <1>5, <1>6 DEF Next, Serve, Pump

\* Each client is sent events it wants, at most once and in broadcast order.
THEOREM Refinement == Spec => ImplementsFeed
BY InitFlow, NextFlow, RefinesInit, RefinesNext, PTL DEF Spec, ImplementsFeed, Subscriptions!Spec

-----------------------------------------------------------------------------
(* What is lost.                                                           *)

\* A rising sequence has as many elements as positions.
LEMMA RisingCardinality ==
  ASSUME NEW s \in Seq(Nat), Rising(s)
  PROVE  IsFiniteSet(Elements(s)) /\ Cardinality(Elements(s)) = Len(s)
<1>1. /\ Len(s) \in Nat
      /\ s \in [1..Len(s) -> Elements(s)]
      /\ \A i, j \in 1..Len(s) : s[i] = s[j] => i = j
      /\ \A x \in Elements(s) : \E i \in 1..Len(s) : s[i] = x
  BY LenProperties DEF Rising, Elements
<1>2. s \in Bijection(1..Len(s), Elements(s))
  BY <1>1, Fun_IsBij
<1>3. IsFiniteSet(1..Len(s)) /\ Cardinality(1..Len(s)) = Len(s)
  <2>1. 1 \in Int /\ Len(s) \in Int
    BY <1>1
  <2>2. /\ IsFiniteSet(1..Len(s))
        /\ Cardinality(1..Len(s)) = IF 1 > Len(s) THEN 0 ELSE Len(s) - 1 + 1
    BY <2>1, FS_Interval
  <2> QED BY <1>1, <2>2
<1> QED BY <1>2, <1>3, FS_Bijection DEF ExistsBijection

\* What a client is due is finite.
LEMMA DueFinite ==
  ASSUME TypeOK, NEW c \in Clients
  PROVE  IsFiniteSet(Due(c)) /\ \A i : IsFiniteSet({j \in Due(c) : j > i})
<1>1. IsFiniteSet((since[c] + 1)..Len(log))
  <2>1. since[c] + 1 \in Int /\ Len(log) \in Int
    <3>1. since[c] \in Nat \cup {-1} /\ Len(log) \in Nat
      BY DEF TypeOK, NotJoined
    <3> QED BY <3>1
  <2> QED BY <2>1, FS_Interval
<1>2. Due(c) \in SUBSET ((since[c] + 1)..Len(log))
  BY DEF Due
<1>3. IsFiniteSet(Due(c))
  BY <1>1, <1>2, FS_Subset
<1>4. \A i : {j \in Due(c) : j > i} \in SUBSET Due(c)
  OBVIOUS
<1> QED BY <1>3, <1>4, FS_Subset

\* A step loses nothing of a registered client, or sheds the head of its full
\* queue, counts it, and leaves a queue of newer events.
LostStep(c) ==
  \/ c \notin clients /\ Lost(c)' = {} /\ dropped'[c] = 0
  \/ /\ c \in clients
     /\ Due(c) \subseteq Due(c)'
     /\ Lost(c)' = Lost(c)
     /\ dropped'[c] = dropped[c]
  \/ /\ c \in clients
     /\ Due(c) \subseteq Due(c)'
     /\ QueueSize > 0
     /\ dropped'[c] = dropped[c] + 1
     /\ \E h \in Due(c) : /\ h \notin Lost(c)
                          /\ Lost(c)' = Lost(c) \cup {h}
                          /\ Cardinality({j \in Due(c)' : j > h}) >= QueueSize

\* Where a message is kept does not matter to Lost.
LEMMA SameKept ==
  ASSUME NEW c \in Clients, c \in clients, Due(c)' = Due(c), Kept(c)' = Kept(c),
         dropped'[c] = dropped[c]
  PROVE  LostStep(c)
BY DEF Lost, LostStep

\* A broadcast loses at most the head of a full queue: the one message shed.
LEMMA BroadcastLost ==
  ASSUME FlowInv, Broadcast, NEW c \in Clients, c \in clients
  PROVE  LostStep(c)
<1> DEFINE n == Len(log) + 1
<1>t. /\ TypeOK /\ MemberInv /\ n \in Nat
      /\ serve[c] # "new"
      /\ Rising(queue[c])
  BY DEF FlowInv, FlowOf, MemberInv, OnlyServedOrOrphaned, TypeOK
<1>1. /\ Due(c)' = Due(c) \cup IF Wants(c, Head(pending)) THEN {n} ELSE {}
      /\ \A i \in Due(c) : i \in Nat /\ 0 < i /\ i < n
  BY <1>t, BroadcastDue
<1>2. /\ Elements(queue[c]) \subseteq Due(c)
      /\ \A x \in Elements(sent[c]) \cup ({hand[c]} \ {0}) :
           x \in Due(c) /\ \A y \in Elements(queue[c]) : x < y
  BY DEF FlowInv, FlowOf
<1>3. /\ hand' = hand /\ sent' = sent
      /\ queue'[c] = IF Wants(c, Head(pending)) THEN Offer(c, n) ELSE queue[c]
      /\ dropped'[c] = IF Wants(c, Head(pending)) /\ Full(c) THEN dropped[c] + 1 ELSE dropped[c]
  BY DEF Broadcast, task
<1>4. Kept(c)' = Elements(sent[c]) \cup Elements(queue'[c]) \cup ({hand[c]} \ {0})
  BY <1>3 DEF Kept, Elements
<1>5. CASE ~Wants(c, Head(pending))
  <2>1. Due(c)' = Due(c) /\ Kept(c)' = Kept(c) /\ dropped'[c] = dropped[c]
    BY <1>1, <1>3, <1>4, <1>5 DEF Kept
  <2> QED BY <2>1, SameKept
<1>6. CASE Wants(c, Head(pending)) /\ ~Full(c)
  <2>1. Elements(Offer(c, n)) = Elements(queue[c]) \cup {n}
    BY <1>t, <1>1, <1>2, <1>6, OfferFlow
  <2>2. Due(c)' = Due(c) \cup {n} /\ Kept(c)' = Kept(c) \cup {n} /\ n \notin Due(c)
    BY <1>1, <1>3, <1>4, <1>6, <2>1 DEF Kept
  <2>3. Lost(c)' = Lost(c)
    BY <2>2 DEF Lost
  <2> QED BY <1>3, <1>6, <2>2, <2>3 DEF LostStep
<1>7. CASE Wants(c, Head(pending)) /\ Full(c)
  <2> DEFINE h == Head(queue[c])
             q == Offer(c, n)
             newer == {j \in Due(c)' : j > h}
  <2>1. /\ queue[c] # <<>>
        /\ h \in Elements(queue[c])
        /\ Rising(q)
        /\ Elements(q) = (Elements(queue[c]) \ {h}) \cup {n}
        /\ \A y \in Elements(q) : h < y
    BY <1>t, <1>1, <1>2, <1>7, OfferFlow
  <2>2. h \in Due(c) /\ h \in Kept(c) /\ h < n /\ h \in Nat /\ n \notin Due(c)
    BY <1>1, <1>2, <2>1 DEF Kept
  <2>3. Due(c)' = Due(c) \cup {n}
    BY <1>1, <1>7
  <2>4. h \notin Elements(sent[c]) /\ h \notin {hand[c]} \ {0}
    BY <1>2, <2>1, <2>2
  <2>5. Kept(c)' = (Kept(c) \ {h}) \cup {n}
    BY <1>3, <1>4, <1>7, <2>1, <2>2, <2>4 DEF Kept
  <2>6. Lost(c)' = Lost(c) \cup {h} /\ h \notin Lost(c)
    BY <2>2, <2>3, <2>5 DEF Lost
  <2>7. QueueSize > 0 /\ Len(q) = QueueSize /\ q \in Seq(Nat)
    <3>1. /\ Tail(queue[c]) \in Seq(Nat)
          /\ Len(Tail(queue[c])) = Len(queue[c]) - 1
      BY <1>t, <2>1, TailElements DEF TypeOK
    <3>2. Len(queue[c]) = QueueSize /\ QueueSize > 0
      BY <1>t, <1>7, QueueSizeAssumption DEF Full, TypeOK
    <3>3. q = Append(Tail(queue[c]), n)
      BY <1>7 DEF Offer
    <3>4. /\ Append(Tail(queue[c]), n) \in Seq(Nat)
          /\ Len(Append(Tail(queue[c]), n)) = Len(Tail(queue[c])) + 1
      BY <1>t, <3>1, AppendElements
    <3> HIDE DEF n
    <3> QED BY <3>1, <3>2, <3>3, <3>4, QueueSizeAssumption
  <2>8. IsFiniteSet(newer)
    <3>1. IsFiniteSet(Due(c))
      BY <1>t, DueFinite
    <3>2. IsFiniteSet(Due(c)')
      BY <3>1, <2>3, FS_AddElement
    <3>3. newer \in SUBSET Due(c)'
      OBVIOUS
    <3> QED BY <3>2, <3>3, FS_Subset
  <2>9. Elements(q) \in SUBSET newer
    BY <1>2, <2>1, <2>3
  <2>10. Cardinality(Elements(q)) = QueueSize /\ Cardinality(Elements(q)) <= Cardinality(newer)
    BY <2>1, <2>7, <2>8, <2>9, RisingCardinality, FS_Subset
  <2>11. Cardinality(newer) >= QueueSize
    BY <2>8, <2>10, FS_CardinalityType, QueueSizeAssumption
  <2> QED BY <1>3, <1>7, <2>2, <2>3, <2>6, <2>7, <2>11 DEF LostStep
<1> QED BY <1>5, <1>6, <1>7

\* Every step changes what a client has lost as LostStep says.
LEMMA EveryLostStep ==
  ASSUME FlowInv, [Next]_vars, NEW c \in Clients, c \in clients'
  PROVE  LostStep(c)
<1>t. TypeOK /\ MemberInv
  BY DEF FlowInv, MemberInv
<1>u. ASSUME c \in clients, UNCHANGED <<log, since, filter, queue, hand, sent, dropped>>
      PROVE  LostStep(c)
  <2>1. Due(c)' = Due(c)
    BY <1>u, SameDue
  <2>2. Kept(c)' = Kept(c)
    BY <1>u DEF Kept, Elements
  <2> QED BY <1>u, <2>1, <2>2, SameKept
<1>0. CASE UNCHANGED vars
  BY <1>0, <1>u DEF vars, conn, task
<1>1. ASSUME NEW e \in Payloads, Notify(e) PROVE LostStep(c)
  BY <1>1, <1>u DEF Notify, conn, task
<1>2. CASE Broadcast
  BY <1>2, BroadcastLost DEF Broadcast
<1>3. ASSUME NEW d \in Clients, NEW f \in Filters, Accept(d, f) PROVE LostStep(c)
  <2>1. CASE c = d
    <3>1. c \notin clients /\ dropped'[c] = 0
      BY <1>3, <2>1, <1>t DEF Accept, MemberInv, MemberOf, OnlyServedOrOrphaned
    <3>2. since'[c] = Len(log) /\ log' = log /\ Len(log) \in Nat
      BY <1>3, <2>1, <1>t DEF Accept, TypeOK
    <3>3. Due(c)' = {}
      BY <3>2 DEF Due
    <3> QED BY <3>1, <3>3 DEF LostStep, Lost
  <2>2. CASE c # d
    <3>1. Due(c)' = Due(c)
      BY <1>3, <2>2, <1>t, SameDue DEF Accept, TypeOK
    <3>2. c \in clients /\ Kept(c)' = Kept(c) /\ dropped' = dropped
      BY <1>3, <2>2 DEF Accept, task, Kept, Elements
    <3> QED BY <3>1, <3>2, SameKept
  <2> QED BY <2>1, <2>2
<1>4. ASSUME NEW d \in Clients, HelloSent(d) \/ HelloFails(d) \/ PeerGone(d) PROVE LostStep(c)
  BY <1>4, <1>u DEF HelloSent, HelloFails, PeerGone, task
<1>5. ASSUME NEW d \in Clients, Disconnected(d) PROVE LostStep(c)
  <2>1. Due(c)' = Due(c)
    BY <1>5, SameDue DEF Disconnected
  <2>2. /\ c \in clients /\ c # d
        /\ queue'[c] = queue[c] /\ hand'[c] = hand[c] /\ sent' = sent /\ dropped'[c] = dropped[c]
    BY <1>5, <1>t DEF Disconnected, TypeOK
  <2>3. Kept(c)' = Kept(c)
    BY <2>2 DEF Kept, Elements
  <2> QED BY <2>1, <2>2, <2>3, SameKept
<1>6. ASSUME NEW d \in Clients, Take(d) PROVE LostStep(c)
  <2>1. Due(c)' = Due(c) /\ c \in clients /\ dropped' = dropped /\ sent' = sent
    BY <1>6, SameDue DEF Take, conn
  <2>2. CASE c = d
    <3>1. /\ queue[c] # <<>> /\ queue'[c] = Tail(queue[c]) /\ hand'[c] = Head(queue[c])
          /\ hand[c] = 0
      BY <1>6, <2>2, <1>t DEF Take, TypeOK, MemberInv, MemberOf
    <3>2. Elements(queue[c]) = Elements(Tail(queue[c])) \cup {Head(queue[c])}
      BY <3>1, <1>t, TailElements DEF TypeOK
    <3>3. FlowOf(c) /\ FlowOf(c)'
      BY NextFlow DEF FlowInv
    <3>4. hand'[c] # 0
      BY <1>6, <2>2, <1>t, <3>3 DEF Take, FlowOf, TypeOK
    <3>5. Kept(c)' = Elements(sent[c]) \cup Elements(Tail(queue[c])) \cup {Head(queue[c])}
      BY <2>1, <3>1, <3>4 DEF Kept, Elements
    <3>6. Kept(c)' = Kept(c)
      BY <3>1, <3>2, <3>5 DEF Kept
    <3> QED BY <2>1, <3>6, SameKept
  <2>3. CASE c # d
    <3>1. queue'[c] = queue[c] /\ hand'[c] = hand[c]
      BY <1>6, <2>3, <1>t DEF Take, TypeOK
    <3>2. Kept(c)' = Kept(c)
      BY <2>1, <3>1 DEF Kept, Elements
    <3> QED BY <2>1, <3>2, SameKept
  <2> QED BY <2>2, <2>3
<1>7. ASSUME NEW d \in Clients, Timeout(d) \/ Beat(d) \/ SendFails(d) PROVE LostStep(c)
  BY <1>7, <1>u DEF Timeout, Beat, SendFails, conn
<1>8. ASSUME NEW d \in Clients, Send(d) PROVE LostStep(c)
  <2>1. Due(c)' = Due(c) /\ c \in clients /\ dropped' = dropped /\ queue' = queue
    BY <1>8, SameDue DEF Send, conn
  <2>2. CASE c = d
    <3>1. hand'[c] = 0 /\ hand[c] # 0 /\ sent'[c] = Append(sent[c], hand[c])
      BY <1>8, <2>2, <1>t DEF Send, TypeOK, FlowInv, FlowOf
    <3>2. Elements(Append(sent[c], hand[c])) = Elements(sent[c]) \cup {hand[c]}
      BY <1>t, AppendElements DEF TypeOK
    <3>3. Kept(c)' = Elements(Append(sent[c], hand[c])) \cup Elements(queue[c])
      BY <2>1, <3>1 DEF Kept, Elements
    <3>4. Kept(c)' = Kept(c)
      BY <3>1, <3>2, <3>3 DEF Kept
    <3> QED BY <2>1, <3>4, SameKept
  <2>3. CASE c # d
    <3>1. hand'[c] = hand[c] /\ sent'[c] = sent[c]
      BY <1>8, <2>3, <1>t DEF Send, TypeOK
    <3>2. Kept(c)' = Kept(c)
      BY <2>1, <3>1 DEF Kept, Elements
    <3> QED BY <2>1, <3>2, SameKept
  <2> QED BY <2>2, <2>3
<1> QED
  BY <1>0, <1>1, <1>2, <1>3, <1>4, <1>5, <1>6, <1>7, <1>8 DEF Next, Serve, Pump

\* A registered client loses an event only to QueueSize newer ones it wants.
THEOREM SheddingIsOldest == Spec => []OnlyOldLost
<1>1. Init => OnlyOldLost
  BY DEF Init, OnlyOldLost
<1>2. FlowInv /\ FlowInv' /\ OnlyOldLost /\ [Next]_vars => OnlyOldLost'
  <2> SUFFICES ASSUME FlowInv, FlowInv', OnlyOldLost, [Next]_vars,
                      NEW c \in clients', NEW i \in Lost(c)'
               PROVE  QueueSize > 0 /\ Cardinality({j \in Due(c)' : j > i}) >= QueueSize
    BY DEF OnlyOldLost
  <2>1. c \in Clients /\ TypeOK /\ TypeOK'
    BY DEF FlowInv, MemberInv, TypeOK
  <2>2. LostStep(c)
    BY <2>1, EveryLostStep
  <2>3. CASE i \in Lost(c) /\ c \in clients /\ Due(c) \subseteq Due(c)'
    <3> DEFINE newer == {j \in Due(c) : j > i}
               newerThen == {j \in Due(c)' : j > i}
    <3>1. QueueSize > 0 /\ Cardinality(newer) >= QueueSize
      BY <2>3 DEF OnlyOldLost
    <3>2. newer \in SUBSET newerThen
      BY <2>3
    <3>3. IsFiniteSet(newer) /\ IsFiniteSet(newerThen)
      <4>1. IsFiniteSet(newer)
        BY <2>1, DueFinite
      <4>2. IsFiniteSet(Due(c)')
        <5>1. since'[c] \in Nat \cup {-1} /\ Len(log') \in Nat
          BY <2>1 DEF TypeOK, NotJoined
        <5>2. IsFiniteSet((since'[c] + 1)..Len(log'))
          <6>1. since'[c] + 1 \in Int /\ Len(log') \in Int
            BY <5>1
          <6> QED BY <6>1, FS_Interval
        <5>3. Due(c)' \in SUBSET ((since'[c] + 1)..Len(log'))
          BY DEF Due
        <5> QED BY <5>2, <5>3, FS_Subset
      <4>3. newerThen \in SUBSET Due(c)'
        OBVIOUS
      <4> QED BY <4>1, <4>2, <4>3, FS_Subset
    <3>4. Cardinality(newer) <= Cardinality(newerThen)
      BY <3>2, <3>3, FS_Subset
    <3>5. Cardinality(newer) \in Nat /\ Cardinality(newerThen) \in Nat
      BY <3>3, FS_CardinalityType
    <3> HIDE DEF newer, newerThen
    <3>6. Cardinality(newerThen) >= QueueSize
      BY <3>1, <3>4, <3>5, QueueSizeAssumption
    <3> QED BY <3>1, <3>6 DEF newerThen
  <2>4. CASE ~(i \in Lost(c) /\ c \in clients /\ Due(c) \subseteq Due(c)')
    BY <2>2, <2>4 DEF LostStep
  <2> QED BY <2>3, <2>4
<1> QED BY <1>1, <1>2, InitFlow, NextFlow, PTL DEF Spec

\* The drop counter of a registered client is the number of events it lost.
THEOREM CounterIsExact == Spec => []DropsAccounted
<1>1. Init => DropsAccounted
  BY DEF Init, DropsAccounted
<1>2. FlowInv /\ DropsAccounted /\ [Next]_vars => DropsAccounted'
  <2> SUFFICES ASSUME FlowInv, DropsAccounted, [Next]_vars, NEW c \in clients'
               PROVE  Cardinality(Lost(c)') = dropped'[c]
    BY DEF DropsAccounted
  <2>1. c \in Clients
    BY NextFlow DEF FlowInv, MemberInv, TypeOK
  <2>2. LostStep(c)
    BY <2>1, EveryLostStep
  <2>3. IsFiniteSet(Lost(c))
    <3>1. IsFiniteSet(Due(c))
      BY <2>1, DueFinite DEF FlowInv, MemberInv
    <3>2. Lost(c) \in SUBSET Due(c)
      BY DEF Lost
    <3> QED BY <3>1, <3>2, FS_Subset
  <2>4. CASE c \notin clients
    BY <2>2, <2>4, FS_EmptySet DEF LostStep
  <2>5. CASE c \in clients /\ Lost(c)' = Lost(c) /\ dropped'[c] = dropped[c]
    BY <2>5 DEF DropsAccounted
  <2>6. ASSUME c \in clients, dropped'[c] = dropped[c] + 1,
               NEW h, h \notin Lost(c), Lost(c)' = Lost(c) \cup {h}
        PROVE  Cardinality(Lost(c)') = dropped'[c]
    BY <2>3, <2>6, FS_AddElement DEF DropsAccounted
  <2> QED BY <2>2, <2>4, <2>5, <2>6 DEF LostStep
<1> QED BY <1>1, <1>2, InitFlow, NextFlow, PTL DEF Spec
=============================================================================
