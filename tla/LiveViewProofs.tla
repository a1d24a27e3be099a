--------------------------- MODULE LiveViewProofs ---------------------------
(***************************************************************************)
(* Theorems about LiveView and its EventSource, for any number of orders,  *)
(* stock keys, notifications and failures.                                 *)
(***************************************************************************)
EXTENDS LiveView, SumTheorems, SequenceTheorems, TLAPS

-----------------------------------------------------------------------------
(* Sequences of positions, as sets and as rising sequences.                *)

Rising(s) == \A i, j \in 1..Len(s) : i < j => s[i] < s[j]

\* Taking the first element leaves the larger ones.
LEMMA TailRises ==
  ASSUME NEW n \in Nat, NEW s \in Seq(1..n), s # <<>>, Rising(s)
  PROVE  /\ Tail(s) \in Seq(1..n) /\ Head(s) \in 1..n /\ Rising(Tail(s))
         /\ Len(Tail(s)) = Len(s) - 1
         /\ Elements(s) = {Head(s)} \cup Elements(Tail(s))
         /\ \A x \in Elements(Tail(s)) : Head(s) < x
<1>1. /\ Len(s) \in Nat /\ Len(s) > 0 /\ Tail(s) \in Seq(1..n) /\ Len(Tail(s)) = Len(s) - 1
      /\ \A i \in 1..Len(Tail(s)) : Tail(s)[i] = s[i + 1]
      /\ Head(s) = s[1] /\ s[1] \in 1..n
  BY HeadTailProperties, EmptySeq, LenProperties, ElementOfSeq
<1>2. Rising(Tail(s))
  BY <1>1 DEF Rising
<1>3. \A i \in 1..Len(Tail(s)) : s[1] < Tail(s)[i]
  BY <1>1 DEF Rising
<1>4. \A i \in 2..Len(s) : i - 1 \in 1..Len(Tail(s)) /\ s[i] = Tail(s)[i - 1]
  BY <1>1
<1>5. Elements(s) \subseteq {Head(s)} \cup Elements(Tail(s))
  <2> SUFFICES ASSUME NEW i \in 1..Len(s), s[i] # s[1] PROVE s[i] \in Elements(Tail(s))
    BY <1>1 DEF Elements
  <2>1. i \in 2..Len(s)
    BY <1>1
  <2> QED BY <1>4, <2>1 DEF Elements
<1>6. {Head(s)} \cup Elements(Tail(s)) \subseteq Elements(s)
  <2>1. 1 \in 1..Len(s) /\ \A i \in 1..Len(Tail(s)) : i + 1 \in 1..Len(s)
    BY <1>1
  <2> QED BY <1>1, <2>1 DEF Elements
<1> QED BY <1>1, <1>2, <1>3, <1>5, <1>6 DEF Elements

\* A larger element at the end.
LEMMA AppendRises ==
  ASSUME NEW n \in Nat, NEW s \in Seq(1..n), NEW e \in 1..n
  PROVE  /\ Append(s, e) \in Seq(1..n) /\ Len(Append(s, e)) = Len(s) + 1
         /\ Elements(Append(s, e)) = Elements(s) \cup {e}
         /\ Rising(s) /\ (\A x \in Elements(s) : x < e) => Rising(Append(s, e))
<1>1. /\ Append(s, e) \in Seq(1..n) /\ Len(Append(s, e)) = Len(s) + 1 /\ Len(s) \in Nat
      /\ Append(s, e)[Len(s) + 1] = e
      /\ \A i \in 1..Len(s) : Append(s, e)[i] = s[i] /\ s[i] \in 1..n
  BY AppendProperties, LenProperties, ElementOfSeq
<1>2. \A i \in 1..(Len(s) + 1) : i \in 1..Len(s) \/ i = Len(s) + 1
  BY <1>1
<1>3. Elements(Append(s, e)) = Elements(s) \cup {e}
  <2>1. Elements(Append(s, e)) \subseteq Elements(s) \cup {e}
    BY <1>1, <1>2 DEF Elements
  <2>2. \A i \in 1..Len(s) : i \in 1..Len(Append(s, e))
    BY <1>1
  <2>3. Len(s) + 1 \in 1..Len(Append(s, e))
    BY <1>1
  <2> QED BY <1>1, <2>1, <2>2, <2>3 DEF Elements
<1>4. ASSUME Rising(s), \A x \in Elements(s) : x < e PROVE Rising(Append(s, e))
  BY <1>1, <1>2, <1>4 DEF Rising, Elements
<1> QED BY <1>1, <1>3, <1>4

\* A prefix.
LEMMA PrefixRises ==
  ASSUME NEW S, NEW s \in Seq(S), NEW m \in 0..Len(s)
  PROVE  /\ SubSeq(s, 1, m) \in Seq(S)
         /\ Elements(SubSeq(s, 1, m)) \subseteq Elements(s)
         /\ Rising(s) => Rising(SubSeq(s, 1, m))
<1>1. /\ SubSeq(s, 1, m) \in Seq(S) /\ Len(SubSeq(s, 1, m)) = m /\ Len(s) \in Nat
      /\ \A i \in 1..m : SubSeq(s, 1, m)[i] = s[i] /\ i \in 1..Len(s)
  BY SubSeqProperties, LenProperties, ElementOfSeq
<1> QED BY <1>1 DEF Elements, Rising

\* The empty sequence.
LEMMA NothingRises == Elements(<<>>) = {} /\ Rising(<<>>)
BY DEF Elements, Rising

\* The elements of a sequence over a set are in the set; a wider set will do.
LEMMA ElementsWithin ==
  ASSUME NEW m \in Nat, NEW n \in Nat, m <= n, NEW s \in Seq(1..m)
  PROVE  s \in Seq(1..n) /\ Elements(s) \subseteq 1..m /\ Len(s) \in Nat
<1>1. \A i \in 1..Len(s) : s[i] \in 1..m
  BY ElementOfSeq
<1>2. s \in Seq(1..n)
  BY <1>1, LenProperties, SeqDef
<1> QED BY <1>1, <1>2, LenProperties DEF Elements

\* No elements, no sequence.
LEMMA NoElements ==
  ASSUME NEW S, NEW s \in Seq(S), Elements(s) = {}
  PROVE  s = <<>>
<1>1. Len(s) \in Nat /\ (Len(s) = 0 => s = <<>>)
  BY EmptySeq, LenProperties
<1>2. Len(s) # 0 => s[1] \in Elements(s)
  BY <1>1 DEF Elements
<1> QED BY <1>1, <1>2

\* The first element is one.
LEMMA HeadIsElement ==
  ASSUME NEW S, NEW s \in Seq(S), s # <<>>
  PROVE  Head(s) \in Elements(s)
<1>1. Len(s) \in Nat /\ Len(s) > 0 /\ Head(s) = s[1]
  BY HeadTailProperties, EmptySeq, LenProperties
<1> QED BY <1>1 DEF Elements

-----------------------------------------------------------------------------
(* The listener.                                                           *)

\* It reports itself connected only once it listens on both channels; a listener
\* that is connecting, backing off or gone reports that it is not.
Reported ==
  /\ connected => task \in {"up", "stopping"}
  /\ connected /\ link = "alive" => listening = Len(Channels)
  /\ task = "listening" /\ link = "alive" => listening < Len(Channels)

SourceInv == SourceTypeOK /\ Len(committed) <= MaxNotes /\ Reported

SourceStep == \/ \E o \in Orders, ks \in SUBSET Keys : Commit(o, ks)
              \/ Upkeep \/ Stop \/ Stopped \/ Crash \/ Start \/ Handle

\* The listener subscribes to two channels, the order events first (events.py:15).
LEMMA TwoChannels ==
  /\ Len(Channels) = 2 /\ Channels[1] = "order_events" /\ Channels[2] = "stock_events"
BY DEF Channels

\* What is committed stays, and what arrives is a part of what was arriving, in its
\* order, and after it what is new.
Grows ==
  /\ Len(committed) <= Len(committed')
  /\ \A i \in 1..Len(committed) : committed'[i] = committed[i]
  /\ Rising(arriving) => Rising(arriving')
  /\ Elements(arriving') \subseteq Elements(arriving) \cup (Len(committed) + 1)..Len(committed')

\* A step that commits nothing and only consumes or drops what was arriving is one
\* in which the source grows.
LEMMA NothingCommitted ==
  ASSUME SourceInv, committed' = committed, arriving' \in Seq(1..Len(committed)),
         Rising(arriving) => Rising(arriving'), Elements(arriving') \subseteq Elements(arriving)
  PROVE  Grows
<1>1. Len(committed) \in Nat
  BY LenProperties DEF SourceInv, SourceTypeOK
<1> QED BY <1>1 DEF Grows

\* One payload is received or not.
LEMMA ReceivedRises ==
  ASSUME NEW n \in Nat, NEW a \in Seq(1..n), Elements(a) \subseteq 1..n, NEW note
  PROVE  /\ a \o Received(n + 1, note) \in Seq(1..(n + 1))
         /\ Rising(a) => Rising(a \o Received(n + 1, note))
         /\ Elements(a \o Received(n + 1, note)) =
              IF Hears(note) THEN Elements(a) \cup {n + 1} ELSE Elements(a)
<1> DEFINE b == a \o Received(n + 1, note)
<1>1. a \in Seq(1..(n + 1))
  BY ElementsWithin
<1>2. CASE Hears(note)
  <2>1. b = Append(a, n + 1)
    BY <1>1, <1>2, AppendIsConcat DEF Received
  <2>2. \A x \in Elements(a) : x < n + 1
    OBVIOUS
  <2> HIDE DEF b
  <2>3. n + 1 \in Nat /\ n + 1 \in 1..(n + 1)
    OBVIOUS
  <2>4. /\ Append(a, n + 1) \in Seq(1..(n + 1))
        /\ Elements(Append(a, n + 1)) = Elements(a) \cup {n + 1}
        /\ Rising(a) => Rising(Append(a, n + 1))
    BY <1>1, <2>2, <2>3, AppendRises
  <2> QED BY <1>2, <2>1, <2>4 DEF b
<1>3. CASE ~Hears(note)
  <2>1. b = a
    BY <1>1, <1>3, ConcatEmptySeq DEF Received
  <2> QED BY <1>1, <1>3, <2>1
<1> QED BY <1>2, <1>3

\* A commit: one payload of the order, perhaps one of stock.
LEMMA CommitGrows ==
  ASSUME SourceInv, NEW o \in Orders, NEW ks \in SUBSET Keys, Commit(o, ks)
  PROVE  /\ SourceInv' /\ Grows
         /\ LET n == Len(committed) IN
            /\ Len(committed') = IF ks = {} THEN n + 1 ELSE n + 2
            /\ Elements(arriving') = Elements(arriving)
                 \cup (IF Hears({o}) THEN {n + 1} ELSE {})
                 \cup (IF ks # {} /\ Hears(ks) THEN {n + 2} ELSE {})
<1> DEFINE n == Len(committed)
           first == arriving \o Received(n + 1, {o})
           ns == IF ks = {} THEN <<{o}>> ELSE <<{o}, ks>>
<1>0. /\ committed \in Seq(Notes) /\ n \in Nat /\ arriving \in Seq(1..n)
      /\ Elements(arriving) \subseteq 1..n
  BY LenProperties, ElementsWithin DEF SourceInv, SourceTypeOK
<1>1. /\ first \in Seq(1..(n + 1))
      /\ Rising(arriving) => Rising(first)
      /\ Elements(first) = IF Hears({o}) THEN Elements(arriving) \cup {n + 1} ELSE Elements(arriving)
  <2> HIDE DEF n, first
  <2>1. first = arriving \o Received(n + 1, {o})
    BY DEF first
  <2> QED BY <1>0, <2>1, ReceivedRises
<1>2. Elements(first) \subseteq 1..(n + 1)
  BY <1>0, <1>1
<1>3. ns \in Seq(Notes) /\ Len(ns) = IF ks = {} THEN 1 ELSE 2
  <2>1. <<{o}>> \in Seq(Notes) /\ Len(<<{o}>>) = 1
    BY DEF Notes
  <2>2. ASSUME ks # {} PROVE <<{o}, ks>> \in Seq(Notes) /\ Len(<<{o}, ks>>) = 2
    <3>1. {o} \in Notes
      BY DEF Notes
    <3>2. ks \in (SUBSET Keys) \ {{}}
      BY <2>2
    <3>3. ks \in Notes
      BY <3>2 DEF Notes
    <3> QED BY <3>1, <3>3
  <2> QED BY <2>1, <2>2
<1>4. /\ committed' = committed \o ns /\ n + Len(ns) <= MaxNotes
      /\ arriving' = first \o (IF ks = {} THEN <<>> ELSE Received(n + 2, ks))
      /\ UNCHANGED <<task, link, listening, connected, failures>>
  BY DEF Commit
<1> HIDE DEF n, ns, first
<1>5. /\ committed' \in Seq(Notes) /\ Len(committed') = n + Len(ns)
      /\ \A i \in 1..n : committed'[i] = committed[i]
  <2>1. /\ committed \o ns \in Seq(Notes) /\ Len(committed \o ns) = Len(committed) + Len(ns)
        /\ \A i \in 1..(Len(committed) + Len(ns)) :
             (committed \o ns)[i] = IF i <= Len(committed) THEN committed[i] ELSE ns[i - Len(committed)]
    BY <1>0, <1>3, ConcatProperties
  <2>2. \A i \in 1..n : i \in 1..(n + Len(ns)) /\ i <= n
    BY <1>0, <1>3
  <2> QED BY <1>4, <2>1, <2>2 DEF n
<1>6. /\ arriving' \in Seq(1..Len(committed'))
      /\ Rising(arriving) => Rising(arriving')
      /\ Elements(arriving') = Elements(first) \cup (IF ks # {} /\ Hears(ks) THEN {n + 2} ELSE {})
  <2>1. CASE ks = {}
    <3>1. arriving' = first
      BY <1>1, <1>4, <2>1, ConcatEmptySeq
    <3>2. Len(committed') = n + 1
      BY <1>3, <1>5, <2>1
    <3>3. Elements(arriving') = Elements(first) \cup {}
      BY <3>1
    <3>4. arriving' \in Seq(1..Len(committed'))
      BY <1>1, <3>1, <3>2
    <3>5. Rising(arriving) => Rising(arriving')
      BY <1>1, <3>1
    <3> QED BY <2>1, <3>3, <3>4, <3>5
  <2>2. CASE ks # {}
    <3> DEFINE m == n + 1
               second == first \o Received(m + 1, ks)
    <3>0. m \in Nat
      BY <1>0
    <3>1. first \in Seq(1..m) /\ Elements(first) \subseteq 1..m
      BY <1>1, <1>2
    <3>2. m + 1 = n + 2
      BY <1>0
    <3>3. Len(committed') = m + 1
      BY <1>0, <1>3, <1>5, <2>2
    <3>4. arriving' = second
      BY <1>4, <2>2, <3>2
    <3> HIDE DEF m
    <3>5. /\ second \in Seq(1..(m + 1))
          /\ Rising(first) => Rising(second)
          /\ Elements(second) = IF Hears(ks) THEN Elements(first) \cup {m + 1} ELSE Elements(first)
      BY <3>0, <3>1, ReceivedRises
    <3> HIDE DEF second
    <3>6. Elements(arriving') = Elements(first) \cup (IF ks # {} /\ Hears(ks) THEN {n + 2} ELSE {})
      BY <2>2, <3>2, <3>4, <3>5
    <3>7. arriving' \in Seq(1..Len(committed'))
      BY <3>3, <3>4, <3>5
    <3>8. Rising(arriving) => Rising(arriving')
      BY <1>1, <3>4, <3>5
    <3> QED BY <3>6, <3>7, <3>8
  <2> QED BY <2>1, <2>2
<1>7. SourceInv'
  BY <1>4, <1>5, <1>6 DEF SourceInv, SourceTypeOK, Reported
<1>8. Grows
  BY <1>0, <1>1, <1>3, <1>5, <1>6 DEF Grows, n
<1> QED BY <1>1, <1>3, <1>5, <1>6, <1>7, <1>8 DEF n

\* Losing a connection keeps a prefix of what was read.
LEMMA CutRises ==
  ASSUME SourceInv, Cut
  PROVE  /\ arriving' \in Seq(1..Len(committed)) /\ listening' = 0
         /\ Rising(arriving) => Rising(arriving')
         /\ Elements(arriving') \subseteq Elements(arriving)
<1>1. PICK m \in 0..Len(arriving) : arriving' = SubSeq(arriving, 1, m)
  BY DEF Cut
<1>2. arriving \in Seq(1..Len(committed))
  BY DEF SourceInv, SourceTypeOK
<1> QED BY <1>1, <1>2, PrefixRises DEF Cut

\* The listener's invariant, and what its steps do to what is on its way.
LEMMA SourceKeeps ==
  ASSUME SourceInv, SourceStep
  PROVE  SourceInv' /\ Grows
<1>0. /\ Len(committed) \in Nat /\ arriving \in Seq(1..Len(committed))
      /\ failures \in 0..MaxFailures /\ MaxFailures \in Nat
  BY LenProperties, EventSourceBounds DEF SourceInv, SourceTypeOK
<1>1. ASSUME NEW o \in Orders, NEW ks \in SUBSET Keys, Commit(o, ks) PROVE SourceInv' /\ Grows
  BY <1>1, CommitGrows
<1>f. Fail => failures' \in 0..MaxFailures
  BY <1>0 DEF Fail
<1>2. CASE Connect
  BY <1>0, <1>2, TwoChannels, NothingCommitted
  DEF Connect, SourceInv, SourceTypeOK, Reported, TaskStates
<1>3. CASE ConnectFails
  BY <1>0, <1>f, <1>3, NothingCommitted
  DEF ConnectFails, SourceInv, SourceTypeOK, Reported, TaskStates
<1>4. CASE AddListener
  <2>0. /\ task = "listening" /\ link = "alive" /\ listening' = listening + 1
        /\ UNCHANGED <<committed, link, arriving, failures>>
        /\ \/ listening' = Len(Channels) /\ task' = "up" /\ connected' = TRUE
           \/ listening' # Len(Channels) /\ task' = task /\ connected' = connected
    BY <1>4 DEF AddListener
  <2>1. Grows
    BY <1>0, <2>0, NothingCommitted
  <2>2. listening \in 0..1 /\ ~connected
    BY <2>0, TwoChannels DEF SourceInv, SourceTypeOK, Reported
  <2>3. SourceTypeOK'
    <3>1. listening' \in 0..Len(Channels) /\ task' \in TaskStates /\ connected' \in BOOLEAN
      <4>1. listening' \in 0..2
        BY <2>0, <2>2
      <4>2. connected' \in BOOLEAN
        BY <2>0 DEF SourceInv, SourceTypeOK
      <4> QED BY <2>0, <4>1, <4>2, TwoChannels DEF TaskStates
    <3> QED BY <2>0, <3>1 DEF SourceInv, SourceTypeOK
  <2>4. Reported'
    BY <2>0, <2>2, TwoChannels DEF Reported
  <2> QED BY <2>0, <2>1, <2>3, <2>4 DEF SourceInv
<1>5. CASE Disconnect
  BY <1>0, <1>5, NothingCommitted DEF Disconnect, SourceInv, SourceTypeOK, Reported, TaskStates
<1>6. CASE Retry
  BY <1>0, <1>6, NothingCommitted DEF Retry, SourceInv, SourceTypeOK, Reported, TaskStates
<1>7. CASE LinkDies
  <2>1. UNCHANGED <<committed, task, connected>> /\ link' = "dead" /\ Cut /\ Fail
    BY <1>7 DEF LinkDies
  <2> QED BY <1>0, <1>f, <2>1, TwoChannels, CutRises, NothingCommitted DEF SourceInv, SourceTypeOK, Reported
<1>8. CASE Stop
  <2>1. UNCHANGED <<committed, connected>> /\ link' = "none" /\ task' = "stopping" /\ Cut /\ Fail
    BY <1>8 DEF Stop
  <2> QED BY <1>0, <1>f, <2>1, TwoChannels, CutRises, NothingCommitted DEF SourceInv, SourceTypeOK, Reported, TaskStates
<1>9. CASE Stopped \/ Crash
  <2>1. /\ arriving' = <<>> /\ committed' = committed /\ task' = "ended" /\ connected' = FALSE
        /\ failures' \in 0..MaxFailures /\ listening' \in 0..Len(Channels)
        /\ link' \in {"none", "alive", "dead"}
    BY <1>0, <1>f, <1>9, TwoChannels DEF Stopped, Crash, SourceInv, SourceTypeOK
  <2>2. arriving' \in Seq(1..Len(committed))
    BY <2>1, EmptySeq
  <2> QED BY <2>1, <2>2, NothingRises, NothingCommitted DEF SourceInv, SourceTypeOK, Reported, TaskStates
<1>10. CASE Start
  BY <1>0, <1>10, NothingCommitted DEF Start, SourceInv, SourceTypeOK, Reported, TaskStates
<1>11. CASE Handle
  <2>1. /\ arriving # <<>> /\ arriving' = Tail(arriving)
        /\ UNCHANGED <<committed, task, link, listening, connected, failures>>
    BY <1>11 DEF Handle
  <2>2. /\ arriving' \in Seq(1..Len(committed)) /\ Elements(arriving') \subseteq Elements(arriving)
        /\ Rising(arriving) => Rising(arriving')
    <3>1. CASE Rising(arriving)
      BY <1>0, <2>1, <3>1, TailRises
    <3>2. Tail(arriving) \in Seq(1..Len(committed))
      BY <1>0, <2>1, HeadTailProperties
    <3>3. Elements(Tail(arriving)) \subseteq Elements(arriving)
      <4>1. /\ Len(Tail(arriving)) = Len(arriving) - 1 /\ Len(arriving) \in Nat
            /\ \A i \in 1..Len(Tail(arriving)) : Tail(arriving)[i] = arriving[i + 1]
        BY <1>0, <2>1, HeadTailProperties, LenProperties
      <4>2. \A i \in 1..Len(Tail(arriving)) : i + 1 \in 1..Len(arriving)
        BY <4>1
      <4> QED BY <4>1, <4>2 DEF Elements
    <3> QED BY <2>1, <3>1, <3>2, <3>3
  <2> QED BY <2>1, <2>2, NothingCommitted DEF SourceInv, SourceTypeOK, Reported
<1> QED BY <1>1, <1>2, <1>3, <1>4, <1>5, <1>6, <1>7, <1>8, <1>9, <1>10, <1>11 DEF SourceStep, Upkeep

-----------------------------------------------------------------------------
(* The last notification about a subject, and the newest orders.           *)

\* LastAt over any sequence of notifications c.
LastIn(c, s, p) ==
  CHOOSE i \in 0..p : /\ i # 0 => s \in c[i]
                      /\ \A j \in (i + 1)..p : s \notin c[j]

\* LastAt is it.
LEMMA LastAtIn ==
  ASSUME NEW s, NEW p
  PROVE  LastAt(s, p) = LastIn(committed, s, p)
BY DEF LastAt, LastIn

\* There is a last one.
LEMMA LastInIs ==
  ASSUME NEW c, NEW s, NEW p \in Nat
  PROVE  /\ LastIn(c, s, p) \in 0..p
         /\ LastIn(c, s, p) # 0 => s \in c[LastIn(c, s, p)]
         /\ \A j \in (LastIn(c, s, p) + 1)..p : s \notin c[j]
<1> DEFINE About == {i \in 1..p : s \in c[i]} \cup {0}
           Ages == {p - i : i \in About}
<1>1. Ages \subseteq Nat /\ Ages # {}
  OBVIOUS
<1>2. PICK x \in Ages : \A y \in Ages : x <= y
  <2> HIDE DEF Ages
  <2> QED BY <1>1, LeastNatural
<1>3. PICK i \in About : x = p - i
  OBVIOUS
<1>4. \A j \in (i + 1)..p : s \notin c[j]
  <2> SUFFICES ASSUME NEW j \in (i + 1)..p, s \in c[j] PROVE FALSE
    OBVIOUS
  <2>1. j \in About
    BY <1>3
  <2>2. p - i <= p - j
    BY <1>2, <1>3, <2>1
  <2> QED BY <1>3, <2>2
<1>5. \E k \in 0..p : (k # 0 => s \in c[k]) /\ \A j \in (k + 1)..p : s \notin c[j]
  BY <1>3, <1>4
<1> QED BY <1>5 DEF LastIn

\* ... and only one.
LEMMA LastInOne ==
  ASSUME NEW c, NEW s, NEW p \in Nat, NEW i \in 0..p, i # 0 => s \in c[i],
         \A j \in (i + 1)..p : s \notin c[j]
  PROVE  LastIn(c, s, p) = i
<1> DEFINE k == LastIn(c, s, p)
<1>1. k \in 0..p /\ (k # 0 => s \in c[k]) /\ \A j \in (k + 1)..p : s \notin c[j]
  BY LastInIs
<1> HIDE DEF k
<1>2. ~(k < i)
  BY <1>1
<1>3. ~(i < k)
  BY <1>1
<1>4. k = i
  BY <1>1, <1>2, <1>3
<1> QED BY <1>4 DEF k

\* It depends on the notifications up to p alone.
LEMMA LastInSame ==
  ASSUME NEW c, NEW d, NEW s, NEW p \in Nat, \A i \in 1..p : d[i] = c[i]
  PROVE  LastIn(d, s, p) = LastIn(c, s, p)
<1> DEFINE i == LastIn(c, s, p)
<1>1. i \in 0..p /\ (i # 0 => s \in c[i]) /\ \A j \in (i + 1)..p : s \notin c[j]
  BY LastInIs
<1> HIDE DEF i
<1>2. (i # 0 => s \in d[i]) /\ \A j \in (i + 1)..p : s \notin d[j]
  BY <1>1
<1>3. LastIn(d, s, p) = i
  BY <1>1, <1>2, LastInOne
<1> QED BY <1>3 DEF i

\* In a finite set of numbers some element has exactly j larger ones, if it has more
\* than j elements.
LEMMA RankedElement ==
  ASSUME NEW S, S \subseteq Nat, IsFiniteSet(S), NEW j \in 0..(Cardinality(S) - 1)
  PROVE  \E o \in S : Cardinality({q \in S : q > o}) = j
<1> DEFINE Bad == {s \in SUBSET S : \E i \in 0..(Cardinality(s) - 1) :
                     \A o \in s : Cardinality({q \in s : q > o}) # i}
<1> SUFFICES ASSUME S \in Bad PROVE FALSE
  OBVIOUS
<1>1. PICK s \in Bad : \A r \in Bad : Cardinality(s) <= Cardinality(r)
  BY SmallestSubset
<1>2. PICK i \in 0..(Cardinality(s) - 1) : \A o \in s : Cardinality({q \in s : q > o}) # i
  OBVIOUS
<1>3. s \in SUBSET S /\ IsFiniteSet(s) /\ Cardinality(s) \in Nat /\ s \subseteq Nat
  BY FS_Subset, FS_CardinalityType
<1>4. s # {}
  BY <1>2, FS_EmptySet
<1>5. PICK x \in s : \A y \in s : x <= y
  BY <1>3, <1>4, LeastNatural
<1> DEFINE r == s \ {x}
<1>6. r \in SUBSET S /\ Cardinality(r) = Cardinality(s) - 1
  BY <1>3, <1>5, FS_RemoveElement
<1>7. r \notin Bad
  <2> HIDE DEF Bad
  <2> QED BY <1>1, <1>3, <1>6
<1>8. CASE i = Cardinality(s) - 1
  <2>1. \A q \in s : q > x <=> q # x
    BY <1>3, <1>5
  <2>2. {q \in s : q > x} = r
    BY <2>1
  <2> QED BY <1>2, <1>5, <1>6, <1>8, <2>2
<1>9. CASE i # Cardinality(s) - 1
  <2>1. i \in 0..(Cardinality(r) - 1)
    BY <1>3, <1>6, <1>9
  <2>2. PICK o \in r : Cardinality({q \in r : q > o}) = i
    BY <1>6, <1>7, <2>1
  <2>3. {q \in s : q > o} = {q \in r : q > o}
    BY <1>3, <1>5
  <2> QED BY <1>2, <2>2, <2>3
<1> QED BY <1>8, <1>9

\* The orders placed by position p are finitely many.
LEMMA PlacedFinite ==
  ASSUME SourceInv, NEW p \in 0..Len(committed)
  PROVE  IsFiniteSet(PlacedBy(p)) /\ PlacedBy(p) \subseteq Orders
<1> DEFINE nameOf(i) == CHOOSE o \in committed[i] : TRUE
           named == {nameOf(i) : i \in 1..p}
<1>0. committed \in Seq(Notes) /\ p \in Nat /\ Len(committed) \in Nat
  BY LenProperties DEF SourceInv, SourceTypeOK
<1>1. ASSUME NEW o \in PlacedBy(p) PROVE o \in named
  <2>1. o \in Orders /\ LastIn(committed, o, p) # 0
    BY DEF PlacedBy, LastAt, LastIn
  <2>2. PICK i \in 1..p : o \in committed[i]
    BY <1>0, <2>1, LastInIs
  <2>3. committed[i] \in Notes
    BY <1>0, ElementOfSeq
  <2>4. committed[i] = {o}
    BY <2>1, <2>2, <2>3, SubjectsAssumption DEF Notes
  <2> QED BY <2>4
<1>2. IsFiniteSet(1..p)
  BY <1>0, FS_Interval
<1>3. IsFiniteSet(named)
  <2>1. [i \in 1..p |-> nameOf(i)] \in Surjection(1..p, named)
    <3> HIDE DEF nameOf
    <3> QED BY DEF Surjection
  <2> QED BY <1>2, <2>1, FS_Surjection
<1>4. PlacedBy(p) \subseteq named
  BY <1>1
<1> QED BY <1>3, <1>4, FS_Subset DEF PlacedBy

\* The snapshot's rows: no order twice, each at its last notification.
LEMMA OrdersAtType ==
  ASSUME SourceInv, NEW p \in 0..Len(committed)
  PROVE  LET rows == OrdersAt(p) IN
         /\ rows \in Seq([order : Orders, at : 1..Len(committed)]) /\ Len(rows) <= MaxRows
         /\ \A i, j \in 1..Len(rows) : i # j => rows[i].order # rows[j].order
         /\ \A j \in 1..Len(rows) : rows[j].at = LastAt(rows[j].order, p)
<1> DEFINE top == Least(Cardinality(PlacedBy(p)), Least(Limit, MaxRows))
           The(j) == CHOOSE o \in PlacedBy(p) : Newer(o, p) = j - 1
           rows == OrdersAt(p)
<1>0. p \in Nat /\ Len(committed) \in Nat
  BY LenProperties DEF SourceInv, SourceTypeOK
<1>1. /\ IsFiniteSet(PlacedBy(p)) /\ PlacedBy(p) \subseteq Nat /\ PlacedBy(p) \subseteq Orders
      /\ Cardinality(PlacedBy(p)) \in Nat
  BY PlacedFinite, FS_CardinalityType, SubjectsAssumption
<1>2. top \in Nat /\ top <= MaxRows /\ top <= Cardinality(PlacedBy(p))
  BY <1>1, LiveViewAssumption DEF Least
<1>3. rows = [j \in 1..top |-> [order |-> The(j), at |-> LastAt(The(j), p)]]
  BY DEF OrdersAt
<1> HIDE DEF top, rows
<1>4. ASSUME NEW j \in 1..top
      PROVE  The(j) \in PlacedBy(p) /\ Newer(The(j), p) = j - 1
  <2>1. j - 1 \in 0..(Cardinality(PlacedBy(p)) - 1)
    BY <1>1, <1>2
  <2>2. \E o \in PlacedBy(p) : Cardinality({q \in PlacedBy(p) : q > o}) = j - 1
    BY <1>1, <2>1, RankedElement
  <2>3. \E o \in PlacedBy(p) : Newer(o, p) = j - 1
    BY <2>2 DEF Newer
  <2> QED BY <2>3
<1> HIDE DEF The
<1>5. ASSUME NEW j \in 1..top
      PROVE  /\ The(j) \in Orders /\ LastAt(The(j), p) \in 1..Len(committed)
  <2>1. The(j) \in Orders /\ LastAt(The(j), p) # 0
    BY <1>4 DEF PlacedBy
  <2>2. LastIn(committed, The(j), p) \in 0..p
    BY <1>0, LastInIs
  <2> QED BY <1>0, <2>1, <2>2 DEF LastAt, LastIn
<1>6. rows \in Seq([order : Orders, at : 1..Len(committed)]) /\ Len(rows) = top
  BY <1>2, <1>3, <1>5
<1>7. ASSUME NEW i \in 1..top, NEW j \in 1..top, The(i) = The(j) PROVE i = j
  <2>1. i - 1 = j - 1
    BY <1>4, <1>7
  <2> QED BY <1>2, <2>1
<1>8. \A j \in 1..top : rows[j].order = The(j) /\ rows[j].at = LastAt(The(j), p)
  BY <1>3
<1> QED BY <1>2, <1>6, <1>7, <1>8 DEF rows

-----------------------------------------------------------------------------
(* Types.                                                                  *)

\* No order has two rows.
NoOrderTwice(rows) == \A i, j \in 1..Len(rows) : i # j => rows[i].order # rows[j].order

\* The types that do not grow.
Bounded ==
  /\ joined \in BOOLEAN /\ wasFresh \in BOOLEAN
  /\ QueueSize > 0 => Len(queue) <= QueueSize
  /\ socket \in {"connecting", "online", "offline"}
  /\ Len(orders) <= MaxRows
  /\ NoOrderTwice(orders)
  /\ fetch \in {"reading", "done", "failed"}

\* Every position that the tab holds is one of the first n.
Typed(n) ==
  /\ queue \in Seq(1..n) /\ wire \in Seq(1..n)
  /\ latest \in 0..n /\ missed \subseteq 1..n
  /\ orders \in Seq([order : Orders, at : 1..n])
  /\ stock \in [Keys -> 0..n \cup {NoRow}]
  /\ read \in [{"orders", "stock"} -> 0..n \cup {NotRead}]

\* Positions below a bound are below a larger one.
LEMMA TypedWidens ==
  ASSUME NEW m \in Nat, NEW n \in Nat, m <= n, Typed(m)
  PROVE  Typed(n)
<1>1. 1..m \subseteq 1..n /\ 0..m \subseteq 0..n
  OBVIOUS
<1>2. queue \in Seq(1..n) /\ wire \in Seq(1..n)
  BY ElementsWithin DEF Typed
<1>3. orders \in Seq([order : Orders, at : 1..n])
  <2>1. [order : Orders, at : 1..m] \subseteq [order : Orders, at : 1..n]
    BY <1>1
  <2> QED BY <2>1, SeqMonotonic DEF Typed
<1>4. latest \in 0..n /\ missed \subseteq 1..n
  BY <1>1 DEF Typed
<1>5. stock \in [Keys -> 0..n \cup {NoRow}]
  BY <1>1 DEF Typed
<1>6. read \in [{"orders", "stock"} -> 0..n \cup {NotRead}]
  BY <1>1 DEF Typed
<1> QED BY <1>2, <1>3, <1>4, <1>5, <1>6 DEF Typed

\* Every position anywhere is that of a committed notification.
TypeInv == SourceInv /\ Bounded /\ Typed(Len(committed))

\* That is stronger than the type invariant of the runs.
LEMMA TypesHold == TypeInv => TypeOK
<1> SUFFICES ASSUME TypeInv PROVE TypeOK
  OBVIOUS
<1>1. Len(committed) \in Nat /\ MaxNotes \in Nat /\ Len(committed) <= MaxNotes
  BY LenProperties, EventSourceBounds DEF TypeInv, SourceInv, SourceTypeOK
<1>2. Typed(MaxNotes)
  BY <1>1, TypedWidens DEF TypeInv
<1> QED BY <1>2 DEF TypeInv, SourceInv, Bounded, NoOrderTwice, Typed, TypeOK

\* Nothing has happened yet.
LEMMA InitType == Init => TypeInv
<1> SUFFICES ASSUME Init PROVE TypeInv
  OBVIOUS
<1>1. SourceInv
  <2>1. Len(committed) = 0 /\ arriving \in Seq(1..Len(committed)) /\ committed \in Seq(Notes)
    BY EmptySeq DEF Init, SourceInit
  <2>2. listening \in 0..Len(Channels) /\ failures \in 0..MaxFailures /\ Len(committed) <= MaxNotes
    BY <2>1, EventSourceBounds, TwoChannels DEF Init, SourceInit
  <2>3. task \in TaskStates /\ link \in {"none", "alive", "dead"} /\ connected \in BOOLEAN
    BY DEF Init, SourceInit, TaskStates
  <2>4. Reported
    BY DEF Init, SourceInit, Reported
  <2> QED BY <2>1, <2>2, <2>3, <2>4 DEF SourceInv, SourceTypeOK
<1>2. Bounded
  <2>1. Len(queue) = 0 /\ Len(orders) = 0
    BY DEF Init
  <2>2. joined \in BOOLEAN /\ wasFresh \in BOOLEAN
    BY DEF Init
  <2> QED BY <2>1, <2>2, LiveViewAssumption DEF Init, Bounded, NoOrderTwice
<1>3. Typed(Len(committed))
  <2>1. Len(committed) = 0 /\ queue = <<>> /\ wire = <<>> /\ orders = <<>>
    BY DEF Init, SourceInit
  <2>2. /\ queue \in Seq(1..Len(committed)) /\ wire \in Seq(1..Len(committed))
        /\ orders \in Seq([order : Orders, at : 1..Len(committed)])
    BY <2>1, EmptySeq
  <2> QED BY <2>1, <2>2 DEF Init, Typed, NoRow, NotRead
<1> QED BY <1>1, <1>2, <1>3 DEF TypeInv

\* A step of the listener that leaves the tab's queue and rows alone, or empties
\* what was on its way.
LEMMA SourceStepType ==
  ASSUME TypeInv, SourceStep, Bounded',
         queue' = queue \/ queue' = <<>>, wire' = wire \/ wire' = <<>>,
         missed' \subseteq 1..Len(committed'), UNCHANGED <<store, snapshot>>
  PROVE  TypeInv'
<1>1. SourceInv' /\ Grows
  BY SourceKeeps DEF TypeInv
<1> DEFINE n == Len(committed')
<1>2. Len(committed) \in Nat /\ n \in Nat /\ Len(committed) <= n
  BY <1>1, LenProperties DEF Grows, SourceInv, SourceTypeOK
<1> HIDE DEF n
<1>3. Typed(n)
  BY <1>2, TypedWidens DEF TypeInv
<1>4. <<>> \in Seq(1..n)
  BY EmptySeq
<1>5. queue' \in Seq(1..n) /\ wire' \in Seq(1..n)
  BY <1>3, <1>4 DEF Typed
<1>6. UNCHANGED <<orders, stock, latest, read>>
  BY DEF store, snapshot
<1>7. Typed(Len(committed))'
  BY <1>3, <1>5, <1>6 DEF Typed, n
<1> QED BY <1>1, <1>7 DEF TypeInv

\* A step of the listener leaves behind nothing but committed positions.
LEMMA LeftWithin ==
  ASSUME SourceInv, SourceInv', Grows
  PROVE  Left \subseteq 1..Len(committed')
<1>1. /\ Len(committed) \in Nat /\ Len(committed') \in Nat /\ Len(committed) <= Len(committed')
      /\ arriving \in Seq(1..Len(committed))
  BY LenProperties DEF SourceInv, SourceTypeOK, Grows
<1>2. Elements(arriving) \subseteq 1..Len(committed)
  BY <1>1, ElementsWithin
<1> QED BY <1>1, <1>2 DEF Left

\* Every row is that of order o at position e, or an old row of another order.
Updated(rows, old, o, e) ==
  \A j \in 1..Len(rows) :
    \/ rows[j] = [order |-> o, at |-> e]
    \/ \E i \in 1..Len(old) : old[i] = rows[j] /\ old[i].order # o

\* The row of an order is updated, or a new row is put first and the last one dropped.
LEMMA ApplyOrderType ==
  ASSUME NEW n \in Nat, orders \in Seq([order : Orders, at : 1..n]), Len(orders) <= MaxRows,
         NoOrderTwice(orders), NEW o \in Orders, NEW e \in 1..n
  PROVE  /\ ApplyOrder(o, e) \in Seq([order : Orders, at : 1..n])
         /\ Len(ApplyOrder(o, e)) <= MaxRows
         /\ NoOrderTwice(ApplyOrder(o, e))
         /\ Updated(ApplyOrder(o, e), orders, o, e)
<1> DEFINE R == [order : Orders, at : 1..n]
           row == [order |-> o, at |-> e]
           rows == ApplyOrder(o, e)
           same == [j \in 1..Len(orders) |-> IF orders[j].order = o THEN row ELSE orders[j]]
           grown == <<row>> \o orders
           top == Least(MaxRows, Len(grown))
<1>1. /\ Len(orders) \in Nat /\ row \in R /\ row.order = o
      /\ \A j \in 1..Len(orders) : orders[j] \in R
  BY ElementOfSeq, LenProperties
<1>0. \A i, j \in 1..Len(orders) : i # j => orders[i].order # orders[j].order
  BY DEF NoOrderTwice
<1>2. CASE \E j \in 1..Len(orders) : orders[j].order = o
  <2>1. rows = same
    BY <1>2 DEF ApplyOrder
  <2>2. same \in Seq(R) /\ Len(same) = Len(orders)
    BY <1>1
  <2>3. \A j \in 1..Len(orders) :
          /\ same[j] = IF orders[j].order = o THEN row ELSE orders[j]
          /\ same[j].order = orders[j].order
    BY <1>1
  <2> HIDE DEF rows, same, row
  <2>4. \A j \in 1..Len(rows) :
          rows[j] = row \/ \E i \in 1..Len(orders) : orders[i] = rows[j] /\ orders[i].order # o
    BY <2>1, <2>2, <2>3
  <2>5. \A i, j \in 1..Len(rows) : i # j => rows[i].order # rows[j].order
    BY <1>0, <2>1, <2>2, <2>3
  <2> QED BY <2>1, <2>2, <2>4, <2>5 DEF rows, row, NoOrderTwice, Updated
<1>3. CASE ~\E j \in 1..Len(orders) : orders[j].order = o
  <2>1. rows = SubSeq(grown, 1, top)
    BY <1>3 DEF ApplyOrder
  <2>2. /\ grown \in Seq(R) /\ Len(grown) = Len(orders) + 1
        /\ grown[1] = row
        /\ \A j \in 2..(Len(orders) + 1) : grown[j] = orders[j - 1]
    <3>1. <<row>> \in Seq(R) /\ Len(<<row>>) = 1 /\ <<row>>[1] = row
      BY <1>1
    <3> HIDE DEF row
    <3>2. /\ grown \in Seq(R) /\ Len(grown) = 1 + Len(orders)
          /\ \A i \in 1..(1 + Len(orders)) :
               grown[i] = IF i <= 1 THEN <<row>>[i] ELSE orders[i - 1]
      BY <3>1, ConcatProperties
    <3> HIDE DEF grown
    <3> QED BY <1>1, <3>1, <3>2
  <2>3. top \in Nat /\ top \in 0..Len(grown) /\ top <= MaxRows /\ top <= Len(orders) + 1
    BY <1>1, <2>2, LiveViewAssumption DEF Least
  <2> HIDE DEF top, grown
  <2>4. /\ rows \in Seq(R) /\ Len(rows) = top
        /\ \A j \in 1..top : rows[j] = grown[j]
    <3>1. \A j \in 1..top : grown[j] \in R
      <4> HIDE DEF R
      <4> QED BY <2>2, <2>3, ElementOfSeq
    <3> HIDE DEF rows, R
    <3>2. /\ SubSeq(grown, 1, top) \in Seq(R)
          /\ Len(SubSeq(grown, 1, top)) = IF 1 <= top THEN top - 1 + 1 ELSE 0
          /\ \A i \in 1..(top - 1 + 1) : SubSeq(grown, 1, top)[i] = grown[1 + i - 1]
      BY <2>3, <3>1, SubSeqProperties
    <3>3. top - 1 + 1 = top /\ (~(1 <= top) => top = 0) /\ \A i \in 1..top : 1 + i - 1 = i
      BY <2>3
    <3> QED BY <2>1, <3>2, <3>3
  <2> HIDE DEF rows, row
  <2>5. \A j \in 1..top : \/ j = 1 /\ rows[j] = row
                          \/ j - 1 \in 1..Len(orders) /\ j # 1 /\ rows[j] = orders[j - 1]
    <3> SUFFICES ASSUME NEW j \in 1..top, j # 1
                 PROVE  j - 1 \in 1..Len(orders) /\ rows[j] = orders[j - 1]
      BY <2>2, <2>4
    <3>1. j \in 2..(Len(orders) + 1)
      BY <1>1, <2>3
    <3>2. j - 1 \in 1..Len(orders)
      BY <1>1, <3>1
    <3>3. rows[j] = grown[j]
      BY <2>4
    <3>4. grown[j] = orders[j - 1]
      BY <2>2, <3>1
    <3> QED BY <3>2, <3>3, <3>4
  <2>6. \A j \in 1..Len(rows) :
          rows[j] = row \/ \E i \in 1..Len(orders) : orders[i] = rows[j] /\ orders[i].order # o
    BY <1>3, <2>4, <2>5
  <2>7. NoOrderTwice(rows)
    <3> SUFFICES ASSUME NEW i \in 1..top, NEW j \in 1..top, i # j
                 PROVE  rows[i].order # rows[j].order
      BY <2>4 DEF NoOrderTwice
    <3>1. CASE i = 1 \/ j = 1
      BY <1>1, <1>3, <2>5, <3>1
    <3>2. CASE i # 1 /\ j # 1
      <4>1. i - 1 # j - 1
        BY <2>3
      <4>2. /\ i - 1 \in 1..Len(orders) /\ rows[i] = orders[i - 1]
            /\ j - 1 \in 1..Len(orders) /\ rows[j] = orders[j - 1]
        BY <2>5, <3>2
      <4> QED BY <1>0, <4>1, <4>2
    <3> QED BY <3>1, <3>2
  <2> QED BY <2>3, <2>4, <2>6, <2>7 DEF rows, row, Updated
<1> QED BY <1>2, <1>3

\* A failure that the listener does not see.
LEMMA FailKeeps ==
  ASSUME SourceInv, Fail \/ failures' = failures,
         UNCHANGED <<committed, task, link, listening, connected, arriving>>
  PROVE  SourceInv'
<1>1. failures' \in 0..MaxFailures
  BY EventSourceBounds DEF Fail, SourceInv, SourceTypeOK
<1> QED BY <1>1 DEF SourceInv, SourceTypeOK, Reported

\* Steps of the listener, as the tab sees them.
LEMMA ListenerType ==
  ASSUME TypeInv,
         \/ \E o \in Orders, ks \in SUBSET Keys : Place(o, ks)
         \/ SourceUpkeep \/ GatewayGoes \/ GatewayStarts
  PROVE  TypeInv'
<1>0. /\ SourceInv /\ Bounded /\ Typed(Len(committed)) /\ Len(committed) \in Nat
      /\ queue \in Seq(1..Len(committed)) /\ wire \in Seq(1..Len(committed))
      /\ missed \subseteq 1..Len(committed)
  BY LenProperties DEF TypeInv, Typed, SourceInv, SourceTypeOK
<1>1. /\ SourceStep /\ UNCHANGED <<store, snapshot>>
      /\ queue' = queue \/ queue' = <<>>
      /\ wire' = wire \/ wire' = <<>>
      /\ missed' \subseteq missed \cup Left \cup Elements(queue) \cup Elements(wire)
  BY DEF Place, SourceUpkeep, GatewayGoes, GatewayStarts, SourceStep, Hangup, tab
<1>2. SourceInv' /\ Grows
  BY <1>0, <1>1, SourceKeeps
<1>3. missed' \subseteq 1..Len(committed')
  <2>1. Len(committed') \in Nat /\ Len(committed) <= Len(committed')
    BY <1>2, LenProperties DEF SourceInv, SourceTypeOK, Grows
  <2>2. Left \subseteq 1..Len(committed')
    BY <1>0, <1>2, LeftWithin
  <2>3. Elements(queue) \subseteq 1..Len(committed) /\ Elements(wire) \subseteq 1..Len(committed)
    BY <1>0, ElementsWithin
  <2>4. 1..Len(committed) \subseteq 1..Len(committed')
    BY <1>0, <2>1
  <2> QED BY <1>0, <1>1, <2>2, <2>3, <2>4
<1>4. Bounded'
  <2>1. UNCHANGED <<orders, fetch>>
    BY <1>1 DEF store, snapshot
  <2>2. joined' \in BOOLEAN /\ wasFresh' \in BOOLEAN /\ socket' \in {"connecting", "online", "offline"}
    <3>1. (joined' = joined /\ wasFresh' = wasFresh /\ socket' = socket) \/ Hangup
      BY DEF Place, SourceUpkeep, GatewayGoes, GatewayStarts, tab
    <3>2. Hangup => joined' = FALSE /\ socket' = "offline" /\ wasFresh' \in BOOLEAN
      BY DEF Hangup
    <3> QED BY <1>0, <3>1, <3>2 DEF Bounded
  <2>3. QueueSize > 0 => Len(queue') <= QueueSize
    <3>1. Len(<<>>) = 0
      OBVIOUS
    <3>2. CASE queue' = <<>>
      BY <3>1, <3>2, LiveViewAssumption
    <3> QED BY <1>0, <1>1, <3>2 DEF Bounded
  <2> QED BY <1>0, <2>1, <2>2, <2>3 DEF Bounded
<1> QED BY <1>1, <1>3, <1>4, SourceStepType

\* A message goes from the listener into the queue, or onto the wire.
LEMMA DeliveryType ==
  ASSUME TypeInv, Broadcast \/ Pump
  PROVE  TypeInv'
<1> DEFINE n == Len(committed)
<1>0. /\ SourceInv /\ Bounded /\ Typed(n) /\ n \in Nat /\ Len(queue) \in Nat
      /\ queue \in Seq(1..n) /\ wire \in Seq(1..n) /\ arriving \in Seq(1..n)
      /\ missed \subseteq 1..n
  BY LenProperties DEF TypeInv, Typed, SourceInv, SourceTypeOK
<1>1. CASE Broadcast
  <2> DEFINE i == Head(arriving)
             full == QueueSize > 0 /\ Len(queue) >= QueueSize
             rest == IF full THEN Tail(queue) ELSE queue
  <2>1. /\ Handle /\ arriving # <<>> /\ committed' = committed
        /\ queue' = IF ~joined THEN queue ELSE Append(rest, i)
        /\ missed' = missed \/ missed' = missed \cup {i} \/ (full /\ missed' = missed \cup {Head(queue)})
        /\ UNCHANGED <<joined, wire, socket, wasFresh, store, snapshot>>
    BY <1>1 DEF Broadcast, Handle
  <2>2. SourceInv'
    BY <1>0, <2>1, SourceKeeps DEF SourceStep
  <2>3. i \in 1..n
    BY <1>0, <2>1, HeadTailProperties
  <2>4. /\ full => queue # <<>> /\ Head(queue) \in 1..n
        /\ rest \in Seq(1..n)
        /\ QueueSize > 0 => Len(rest) + 1 <= QueueSize
    <3>1. Len(<<>>) = 0
      OBVIOUS
    <3>2. CASE full
      <4>1. queue # <<>>
        <5>1. queue = <<>> => Len(queue) = 0
          BY <3>1
        <5>2. ~(Len(queue) = 0)
          BY <1>0, <3>2, LiveViewAssumption
        <5> QED BY <5>1, <5>2
      <4>2. Head(queue) \in 1..n /\ Tail(queue) \in Seq(1..n) /\ Len(Tail(queue)) = Len(queue) - 1
        BY <1>0, <4>1, HeadTailProperties
      <4> QED BY <1>0, <3>2, <4>1, <4>2, LiveViewAssumption DEF Bounded
    <3>3. CASE ~full
      BY <1>0, <3>3, LiveViewAssumption
    <3> QED BY <3>2, <3>3
  <2>5. queue' \in Seq(1..n) /\ (QueueSize > 0 => Len(queue') <= QueueSize)
    <3> HIDE DEF i, rest
    <3>1. Append(rest, i) \in Seq(1..n) /\ Len(Append(rest, i)) = Len(rest) + 1
      BY <2>3, <2>4, AppendProperties
    <3> QED BY <1>0, <2>1, <2>4, <3>1 DEF Bounded
  <2>6. missed' \subseteq 1..n
    BY <1>0, <2>1, <2>3, <2>4
  <2> HIDE DEF i, full, rest
  <2>7. Typed(n)'
    BY <1>0, <2>1, <2>5, <2>6 DEF Typed, store, snapshot, n
  <2>8. Bounded'
    BY <1>0, <2>1, <2>5 DEF Bounded, store, snapshot
  <2> QED BY <2>2, <2>7, <2>8 DEF TypeInv, n
<1>2. CASE Pump
  <2>1. /\ queue # <<>> /\ wire' = Append(wire, Head(queue)) /\ queue' = Tail(queue)
        /\ UNCHANGED <<source, joined, socket, wasFresh, store, snapshot, missed>>
    BY <1>2 DEF Pump
  <2>2. Head(queue) \in 1..n /\ Tail(queue) \in Seq(1..n) /\ Len(Tail(queue)) = Len(queue) - 1
    BY <1>0, <2>1, HeadTailProperties
  <2>3. wire' \in Seq(1..n)
    BY <1>0, <2>1, <2>2, AppendProperties
  <2>4. SourceInv'
    BY <1>0, <2>1 DEF source, SourceInv, SourceTypeOK, Reported
  <2>5. Bounded'
    <3>1. QueueSize > 0 => Len(queue') <= QueueSize
      <4>1. Len(queue') = Len(queue) - 1
        BY <2>1, <2>2
      <4> QED BY <1>0, <4>1, LiveViewAssumption DEF Bounded
    <3> QED BY <1>0, <2>1, <3>1 DEF Bounded, store, snapshot
  <2>6. Typed(n)'
    BY <1>0, <2>1, <2>2, <2>3 DEF Typed, source, store, snapshot, n
  <2> QED BY <2>4, <2>5, <2>6 DEF TypeInv, n
<1> QED BY <1>1, <1>2

\* The socket joins, opens, breaks, is refused and tries again.
LEMMA SocketType ==
  ASSUME TypeInv, Socket \/ Break
  PROVE  TypeInv'
<1> DEFINE n == Len(committed)
<1>0. /\ SourceInv /\ Bounded /\ Typed(n) /\ n \in Nat
      /\ queue \in Seq(1..n) /\ wire \in Seq(1..n) /\ missed \subseteq 1..n
  BY LenProperties DEF TypeInv, Typed, SourceInv, SourceTypeOK
<1>1. CASE Socket
  <2>1. /\ UNCHANGED <<source, queue, wire, wasFresh, store, snapshot, missed>>
        /\ joined' \in {TRUE, joined} /\ socket' \in {"connecting", "online", "offline"}
    BY <1>0, <1>1 DEF Socket, Join, Open, Refused, Reconnect, Bounded
  <2>2. SourceInv'
    BY <1>0, <2>1 DEF source, SourceInv, SourceTypeOK, Reported
  <2>3. Bounded'
    BY <1>0, <2>1 DEF Bounded, store, snapshot
  <2>4. Typed(n)'
    BY <1>0, <2>1 DEF Typed, source, store, snapshot, n
  <2> QED BY <2>2, <2>3, <2>4 DEF TypeInv, n
<1>2. CASE Break
  <2>1. /\ Fail /\ joined' = FALSE /\ queue' = <<>> /\ wire' = <<>> /\ socket' = "offline"
        /\ wasFresh' \in BOOLEAN
        /\ missed' = missed \cup Elements(queue) \cup Elements(wire)
        /\ UNCHANGED <<committed, task, link, listening, connected, arriving, store, snapshot>>
    BY <1>2 DEF Break, Hangup
  <2>2. SourceInv'
    BY <1>0, <2>1, FailKeeps
  <2>3. queue' \in Seq(1..n) /\ wire' \in Seq(1..n) /\ Len(queue') = 0
    BY <2>1, EmptySeq
  <2>4. missed' \subseteq 1..n
    <3>1. Elements(queue) \subseteq 1..n /\ Elements(wire) \subseteq 1..n
      <4> HIDE DEF n
      <4> QED BY <1>0, ElementsWithin
    <3> QED BY <1>0, <2>1, <3>1
  <2>5. Bounded'
    <3>1. QueueSize > 0 => Len(queue') <= QueueSize
      BY <2>3, LiveViewAssumption
    <3>2. UNCHANGED <<orders, fetch>>
      BY <2>1 DEF store, snapshot
    <3> QED BY <1>0, <2>1, <3>1, <3>2 DEF Bounded
  <2>6. Typed(n)'
    BY <1>0, <2>1, <2>3, <2>4 DEF Typed, store, snapshot, n
  <2> QED BY <2>2, <2>5, <2>6 DEF TypeInv, n
<1> QED BY <1>1, <1>2

\* The store applies a message or a snapshot.
LEMMA StoreType ==
  ASSUME TypeInv,
         OnMessage \/ Hydrate \/ FetchFails \/ \E r \in {"orders", "stock"} : Read(r)
  PROVE  TypeInv'
<1> DEFINE n == Len(committed)
<1>0. /\ SourceInv /\ Bounded /\ Typed(n) /\ n \in Nat
      /\ wire \in Seq(1..n) /\ committed \in Seq(Notes)
      /\ orders \in Seq([order : Orders, at : 1..n])
      /\ stock \in [Keys -> 0..n \cup {NoRow}]
      /\ read \in [{"orders", "stock"} -> 0..n \cup {NotRead}]
  BY LenProperties DEF TypeInv, Typed, SourceInv, SourceTypeOK
<1>1. CASE OnMessage
  <2> DEFINE i == Head(wire)
             note == committed[i]
             o == CHOOSE o \in note : TRUE
  <2>1. /\ wire # <<>> /\ wire' = Tail(wire) /\ latest' = i
        /\ orders' = IF note \subseteq Orders THEN ApplyOrder(o, i) ELSE orders
        /\ stock' = IF note \subseteq Orders THEN stock ELSE ApplyStock(note, i)
        /\ UNCHANGED <<source, joined, queue, socket, wasFresh, snapshot, missed>>
    BY <1>1 DEF OnMessage
  <2>2. i \in 1..n /\ wire' \in Seq(1..n)
    BY <1>0, <2>1, HeadTailProperties
  <2>3. note \in Notes /\ note # {}
    <3>1. note \in Notes
      BY <1>0, <2>2, ElementOfSeq
    <3> QED BY <3>1 DEF Notes
  <2>4. note \subseteq Orders => o \in Orders
    BY <2>3
  <2> HIDE DEF i, note, o
  <2>5. /\ orders' \in Seq([order : Orders, at : 1..n]) /\ Len(orders') <= MaxRows
        /\ NoOrderTwice(orders)'
    <3>1. CASE note \subseteq Orders
      <4>1. /\ ApplyOrder(o, i) \in Seq([order : Orders, at : 1..n])
            /\ Len(ApplyOrder(o, i)) <= MaxRows
            /\ NoOrderTwice(ApplyOrder(o, i))
        <5>1. o \in Orders /\ Len(orders) <= MaxRows /\ NoOrderTwice(orders)
          BY <1>0, <2>4, <3>1 DEF Bounded
        <5> HIDE DEF n
        <5> QED BY <1>0, <2>2, <5>1, ApplyOrderType
      <4> QED BY <2>1, <3>1, <4>1
    <3>2. CASE ~(note \subseteq Orders)
      BY <1>0, <2>1, <3>2 DEF Bounded
    <3> QED BY <3>1, <3>2
  <2>6. stock' \in [Keys -> 0..n \cup {NoRow}]
    <3>1. ApplyStock(note, i) \in [Keys -> 0..n \cup {NoRow}]
      BY <1>0, <2>2 DEF ApplyStock
    <3> QED BY <1>0, <2>1, <3>1
  <2>7. SourceInv'
    BY <1>0, <2>1 DEF source, SourceInv, SourceTypeOK, Reported
  <2>8. Bounded'
    BY <1>0, <2>1, <2>5 DEF Bounded, snapshot
  <2>9. Typed(n)'
    BY <1>0, <2>1, <2>2, <2>5, <2>6 DEF Typed, source, snapshot, n
  <2> QED BY <2>7, <2>8, <2>9 DEF TypeInv, n
<1>2. CASE Hydrate
  <2>1. /\ fetch = "reading" /\ \A r \in {"orders", "stock"} : read[r] # NotRead
        /\ orders' = OrdersAt(read["orders"])
        /\ stock' = [k \in Keys |-> LastAt(k, read["stock"])]
        /\ fetch' = "done"
        /\ UNCHANGED <<source, tab, latest, read, missed>>
    BY <1>2 DEF Hydrate
  <2>2. read["orders"] \in 0..n /\ read["stock"] \in 0..n
    BY <1>0, <2>1
  <2>3. /\ orders' \in Seq([order : Orders, at : 1..n]) /\ Len(orders') <= MaxRows
        /\ NoOrderTwice(orders)'
    BY <1>0, <2>1, <2>2, OrdersAtType DEF NoOrderTwice
  <2>4. stock' \in [Keys -> 0..n \cup {NoRow}]
    <3>1. ASSUME NEW k \in Keys PROVE LastAt(k, read["stock"]) \in 0..n
      <4> DEFINE p == read["stock"]
      <4>1. p \in Nat
        BY <1>0, <2>2
      <4> HIDE DEF p
      <4>2. LastIn(committed, k, p) \in 0..p
        BY <4>1, LastInIs
      <4>3. LastAt(k, p) \in 0..p
        BY <4>2, LastAtIn
      <4> QED BY <1>0, <2>2, <4>3 DEF p
    <3>2. \A k \in Keys : LastAt(k, read["stock"]) \in 0..n
      BY <3>1
    <3> QED BY <2>1, <3>2
  <2>5. SourceInv'
    BY <1>0, <2>1 DEF source, SourceInv, SourceTypeOK, Reported
  <2>6. Bounded'
    BY <1>0, <2>1, <2>3 DEF Bounded, tab
  <2>7. Typed(n)'
    BY <1>0, <2>1, <2>3, <2>4 DEF Typed, source, tab, n
  <2> QED BY <2>5, <2>6, <2>7 DEF TypeInv, n
<1>3. CASE FetchFails
  <2>1. /\ Fail /\ fetch' = "failed"
        /\ UNCHANGED <<committed, task, link, listening, connected, arriving>>
        /\ UNCHANGED <<tab, store, read, missed>>
    BY <1>3 DEF FetchFails
  <2>2. SourceInv'
    BY <1>0, <2>1, FailKeeps
  <2>3. Bounded' /\ Typed(n)'
    BY <1>0, <2>1 DEF Bounded, Typed, tab, store, n
  <2> QED BY <2>2, <2>3 DEF TypeInv, n
<1>4. ASSUME NEW r \in {"orders", "stock"}, Read(r) PROVE TypeInv'
  <2>1. /\ read' = [read EXCEPT ![r] = n]
        /\ UNCHANGED <<source, tab, store, fetch, missed>>
    BY <1>4 DEF Read
  <2>2. SourceInv'
    BY <1>0, <2>1 DEF source, SourceInv, SourceTypeOK, Reported
  <2>3. read' \in [{"orders", "stock"} -> 0..n \cup {NotRead}]
    <3>1. n \in 0..n
      BY <1>0
    <3> QED BY <1>0, <2>1, <3>1
  <2>4. Bounded' /\ Typed(n)'
    BY <1>0, <2>1, <2>3 DEF Bounded, Typed, source, tab, store, n
  <2> QED BY <2>2, <2>4 DEF TypeInv, n
<1> QED BY <1>1, <1>2, <1>3, <1>4

\* A stutter.
LEMMA StutterType ==
  ASSUME TypeInv, UNCHANGED vars
  PROVE  TypeInv'
<1>1. UNCHANGED <<source, tab, store, snapshot, missed>>
  BY DEF vars
<1>2. SourceInv'
  BY <1>1 DEF TypeInv, source, SourceInv, SourceTypeOK, Reported
<1>3. Bounded' /\ Typed(Len(committed))'
  BY <1>1 DEF TypeInv, Bounded, Typed, source, tab, store, snapshot
<1> QED BY <1>2, <1>3 DEF TypeInv

\* Every step keeps the types.
LEMMA StepType == TypeInv /\ [Next]_vars => TypeInv'
<1> SUFFICES ASSUME TypeInv, [Next]_vars PROVE TypeInv'
  OBVIOUS
<1> QED BY ListenerType, DeliveryType, SocketType, StoreType, StutterType DEF Next, Socket

\* LiveView's type invariant: the tab's queue never outgrows client_queue_size, the
\* list of orders never outgrows MAX_ORDER_ROWS and shows no order twice, and every
\* position shown, queued or read is that of a committed notification.
THEOREM TypeCorrect == Spec => []TypeOK
<1>1. Init => TypeInv
  BY InitType
<1>2. TypeInv /\ [Next]_vars => TypeInv'
  BY StepType
<1>3. TypeInv => TypeOK
  BY TypesHold
<1> QED BY <1>1, <1>2, <1>3, PTL DEF Spec

-----------------------------------------------------------------------------
(* What is on its way.                                                     *)

\* Every number of A is below every number of B.
Below(A, B) == \A x \in A, y \in B : x < y

\* The positions that are on their way to the tab.
Way == Elements(wire) \cup Elements(queue) \cup Elements(arriving)

\* A tab that is not registered has nothing queued or sent.
SocketInv ==
  /\ socket = "offline" => ~joined
  /\ ~joined => queue = <<>> /\ wire = <<>>

\* The frames sent come before the queue, and the queue before what arrives; all of
\* it comes after what the tab has applied.
Ordered ==
  /\ Rising(wire) /\ Rising(queue) /\ Rising(arriving)
  /\ Below(Elements(wire), Elements(queue))
  /\ Below(Elements(wire), Elements(arriving))
  /\ Below(Elements(queue), Elements(arriving))
  /\ Below({latest}, Way)

\* Each committed position is applied or passed over, on its way, or missed.
Accounted ==
  /\ Way \cap missed = {}
  /\ (latest + 1)..Len(committed) \subseteq missed \cup Way

FlowInv == TypeInv /\ SocketInv /\ Ordered /\ Accounted

\* The ranges of what is on its way.
LEMMA WayWithin ==
  ASSUME TypeInv
  PROVE  /\ Len(committed) \in Nat /\ latest \in 0..Len(committed)
         /\ queue \in Seq(1..Len(committed)) /\ wire \in Seq(1..Len(committed))
         /\ arriving \in Seq(1..Len(committed))
         /\ missed \subseteq 1..Len(committed)
         /\ Elements(queue) \subseteq 1..Len(committed)
         /\ Elements(wire) \subseteq 1..Len(committed)
         /\ Elements(arriving) \subseteq 1..Len(committed)
<1>1. Len(committed) \in Nat
  BY LenProperties DEF TypeInv, SourceInv, SourceTypeOK
<1>2. /\ queue \in Seq(1..Len(committed)) /\ wire \in Seq(1..Len(committed))
      /\ arriving \in Seq(1..Len(committed))
      /\ latest \in 0..Len(committed) /\ missed \subseteq 1..Len(committed)
  BY DEF TypeInv, Typed, SourceInv, SourceTypeOK
<1> QED BY <1>1, <1>2, ElementsWithin

\* A step that changes no queue, or that loses what was queued and sent.
LEMMA ListenerFlow ==
  ASSUME TypeInv, Ordered, Accounted, Grows, Len(committed') \in Nat, latest' = latest,
         \/ queue' = queue /\ wire' = wire /\ missed' = missed \cup Left
         \/ /\ queue' = <<>> /\ wire' = <<>>
            /\ missed' = missed \cup Left \cup Elements(queue) \cup Elements(wire)
  PROVE  Ordered' /\ Accounted'
<1> DEFINE n == Len(committed)
           m == Len(committed')
           A == Elements(arriving)
           B == Elements(arriving')
           Q == Elements(queue)
           W == Elements(wire)
<1>1. /\ n \in Nat /\ m \in Nat /\ n <= m /\ latest \in 0..n
      /\ A \subseteq 1..n /\ Q \subseteq 1..n /\ W \subseteq 1..n /\ missed \subseteq 1..n
  BY WayWithin DEF Grows
<1>2. /\ Rising(wire) /\ Rising(queue) /\ Rising(arriving) /\ Rising(arriving')
      /\ Below(W, Q) /\ Below(W, A) /\ Below(Q, A)
      /\ \A x \in W \cup Q \cup A : latest < x /\ x \notin missed
      /\ \A i \in (latest + 1)..n : i \in missed \/ i \in W \/ i \in Q \/ i \in A
      /\ \A x \in B : x \in A \/ x \in (n + 1)..m
      /\ Left = (A \cup (n + 1)..m) \ B
  BY DEF Ordered, Accounted, Way, Grows, Left, Below
<1> HIDE DEF n, m, A, B, Q, W
<1>3. /\ \A x \in B : latest < x /\ x \notin missed /\ x \notin Left
      /\ \A x \in B : x \notin Q /\ x \notin W
      /\ \A x \in W \cup Q : x \notin Left
      /\ Below(W, B) /\ Below(Q, B)
  <2>1. ASSUME NEW x \in B PROVE latest < x /\ x \notin missed /\ x \notin Left
    <3>1. CASE x \in A
      BY <1>2, <3>1
    <3>2. CASE x \in (n + 1)..m
      <4>1. latest < x /\ x \notin 1..n
        BY <1>1, <3>2
      <4> QED BY <1>1, <1>2, <4>1
    <3> QED BY <1>2, <3>1, <3>2
  <2>2. ASSUME NEW w \in W \cup Q, NEW x \in B PROVE w < x
    <3>1. CASE x \in A
      BY <1>2, <3>1 DEF Below
    <3>2. CASE x \in (n + 1)..m
      BY <1>1, <3>2
    <3> QED BY <1>2, <3>1, <3>2
  <2>3. \A w \in W \cup Q : w \in Int
    BY <1>1
  <2>4. ASSUME NEW w \in W \cup Q, w \in Left PROVE FALSE
    <3>1. CASE w \in A
      <4>1. w < w
        BY <1>2, <3>1 DEF Below
      <4> QED BY <2>3, <4>1
    <3>2. CASE w \in (n + 1)..m
      BY <1>1, <3>2
    <3> QED BY <1>2, <2>4, <3>1, <3>2
  <2>5. ASSUME NEW x \in B, x \in W \cup Q PROVE FALSE
    BY <2>2, <2>3, <2>5
  <2> QED BY <2>1, <2>2, <2>4, <2>5 DEF Below
<1>4. \A i \in (latest + 1)..m : i \in missed \/ i \in W \/ i \in Q \/ i \in B \/ i \in Left
  <2> SUFFICES ASSUME NEW i \in (latest + 1)..m, i \notin B
               PROVE  i \in missed \/ i \in W \/ i \in Q \/ i \in Left
    OBVIOUS
  <2>1. i \in (latest + 1)..n \/ i \in (n + 1)..m
    BY <1>1
  <2> QED BY <1>2, <2>1
<1>5. CASE queue' = queue /\ wire' = wire /\ missed' = missed \cup Left
  <2>1. Elements(queue') = Q /\ Elements(wire') = W
    BY <1>5 DEF Q, W
  <2>2. Way' = W \cup Q \cup B
    BY <2>1 DEF Way, B
  <2>3. Ordered'
    <3>1. Below({latest'}, Way')
      BY <1>2, <1>3, <2>2 DEF Below
    <3> QED BY <1>2, <1>3, <1>5, <2>1, <3>1 DEF Ordered, B
  <2>4. Way' \cap missed' = {}
    BY <1>2, <1>3, <1>5, <2>2
  <2>5. (latest' + 1)..Len(committed') \subseteq missed' \cup Way'
    BY <1>4, <1>5, <2>2 DEF m
  <2> QED BY <2>3, <2>4, <2>5 DEF Accounted
<1>6. CASE queue' = <<>> /\ wire' = <<>> /\ missed' = missed \cup Left \cup Q \cup W
  <2>1. Elements(queue') = {} /\ Elements(wire') = {} /\ Rising(queue') /\ Rising(wire')
    BY <1>6, NothingRises
  <2>2. Way' = B
    BY <2>1 DEF Way, B
  <2>3. Ordered'
    <3>1. Below({latest'}, Way')
      BY <1>3, <2>2 DEF Below
    <3>2. /\ Below(Elements(wire'), Elements(queue'))
          /\ Below(Elements(wire'), Elements(arriving'))
          /\ Below(Elements(queue'), Elements(arriving'))
      BY <2>1 DEF Below
    <3> QED BY <1>2, <2>1, <3>1, <3>2 DEF Ordered
  <2>4. Way' \cap missed' = {}
    BY <1>3, <1>6, <2>2
  <2>5. (latest' + 1)..Len(committed') \subseteq missed' \cup Way'
    BY <1>4, <1>6, <2>2 DEF m
  <2> QED BY <2>3, <2>4, <2>5 DEF Accounted
<1> QED BY <1>5, <1>6 DEF Q, W

\* A step that leaves the way alone.
LEMMA SameFlow ==
  ASSUME Ordered, Accounted, UNCHANGED <<committed, arriving, queue, wire, latest, missed>>
  PROVE  Ordered' /\ Accounted'
BY DEF Ordered, Accounted, Way

\* The gateway takes a position that arrived and queues it, sheds for it, or has
\* nobody to queue it for.
LEMMA BroadcastFlow ==
  ASSUME TypeInv, Ordered, Accounted, Broadcast
  PROVE  Ordered' /\ Accounted'
<1> DEFINE n == Len(committed)
           i == Head(arriving)
           full == QueueSize > 0 /\ Len(queue) >= QueueSize
           A == Elements(arriving)
           B == Elements(Tail(arriving))
           Q == Elements(queue)
           R == Elements(queue')
           W == Elements(wire)
<1>1. /\ n \in Nat /\ queue \in Seq(1..n) /\ arriving \in Seq(1..n) /\ latest \in 0..n
      /\ A \subseteq 1..n /\ Q \subseteq 1..n /\ W \subseteq 1..n /\ missed \subseteq 1..n
  BY WayWithin
<1>2. /\ Rising(wire) /\ Rising(queue) /\ Rising(arriving)
      /\ Below(W, Q) /\ Below(W, A) /\ Below(Q, A)
      /\ \A x \in W \cup Q \cup A : latest < x /\ x \notin missed
      /\ \A x \in (latest + 1)..n : x \in missed \/ x \in W \/ x \in Q \/ x \in A
  BY DEF Ordered, Accounted, Way, Below
<1>3. /\ arriving # <<>> /\ arriving' = Tail(arriving)
      /\ queue' = IF ~joined THEN queue ELSE Append(IF full THEN Tail(queue) ELSE queue, i)
      /\ missed' = CASE ~joined -> missed \cup {i}
                     [] joined /\ full -> missed \cup {Head(queue)}
                     [] OTHER -> missed
      /\ committed' = committed /\ wire' = wire /\ latest' = latest
  BY DEF Broadcast, Handle, store
<1>4. /\ i \in 1..n /\ Rising(Tail(arriving)) /\ A = {i} \cup B /\ \A x \in B : i < x
  <2> HIDE DEF n
  <2> QED BY <1>1, <1>2, <1>3, TailRises
<1>5. full => queue # <<>>
  <2>1. queue = <<>> => Len(queue) = 0
    BY EmptySeq
  <2> QED BY <2>1, LiveViewAssumption
<1>6. full => /\ Tail(queue) \in Seq(1..n) /\ Rising(Tail(queue))
              /\ Q = {Head(queue)} \cup Elements(Tail(queue))
              /\ \A x \in Elements(Tail(queue)) : Head(queue) < x
  <2> HIDE DEF n, full
  <2> QED BY <1>1, <1>2, <1>5, TailRises
<1> DEFINE rest == IF full THEN Tail(queue) ELSE queue
<1>7. /\ rest \in Seq(1..n) /\ Rising(rest) /\ Elements(rest) \subseteq Q
      /\ \A x \in Elements(rest) : x < i
  <2>1. rest \in Seq(1..n) /\ Rising(rest) /\ Elements(rest) \subseteq Q
    BY <1>1, <1>2, <1>6
  <2> QED BY <1>2, <1>4, <2>1 DEF Below
<1>8. /\ Rising(Append(rest, i)) /\ Elements(Append(rest, i)) = Elements(rest) \cup {i}
  <2> HIDE DEF n, i, rest
  <2> QED BY <1>1, <1>4, <1>7, AppendRises
<1>9. /\ Rising(queue')
      /\ R \subseteq Q \cup {i}
      /\ \A x \in R : x \notin missed'
      /\ \A x \in missed' : x \in missed \/ x = i \/ x \in Q
      /\ \A x \in W \cup B : x \notin missed'
      /\ \A x \in Q \cup {i} : x \in R \/ x \in missed'
      /\ missed \subseteq missed'
      /\ \A x \in R, b \in B : x < b
  <2>0. /\ \A x \in W : x \in Int /\ x # i /\ x \notin Q
        /\ \A x \in B : x # i /\ x \notin Q /\ x \notin missed
        /\ \A x \in Q : x # i /\ x \in Int /\ x < i
        /\ i \notin missed /\ i \in A /\ B \subseteq A
    <3>1. i \in A /\ B \subseteq A /\ i \notin missed
      BY <1>2, <1>4
    <3>2. \A x \in W \cup Q : x < i /\ x \in Int
      BY <1>1, <1>2, <3>1 DEF Below
    <3>3. \A x \in W, q \in Q : x < q
      BY <1>2 DEF Below
    <3>4. \A x \in B : i < x /\ x \in Int /\ x \notin missed
      BY <1>1, <1>2, <1>4, <3>1
    <3>5. i \in Int
      BY <1>1, <3>1
    <3> HIDE DEF i, A, B, Q, W
    <3>6. \A x \in B : x \notin Q /\ x # i
      BY <3>2, <3>4, <3>5
    <3>7. \A x \in W : x \notin Q
      BY <3>2, <3>3
    <3> QED BY <3>1, <3>2, <3>4, <3>5, <3>6, <3>7
  <2>1. \A x \in Q, b \in B : x < b
    BY <1>2, <2>0 DEF Below
  <2> HIDE DEF A, B, W, full, i
  <2>2. CASE ~joined
    <3>1. queue' = queue /\ missed' = missed \cup {i} /\ R = Q
      BY <1>3, <2>2
    <3> HIDE DEF Q, R
    <3> QED BY <1>2, <2>0, <2>1, <2>2, <3>1
  <2>3. CASE joined /\ full
    <3>1. queue' = Append(rest, i) /\ missed' = missed \cup {Head(queue)} /\ rest = Tail(queue)
      BY <1>3, <2>3
    <3>2. Q = {Head(queue)} \cup Elements(rest) /\ \A x \in Elements(rest) : Head(queue) < x
      BY <1>6, <2>3, <3>1
    <3>3. R = Elements(rest) \cup {i} /\ Rising(queue')
      BY <1>8, <3>1
    <3> DEFINE h == Head(queue)
               S == Elements(rest)
    <3>4. h \in Int /\ h # i /\ h \notin S /\ h \notin W /\ h \notin B /\ h \in Q /\ S \subseteq Q
      BY <2>0, <3>2
    <3> HIDE DEF Q, R, h, S, rest
    <3>5. R = S \cup {i} /\ Q = {h} \cup S /\ missed' = missed \cup {h}
      BY <3>1, <3>2, <3>3 DEF h, S
    <3>6. \A x \in R : x \notin missed'
      BY <1>2, <2>0, <3>4, <3>5
    <3>7. \A x \in W \cup B : x \notin missed'
      BY <1>2, <2>0, <3>4, <3>5
    <3>8. \A x \in R, b \in B : x < b
      BY <1>4, <2>1, <3>4, <3>5 DEF i
    <3> QED BY <3>3, <3>4, <3>5, <3>6, <3>7, <3>8
  <2>4. CASE joined /\ ~full
    <3>1. queue' = Append(rest, i) /\ missed' = missed /\ rest = queue
      BY <1>3, <2>4
    <3>2. R = Q \cup {i} /\ Rising(queue')
      BY <1>8, <3>1
    <3> HIDE DEF Q, R, rest
    <3>3. \A x \in R, b \in B : x < b
      BY <1>4, <2>1, <3>2 DEF i
    <3> QED BY <1>2, <2>0, <2>1, <2>4, <3>1, <3>2, <3>3
  <2> QED BY <2>2, <2>3, <2>4
<1>10. /\ Below(W, R) /\ Below(W, B) /\ Below(R, B)
       /\ \A x \in W \cup R \cup B : latest < x
  <2>1. i \in A /\ B \subseteq A
    BY <1>4
  <2> HIDE DEF A, B, W, Q, R, i
  <2> QED BY <1>2, <1>9, <2>1 DEF Below
<1>11. Ordered'
  <2>1. Way' = W \cup R \cup B
    BY <1>3 DEF Way
  <2> HIDE DEF A, B, W, Q, R, i
  <2>2. Below({latest'}, Way')
    BY <1>3, <1>10, <2>1 DEF Below
  <2>3. Elements(wire') = W /\ Elements(queue') = R /\ Elements(arriving') = B
    BY <1>3 DEF W, R, B
  <2> QED BY <1>2, <1>3, <1>4, <1>9, <1>10, <2>2, <2>3 DEF Ordered
<1>12. Accounted'
  <2>1. Way' = W \cup R \cup B
    BY <1>3 DEF Way
  <2> HIDE DEF A, B, W, Q, R, i
  <2>2. Way' \cap missed' = {}
    BY <1>9, <2>1
  <2>3. \A x \in (latest + 1)..n : x \in missed' \/ x \in Way'
    BY <1>2, <1>4, <1>9, <2>1
  <2>4. Len(committed') = n /\ latest' = latest
    BY <1>3
  <2> HIDE DEF n
  <2>5. (latest' + 1)..Len(committed') \subseteq missed' \cup Way'
    BY <2>3, <2>4
  <2> QED BY <2>2, <2>5 DEF Accounted
<1> QED BY <1>11, <1>12

\* The pump sends the oldest message of the queue.
LEMMA PumpFlow ==
  ASSUME TypeInv, Ordered, Accounted, Pump
  PROVE  Ordered' /\ Accounted'
<1> DEFINE n == Len(committed)
           h == Head(queue)
           A == Elements(arriving)
           Q == Elements(queue)
           R == Elements(Tail(queue))
           W == Elements(wire)
<1>1. /\ n \in Nat /\ queue \in Seq(1..n) /\ wire \in Seq(1..n)
      /\ Q \subseteq 1..n /\ W \subseteq 1..n
  BY WayWithin
<1>2. /\ Rising(wire) /\ Rising(queue) /\ Rising(arriving)
      /\ Below(W, Q) /\ Below(W, A) /\ Below(Q, A) /\ Below({latest}, Way)
  BY DEF Ordered
<1>3. /\ queue # <<>> /\ wire' = Append(wire, h) /\ queue' = Tail(queue)
      /\ committed' = committed /\ arriving' = arriving /\ latest' = latest /\ missed' = missed
  BY DEF Pump, source, store
<1>4. /\ h \in 1..n /\ Rising(Tail(queue)) /\ Q = {h} \cup R /\ \A x \in R : h < x
  <2> HIDE DEF n
  <2> QED BY <1>1, <1>2, <1>3, TailRises
<1>5. \A x \in W : x < h
  <2> HIDE DEF h, R
  <2> QED BY <1>2, <1>4 DEF Below
<1>6. Rising(wire') /\ Elements(wire') = W \cup {h}
  <2> HIDE DEF n, h
  <2> QED BY <1>1, <1>2, <1>3, <1>4, <1>5, AppendRises
<1>7. Elements(queue') = R /\ Elements(arriving') = A
  BY <1>3
<1>8. Way' = Way
  <2>1. Way' = (W \cup {h}) \cup R \cup A /\ Way = W \cup Q \cup A
    BY <1>6, <1>7 DEF Way
  <2> HIDE DEF W, R, A, Q, h
  <2> QED BY <1>4, <2>1
<1> HIDE DEF n, h, A, Q, R, W
<1>9. Below(W \cup {h}, R) /\ Below(W \cup {h}, A) /\ Below(R, A)
  BY <1>2, <1>4 DEF Below
<1> QED BY <1>2, <1>3, <1>4, <1>6, <1>7, <1>8, <1>9 DEF Ordered, Accounted

\* The browser handles the oldest frame.
LEMMA MessageFlow ==
  ASSUME TypeInv, Ordered, Accounted, OnMessage
  PROVE  /\ Ordered' /\ Accounted'
         /\ Head(wire) \in 1..Len(committed) /\ latest < Head(wire) /\ Head(wire) \notin missed
         /\ (latest + 1)..(Head(wire) - 1) \subseteq missed
<1> DEFINE n == Len(committed)
           h == Head(wire)
           A == Elements(arriving)
           Q == Elements(queue)
           V == Elements(Tail(wire))
           W == Elements(wire)
<1>1. /\ n \in Nat /\ wire \in Seq(1..n) /\ latest \in 0..n
      /\ A \subseteq 1..n /\ Q \subseteq 1..n /\ W \subseteq 1..n
  BY WayWithin
<1>2. /\ Rising(wire) /\ Rising(queue) /\ Rising(arriving)
      /\ Below(W, Q) /\ Below(W, A) /\ Below(Q, A)
      /\ Way = W \cup Q \cup A /\ Below({latest}, Way) /\ Way \cap missed = {}
      /\ (latest + 1)..n \subseteq missed \cup Way
  BY DEF Ordered, Accounted, Way
<1>3. /\ wire # <<>> /\ wire' = Tail(wire) /\ latest' = h
      /\ committed' = committed /\ arriving' = arriving /\ queue' = queue /\ missed' = missed
  BY DEF OnMessage, source
<1>4. /\ h \in 1..n /\ Rising(Tail(wire)) /\ W = {h} \cup V /\ \A x \in V : h < x
  <2> HIDE DEF n
  <2> QED BY <1>1, <1>2, <1>3, TailRises
<1>5. Way' = V \cup Q \cup A
  BY <1>3 DEF Way
<1>6. Elements(queue') = Q /\ Elements(arriving') = A /\ Elements(wire') = V
  BY <1>3
<1>7. \A x \in Way' : h < x
  <2> HIDE DEF h, A, Q, V, W
  <2> QED BY <1>2, <1>4, <1>5 DEF Below
<1>8. \A i \in (latest + 1)..n : i \in missed \/ i = h \/ i \in Way'
  <2> HIDE DEF h, A, Q, V, W
  <2> QED BY <1>2, <1>4, <1>5
<1>9. h \in Way /\ Way' \subseteq Way
  <2> HIDE DEF h, A, Q, V, W
  <2> QED BY <1>2, <1>4, <1>5
<1>10. latest < h /\ h \notin missed /\ Way' \cap missed' = {}
  BY <1>2, <1>3, <1>9 DEF Below
<1>11. (h + 1)..n \subseteq missed \cup Way'
  <2> SUFFICES ASSUME NEW i \in (h + 1)..n PROVE i \in missed \cup Way'
    OBVIOUS
  <2>1. i \in (latest + 1)..n /\ i # h
    BY <1>1, <1>4, <1>10
  <2> QED BY <1>8, <2>1
<1>12. (latest + 1)..(h - 1) \subseteq missed
  <2> SUFFICES ASSUME NEW i \in (latest + 1)..(h - 1) PROVE i \in missed
    OBVIOUS
  <2>1. i \in (latest + 1)..n /\ i # h /\ ~(h < i)
    BY <1>1, <1>4
  <2> QED BY <1>7, <1>8, <2>1
<1>13. Below({latest'}, Way')
  BY <1>3, <1>7 DEF Below
<1> HIDE DEF A, Q, V, W
<1>14. Below(V, Q) /\ Below(V, A)
  BY <1>2, <1>4 DEF Below
<1>15. Ordered'
  BY <1>2, <1>3, <1>4, <1>6, <1>13, <1>14 DEF Ordered
<1>16. (latest' + 1)..Len(committed') \subseteq missed' \cup Way'
  BY <1>3, <1>11
<1> QED BY <1>4, <1>10, <1>12, <1>15, <1>16 DEF Accounted

\* Which steps touch the socket.
LEMMA StepSocket == TypeInv /\ SocketInv /\ [Next]_vars => SocketInv'
<1> SUFFICES ASSUME TypeInv, SocketInv, [Next]_vars PROVE SocketInv'
  OBVIOUS
<1>1. CASE UNCHANGED <<joined, queue, wire, socket>>
  BY <1>1 DEF SocketInv
<1>2. CASE Hangup
  BY <1>2 DEF Hangup, SocketInv
<1>3. CASE GatewayGoes
  BY <1>1, <1>2, <1>3 DEF GatewayGoes, tab
<1>4. CASE Broadcast
  BY <1>4 DEF Broadcast, SocketInv
<1>5. CASE Join \/ Open \/ Refused \/ Reconnect
  BY <1>5 DEF Join, Open, Refused, Reconnect, SocketInv
<1>6. CASE Pump
  BY <1>6 DEF Pump, SocketInv
<1>7. CASE Break
  BY <1>2, <1>7 DEF Break
<1>8. CASE OnMessage
  BY <1>8 DEF OnMessage, SocketInv
<1>9. CASE \/ \E o \in Orders, ks \in SUBSET Keys : Place(o, ks)
           \/ SourceUpkeep \/ GatewayStarts \/ Hydrate \/ FetchFails
           \/ \E r \in {"orders", "stock"} : Read(r)
  BY <1>1, <1>9 DEF Place, SourceUpkeep, GatewayStarts, Hydrate, FetchFails, Read, tab
<1>10. CASE UNCHANGED vars
  BY <1>1, <1>10 DEF vars, tab
<1> QED BY <1>3, <1>4, <1>5, <1>6, <1>7, <1>8, <1>9, <1>10 DEF Next

\* The steps of the listener that the tab is not asked about, and those that take
\* its connection away.
LEMMA ListenerStepFlow ==
  ASSUME FlowInv,
         \/ \E o \in Orders, ks \in SUBSET Keys : Place(o, ks)
         \/ SourceUpkeep \/ GatewayGoes
  PROVE  Ordered' /\ Accounted'
<1>1. SourceInv' /\ Grows
  <2>1. SourceStep
    BY DEF Place, SourceUpkeep, GatewayGoes, SourceStep
  <2> QED BY <2>1, SourceKeeps DEF FlowInv, TypeInv
<1>2. Len(committed') \in Nat
  BY <1>1, LenProperties DEF SourceInv, SourceTypeOK
<1>3. latest' = latest
  BY DEF Place, SourceUpkeep, GatewayGoes, store
<1>4. \/ queue' = queue /\ wire' = wire /\ missed' = missed \cup Left
      \/ /\ queue' = <<>> /\ wire' = <<>>
         /\ missed' = missed \cup Left \cup Elements(queue) \cup Elements(wire)
  <2>1. CASE GatewayGoes
    <3>1. missed' = missed \cup Left \cup Elements(queue) \cup Elements(wire)
      BY <2>1 DEF GatewayGoes
    <3>2. queue' = <<>> /\ wire' = <<>>
      BY <2>1 DEF GatewayGoes, Hangup, tab, FlowInv, SocketInv
    <3> QED BY <3>1, <3>2
  <2> QED BY <2>1 DEF Place, SourceUpkeep, tab
<1> QED BY <1>1, <1>2, <1>3, <1>4, ListenerFlow DEF FlowInv

\* The connection breaks.
LEMMA BreakFlow ==
  ASSUME FlowInv, Break
  PROVE  Ordered' /\ Accounted'
<1>1. /\ committed' = committed /\ arriving' = arriving /\ latest' = latest
      /\ queue' = <<>> /\ wire' = <<>>
      /\ missed' = missed \cup Elements(queue) \cup Elements(wire)
  BY DEF Break, Hangup, store
<1>2. Len(committed) \in Nat /\ Grows
  <2>1. Len(committed) \in Nat
    BY WayWithin DEF FlowInv
  <2> QED BY <1>1, <2>1 DEF Grows
<1>3. Left = {}
  BY <1>1, <1>2 DEF Left
<1>4. missed' = missed \cup Left \cup Elements(queue) \cup Elements(wire)
  BY <1>1, <1>3
<1> QED BY <1>1, <1>2, <1>4, ListenerFlow DEF FlowInv

\* Nothing is on its way at first.
LEMMA InitFlow == Init => FlowInv
<1> SUFFICES ASSUME Init PROVE FlowInv
  OBVIOUS
<1>1. /\ committed = <<>> /\ arriving = <<>> /\ queue = <<>> /\ wire = <<>>
      /\ latest = 0 /\ missed = {}
  BY DEF Init, SourceInit
<1>2. /\ Elements(arriving) = {} /\ Elements(queue) = {} /\ Elements(wire) = {}
      /\ Rising(arriving) /\ Rising(queue) /\ Rising(wire) /\ Way = {}
  BY <1>1, NothingRises DEF Way
<1>3. Ordered
  BY <1>2 DEF Ordered, Below
<1>4. Accounted
  BY <1>1, <1>2 DEF Accounted
<1>5. SocketInv
  BY DEF Init, SocketInv
<1> QED BY <1>3, <1>4, <1>5, InitType DEF FlowInv

\* Every step keeps what is on its way in order and accounted for.
LEMMA StepFlow == FlowInv /\ [Next]_vars => FlowInv'
<1> SUFFICES ASSUME FlowInv, [Next]_vars PROVE Ordered' /\ Accounted'
  BY StepType, StepSocket DEF FlowInv
<1>0. TypeInv /\ Ordered /\ Accounted
  BY DEF FlowInv
<1>1. CASE UNCHANGED <<committed, arriving, queue, wire, latest, missed>>
  BY <1>0, <1>1, SameFlow
<1>2. CASE \/ \E o \in Orders, ks \in SUBSET Keys : Place(o, ks)
           \/ SourceUpkeep \/ GatewayGoes
  BY <1>2, ListenerStepFlow
<1>3. CASE Broadcast
  BY <1>0, <1>3, BroadcastFlow
<1>4. CASE Pump
  BY <1>0, <1>4, PumpFlow
<1>5. CASE Break
  BY <1>5, BreakFlow
<1>6. CASE OnMessage
  BY <1>0, <1>6, MessageFlow
<1>7. CASE GatewayStarts \/ Join \/ Open \/ Refused \/ Reconnect
  BY <1>1, <1>7 DEF GatewayStarts, Start, Join, Open, Refused, Reconnect, source, store, tab
<1>8. CASE Hydrate \/ FetchFails \/ \E r \in {"orders", "stock"} : Read(r)
  BY <1>1, <1>8 DEF Hydrate, FetchFails, Read, source, store, tab
<1>9. CASE UNCHANGED vars
  BY <1>1, <1>9 DEF vars, source, store, tab
<1> QED BY <1>2, <1>3, <1>4, <1>5, <1>6, <1>7, <1>8, <1>9 DEF Next

\* Rising sequences, one after the other.
LEMMA ConcatRises ==
  ASSUME NEW S, NEW s \in Seq(S), NEW t \in Seq(S), Rising(s), Rising(t),
         Below(Elements(s), Elements(t))
  PROVE  /\ s \o t \in Seq(S) /\ Rising(s \o t)
         /\ Elements(s \o t) \subseteq Elements(s) \cup Elements(t)
<1> DEFINE st == s \o t
<1>1. /\ Len(s) \in Nat /\ Len(t) \in Nat
      /\ st \in Seq(S) /\ Len(st) = Len(s) + Len(t)
      /\ \A i \in 1..(Len(s) + Len(t)) : st[i] = IF i <= Len(s) THEN s[i] ELSE t[i - Len(s)]
  BY ConcatProperties, LenProperties
<1> HIDE DEF st
<1>2. \A i \in 1..Len(st) :
        \/ i \in 1..Len(s) /\ st[i] = s[i]
        \/ i > Len(s) /\ i - Len(s) \in 1..Len(t) /\ st[i] = t[i - Len(s)]
  BY <1>1
<1>3. Elements(st) \subseteq Elements(s) \cup Elements(t)
  BY <1>2 DEF Elements
<1>4. Rising(st)
  <2> SUFFICES ASSUME NEW i \in 1..Len(st), NEW j \in 1..Len(st), i < j PROVE st[i] < st[j]
    BY DEF Rising
  <2>1. CASE i \in 1..Len(s) /\ j \in 1..Len(s)
    BY <1>1, <1>2, <2>1 DEF Rising
  <2>2. CASE i \in 1..Len(s) /\ j > Len(s)
    <3>1. s[i] \in Elements(s) /\ t[j - Len(s)] \in Elements(t)
      BY <1>1, <1>2, <2>2 DEF Elements
    <3>2. st[i] = s[i] /\ st[j] = t[j - Len(s)]
      BY <1>1, <1>2, <2>2
    <3> QED BY <3>1, <3>2 DEF Below
  <2>3. CASE i > Len(s)
    <3>1. /\ i - Len(s) \in 1..Len(t) /\ st[i] = t[i - Len(s)]
          /\ j - Len(s) \in 1..Len(t) /\ st[j] = t[j - Len(s)]
          /\ i - Len(s) < j - Len(s)
      BY <1>1, <1>2, <2>3
    <3> QED BY <3>1 DEF Rising
  <2> QED BY <1>2, <2>1, <2>2, <2>3
<1> QED BY <1>1, <1>3, <1>4 DEF st

\* What the tab has applied, then what is on its way, is one rising sequence.
LEMMA WayRises == FlowInv => InOrder
<1> SUFFICES ASSUME FlowInv PROVE InOrder
  OBVIOUS
<1> DEFINE one == <<latest>>
           two == one \o wire
           three == two \o queue
           four == three \o arriving
<1>1. /\ one \in Seq(Nat) /\ wire \in Seq(Nat) /\ queue \in Seq(Nat) /\ arriving \in Seq(Nat)
  <2>1. /\ latest \in Nat /\ Len(committed) \in Nat
        /\ wire \in Seq(1..Len(committed)) /\ queue \in Seq(1..Len(committed))
        /\ arriving \in Seq(1..Len(committed))
    BY WayWithin DEF FlowInv
  <2>2. 1..Len(committed) \subseteq Nat
    BY <2>1
  <2> QED BY <2>1, <2>2, SeqMonotonic
<1>2. /\ Rising(wire) /\ Rising(queue) /\ Rising(arriving)
      /\ Below(Elements(wire), Elements(queue))
      /\ Below(Elements(wire), Elements(arriving))
      /\ Below(Elements(queue), Elements(arriving))
      /\ Below({latest}, Elements(wire)) /\ Below({latest}, Elements(queue))
      /\ Below({latest}, Elements(arriving))
  BY DEF FlowInv, Ordered, Below, Way
<1>3. Rising(one) /\ Elements(one) = {latest}
  <2>1. Len(one) = 1 /\ one[1] = latest
    OBVIOUS
  <2>2. \A i \in 1..Len(one) : i = 1
    BY <2>1
  <2>3. Elements(one) \subseteq {latest}
    BY <2>1, <2>2 DEF Elements
  <2>4. latest \in Elements(one)
    BY <2>1 DEF Elements
  <2> HIDE DEF one
  <2>5. Rising(one)
    BY <2>2 DEF Rising
  <2> QED BY <2>3, <2>4, <2>5
<1> HIDE DEF one
<1>4. two \in Seq(Nat) /\ Rising(two) /\ Elements(two) \subseteq {latest} \cup Elements(wire)
  <2>1. Below(Elements(one), Elements(wire))
    BY <1>2, <1>3
  <2> QED BY <1>1, <1>2, <1>3, <2>1, ConcatRises
<1> HIDE DEF two
<1>5. Below(Elements(two), Elements(queue)) /\ Below(Elements(two), Elements(arriving))
  BY <1>2, <1>4 DEF Below
<1>6. /\ three \in Seq(Nat) /\ Rising(three)
      /\ Elements(three) \subseteq Elements(two) \cup Elements(queue)
  BY <1>1, <1>2, <1>4, <1>5, ConcatRises
<1> HIDE DEF three
<1>7. Below(Elements(three), Elements(arriving))
  BY <1>2, <1>5, <1>6 DEF Below
<1>8. Rising(four)
  BY <1>1, <1>2, <1>6, <1>7, ConcatRises
<1> QED BY <1>8 DEF InOrder, Rising, one, two, three

\* FlowInv is an invariant.
LEMMA FlowInvariant == Spec => []FlowInv
<1>1. Init => FlowInv
  BY InitFlow
<1>2. FlowInv /\ [Next]_vars => FlowInv'
  BY StepFlow
<1> QED BY <1>1, <1>2, PTL DEF Spec

\* The tab applies each notification at most once and in commit order: what it has
\* applied, what is on the wire, in its queue in the gateway and in the listener's
\* callbacks is one rising sequence, whatever reconnects, restarts, fails or sheds.
THEOREM AppliedInOrder == Spec => []InOrder
<1>1. FlowInv => InOrder
  BY WayRises
<1> QED BY <1>1, FlowInvariant, PTL

\* /healthz is honest: while it reports pg_listener and the link works, a commit's
\* notifications reach the process, whichever channel they are on.
THEOREM HealthReported == Spec => HealthIsHonest
<1> DEFINE Honest ==
      connected /\ link = "alive" /\ committed' # committed =>
        \A i \in (Len(committed) + 1)..Len(committed') :
          \E j \in 1..Len(arriving') : arriving'[j] = i
<1>1. ASSUME TypeInv, [Next]_vars PROVE [Honest]_source
  <2> SUFFICES ASSUME connected, link = "alive", committed' # committed,
                      NEW i \in (Len(committed) + 1)..Len(committed')
               PROVE  i \in Elements(arriving')
    BY DEF Elements
  <2>1. PICK o \in Orders, ks \in SUBSET Keys : Commit(o, ks)
    <3>1. Upkeep \/ Start \/ Handle \/ Stop \/ Stopped \/ Crash => committed' = committed
      BY DEF Upkeep, Connect, ConnectFails, AddListener, Disconnect, Retry, LinkDies,
             Start, Handle, Stop, Stopped, Crash
    <3>2. UNCHANGED source => committed' = committed
      BY DEF source
    <3> QED BY <1>1, <3>1, <3>2
            DEF Next, Place, SourceUpkeep, GatewayGoes, GatewayStarts, Broadcast, Join, Open,
                Pump, Break, Refused, Reconnect, OnMessage, Hydrate, FetchFails, Read, vars
  <2>2. SourceInv /\ Len(committed) \in Nat
    BY <1>1, LenProperties DEF TypeInv, SourceInv, SourceTypeOK
  <2>3. listening = 2
    BY <2>2, TwoChannels DEF SourceInv, Reported
  <2>4. \A note : Hears(note)
    BY <2>3, TwoChannels DEF Hears, ChannelOf
  <2>5. /\ Len(committed') = IF ks = {} THEN Len(committed) + 1 ELSE Len(committed) + 2
        /\ Elements(arriving') = Elements(arriving) \cup {Len(committed) + 1}
                                   \cup (IF ks # {} THEN {Len(committed) + 2} ELSE {})
    BY <2>1, <2>2, <2>4, CommitGrows
  <2>6. i = Len(committed) + 1 \/ (ks # {} /\ i = Len(committed) + 2)
    BY <2>2, <2>5
  <2> QED BY <2>5, <2>6
<1>2. Spec => []TypeInv
  <2>1. Init => TypeInv
    BY InitType
  <2>2. TypeInv /\ [Next]_vars => TypeInv'
    BY StepType
  <2> QED BY <2>1, <2>2, PTL DEF Spec
<1>3. []TypeInv /\ [][Next]_vars => HealthIsHonest
  BY <1>1, PTL DEF HealthIsHonest
<1> QED BY <1>2, <1>3, PTL DEF Spec

-----------------------------------------------------------------------------
(* What the rows show.                                                     *)

\* i is the last notification about s that the tab has applied.
IsLast(s, i) ==
  /\ i \in 1..latest /\ i \notin missed /\ s \in committed[i]
  /\ \A j \in (i + 1)..latest : s \in committed[j] => j \in missed

\* The tab has applied none about s.
Unnamed(s) == \A j \in 1..latest : s \in committed[j] => j \in missed

\* A row about s at position i comes from an event or from the snapshot.
RowFrom(s, r, i) == IsLast(s, i) \/ (fetch = "done" /\ i = LastAt(s, read[r]))

StoreInv ==
  /\ fetch = "done" => read["orders"] # NotRead /\ read["stock"] # NotRead
  /\ \A k \in Keys : \/ RowFrom(k, "stock", stock[k])
                     \/ fetch # "done" /\ stock[k] = NoRow /\ Unnamed(k)
  /\ \A j \in 1..Len(orders) : RowFrom(orders[j].order, "orders", orders[j].at)

\* A step that applies nothing and hydrates nothing: what is missed then is neither
\* applied nor passed over, and what was committed stays.
Passive ==
  /\ Len(committed) <= Len(committed') /\ \A i \in 1..Len(committed) : committed'[i] = committed[i]
  /\ latest' = latest /\ missed \subseteq missed'
  /\ \A i \in missed' \ missed : i > latest
  /\ fetch' = "done" <=> fetch = "done"
  /\ fetch = "done" => read' = read

\* Rows stay what they were.
LEMMA PassiveRow ==
  ASSUME TypeInv, Passive, NEW s
  PROVE  /\ \A i : IsLast(s, i) => IsLast(s, i)'
         /\ Unnamed(s) => Unnamed(s)'
<1>0. Len(committed) \in Nat /\ latest \in 0..Len(committed)
  BY WayWithin
<1>1. /\ latest' = latest /\ missed \subseteq missed'
      /\ \A i \in 1..Len(committed) : committed'[i] = committed[i]
      /\ \A i \in missed' \ missed : i > latest
  BY DEF Passive
<1>2. \A i \in 1..latest : (i \in missed' <=> i \in missed) /\ committed'[i] = committed[i]
  BY <1>0, <1>1
<1>3. ASSUME NEW i, IsLast(s, i) PROVE IsLast(s, i)'
  <2>1. /\ i \in 1..latest /\ i \notin missed /\ s \in committed[i]
        /\ \A j \in (i + 1)..latest : s \in committed[j] => j \in missed
    BY <1>3 DEF IsLast
  <2>2. \A j \in (i + 1)..latest : j \in 1..latest
    BY <1>0, <2>1
  <2> QED BY <1>1, <1>2, <2>1, <2>2 DEF IsLast
<1>4. Unnamed(s) => Unnamed(s)'
  BY <1>1, <1>2 DEF Unnamed
<1> QED BY <1>3, <1>4

\* The snapshot, once there, is that of positions already committed.
LEMMA ReadWithin ==
  ASSUME TypeInv, StoreInv, fetch = "done", NEW r \in {"orders", "stock"}
  PROVE  read[r] \in 0..Len(committed)
<1>1. read \in [{"orders", "stock"} -> 0..Len(committed) \cup {NotRead}]
  BY DEF TypeInv, Typed
<1> QED BY <1>1 DEF StoreInv

\* ... and the store with them.
LEMMA PassiveStore ==
  ASSUME TypeInv, StoreInv, Passive, UNCHANGED <<orders, stock>>
  PROVE  StoreInv'
<1>1. ASSUME NEW s, NEW r \in {"orders", "stock"}, NEW i, RowFrom(s, r, i) PROVE RowFrom(s, r, i)'
  <2>1. CASE IsLast(s, i)
    BY <2>1, PassiveRow DEF RowFrom
  <2>2. CASE fetch = "done" /\ i = LastAt(s, read[r])
    <3>1. read[r] \in 0..Len(committed)
      BY <2>2, ReadWithin
    <3>2. fetch' = "done" /\ read' = read
      BY <2>2 DEF Passive
    <3>3. LastAt(s, read[r])' = LastAt(s, read[r])
      <4> DEFINE p == read[r]
      <4>1. LastAt(s, read[r])' = LastIn(committed', s, p)
        BY <3>2 DEF LastAt, LastIn
      <4>2. LastIn(committed', s, p) = LastIn(committed, s, p)
        <5>1. p \in Nat /\ \A j \in 1..p : committed'[j] = committed[j]
          <6>1. Len(committed) \in Nat
            BY WayWithin
          <6> QED BY <3>1, <6>1 DEF Passive
        <5> HIDE DEF p
        <5> QED BY <5>1, LastInSame
      <4> QED BY <4>1, <4>2, LastAtIn
    <3> QED BY <2>2, <3>2, <3>3 DEF RowFrom
  <2> QED BY <1>1, <2>1, <2>2 DEF RowFrom
<1>2. fetch' = "done" => read'["orders"] # NotRead /\ read'["stock"] # NotRead
  BY DEF StoreInv, Passive
<1>3. ASSUME NEW k \in Keys
      PROVE  (\/ RowFrom(k, "stock", stock[k])
              \/ fetch # "done" /\ stock[k] = NoRow /\ Unnamed(k))'
  <2>1. CASE RowFrom(k, "stock", stock[k])
    <3> DEFINE i == stock[k]
    <3>1. RowFrom(k, "stock", stock[k])' <=> RowFrom(k, "stock", i)'
      OBVIOUS
    <3> QED BY <1>1, <2>1
  <2>2. CASE fetch # "done" /\ stock[k] = NoRow /\ Unnamed(k)
    BY <2>2, PassiveRow DEF Passive
  <2> QED BY <2>1, <2>2 DEF StoreInv
<1>4. ASSUME NEW j \in 1..Len(orders)
      PROVE  RowFrom(orders[j].order, "orders", orders[j].at)'
  BY <1>1 DEF StoreInv
<1> QED BY <1>2, <1>3, <1>4 DEF StoreInv

\* The steps that apply nothing and hydrate nothing.
LEMMA PassiveStep ==
  ASSUME FlowInv, [Next]_vars, ~OnMessage, ~Hydrate
  PROVE  Passive /\ UNCHANGED <<orders, stock>>
<1> DEFINE new == (Len(committed) + 1)..Len(committed')
<1>0. /\ Len(committed) \in Nat /\ latest \in 0..Len(committed)
      /\ \A x \in Way : latest < x
  BY WayWithin DEF FlowInv, Ordered, Below
<1>1. /\ Len(committed) <= Len(committed')
      /\ \A i \in 1..Len(committed) : committed'[i] = committed[i]
  <2>1. CASE committed' = committed
    BY <1>0, <2>1
  <2>2. CASE SourceStep
    BY <2>2, SourceKeeps DEF FlowInv, TypeInv, Grows
  <2> QED BY <2>1, <2>2
          DEF Next, Place, SourceUpkeep, GatewayGoes, GatewayStarts, Broadcast, Join, Open, Pump,
              Break, Refused, Reconnect, FetchFails, Read, vars, source, SourceStep
<1>2. Elements(arriving) \subseteq Way /\ Elements(queue) \subseteq Way /\ Elements(wire) \subseteq Way
  BY DEF Way
<1>3. missed' \in {missed, missed \cup Left, missed \cup Left \cup Elements(queue) \cup Elements(wire),
                   missed \cup Elements(queue) \cup Elements(wire)} \/ Broadcast
  BY DEF Next, Place, SourceUpkeep, GatewayGoes, GatewayStarts, Join, Open, Pump,
         Break, Refused, Reconnect, FetchFails, Read, vars
<1>4. missed \subseteq missed' /\ \A i \in missed' \ missed : i \in Way \/ i \in new
  <2>1. Left \subseteq Way \cup new
    BY <1>2 DEF Left
  <2>2. CASE Broadcast
    <3> DEFINE full == QueueSize > 0 /\ Len(queue) >= QueueSize
    <3>1. /\ arriving # <<>>
          /\ \/ missed' = missed \cup {Head(arriving)}
             \/ full /\ missed' = missed \cup {Head(queue)}
             \/ missed' = missed
      BY <2>2 DEF Broadcast, Handle
    <3>2. full => queue # <<>>
      <4>1. queue = <<>> => Len(queue) = 0
        BY EmptySeq
      <4> QED BY <4>1, LiveViewAssumption
    <3>3. Head(arriving) \in Elements(arriving)
      BY <3>1, WayWithin, HeadIsElement DEF FlowInv
    <3>4. full => Head(queue) \in Elements(queue)
      <4> HIDE DEF full
      <4> QED BY <3>2, WayWithin, HeadIsElement DEF FlowInv
    <3> HIDE DEF full
    <3> QED BY <1>2, <3>1, <3>3, <3>4
  <2> HIDE DEF new
  <2> QED BY <1>2, <1>3, <2>1, <2>2
<1>5. \A i \in missed' \ missed : i > latest
  <2> SUFFICES ASSUME NEW i \in missed' \ missed PROVE i > latest
    OBVIOUS
  <2>1. CASE i \in new
    BY <1>0, <2>1
  <2>2. CASE i \in Way
    BY <1>0, <2>2
  <2> HIDE DEF new
  <2> QED BY <1>4, <2>1, <2>2
<1>6. /\ orders' = orders /\ stock' = stock /\ latest' = latest
      /\ fetch' = "done" <=> fetch = "done"
      /\ fetch = "done" => read' = read
  BY DEF Next, Place, SourceUpkeep, GatewayGoes, GatewayStarts, Broadcast, Join, Open, Pump,
         Break, Refused, Reconnect, FetchFails, Read, vars, store, snapshot
<1> QED BY <1>1, <1>4, <1>5, <1>6 DEF Passive

\* An event is applied: its rows show it, and every other row stays what it was.
LEMMA MessageStore ==
  ASSUME FlowInv, StoreInv, OnMessage
  PROVE  StoreInv'
<1>0. PICK i : i = Head(wire)
  OBVIOUS
<1> DEFINE note == committed[i]
           o == CHOOSE o \in note : TRUE
<1>1. /\ latest' = i /\ committed' = committed /\ missed' = missed
      /\ orders' = IF note \subseteq Orders THEN ApplyOrder(o, i) ELSE orders
      /\ stock' = IF note \subseteq Orders THEN stock ELSE ApplyStock(note, i)
      /\ fetch' = fetch /\ read' = read
  BY <1>0 DEF OnMessage, source, snapshot
<1>2. /\ i \in 1..Len(committed) /\ latest < i /\ i \notin missed
      /\ (latest + 1)..(i - 1) \subseteq missed
      /\ Len(committed) \in Nat /\ latest \in 0..Len(committed)
  BY <1>0, MessageFlow, WayWithin DEF FlowInv
<1>3. note \in Notes
  BY <1>2, ElementOfSeq DEF FlowInv, TypeInv, SourceInv, SourceTypeOK
<1>4. \/ o \in Orders /\ note = {o} /\ note \subseteq Orders
      \/ note \subseteq Keys /\ note # {} /\ ~(note \subseteq Orders)
  BY <1>3, SubjectsAssumption DEF Notes
<1> HIDE DEF note, o
<1>5. ASSUME NEW s \in note PROVE IsLast(s, i)'
  <2>1. i \in 1..i /\ \A j \in (i + 1)..i : FALSE
    BY <1>2
  <2>2. i \in 1..latest' /\ i \notin missed' /\ s \in committed'[i]
    BY <1>1, <1>2, <1>5, <2>1 DEF note
  <2>3. \A j \in (i + 1)..latest' : s \in committed'[j] => j \in missed'
    BY <1>1, <2>1
  <2> QED BY <1>1, <2>2, <2>3 DEF IsLast
<1>6. ASSUME NEW s, s \notin note
      PROVE  /\ \A p : IsLast(s, p) => IsLast(s, p)'
             /\ Unnamed(s) => Unnamed(s)'
  <2>1. \A j \in 1..i : j \in 1..latest \/ j \in missed \/ j = i
    BY <1>2
  <2>2. \A j \in (latest + 1)..i : s \in committed[j] => j \in missed
    BY <1>2, <1>6, <2>1 DEF note
  <2>3. ASSUME NEW p, IsLast(s, p) PROVE IsLast(s, p)'
    <3>1. /\ p \in 1..latest /\ p \notin missed /\ s \in committed[p]
          /\ \A j \in (p + 1)..latest : s \in committed[j] => j \in missed
      BY <2>3 DEF IsLast
    <3>2. p \in 1..i /\ \A j \in (p + 1)..i : j \in (p + 1)..latest \/ j \in (latest + 1)..i
      BY <1>2, <3>1
    <3>3. \A j \in (p + 1)..i : s \in committed[j] => j \in missed
      BY <2>2, <3>1, <3>2
    <3> QED BY <1>1, <3>1, <3>2, <3>3 DEF IsLast
  <2>4. Unnamed(s) => Unnamed(s)'
    <3>1. \A j \in 1..i : j \in 1..latest \/ j \in (latest + 1)..i
      BY <1>2
    <3> QED BY <1>1, <2>2, <3>1 DEF Unnamed
  <2> QED BY <2>3, <2>4
<1>7. ASSUME NEW s, s \notin note, NEW r, NEW p, RowFrom(s, r, p) PROVE RowFrom(s, r, p)'
  <2>1. LastAt(s, read[r])' = LastAt(s, read[r])
    BY <1>1 DEF LastAt
  <2> QED BY <1>1, <1>6, <1>7, <2>1 DEF RowFrom
<1>8. ASSUME NEW k \in Keys
      PROVE  (\/ RowFrom(k, "stock", stock[k])
              \/ fetch # "done" /\ stock[k] = NoRow /\ Unnamed(k))'
  <2>0. stock \in [Keys -> 0..Len(committed) \cup {NoRow}]
    BY DEF FlowInv, TypeInv, Typed
  <2>1. CASE k \in note
    <3>1. ~(note \subseteq Orders)
      BY <1>4, <2>1, SubjectsAssumption
    <3>2. stock'[k] = i
      BY <1>1, <2>0, <2>1, <3>1 DEF ApplyStock
    <3> QED BY <1>5, <2>1, <3>2 DEF RowFrom
  <2>2. CASE k \notin note
    <3>1. stock'[k] = stock[k]
      BY <1>1, <2>0, <2>2 DEF ApplyStock
    <3>2. CASE RowFrom(k, "stock", stock[k])
      BY <1>7, <2>2, <3>1, <3>2
    <3>3. CASE fetch # "done" /\ stock[k] = NoRow /\ Unnamed(k)
      BY <1>1, <1>6, <2>2, <3>1, <3>3
    <3> QED BY <3>2, <3>3 DEF StoreInv
  <2> QED BY <2>1, <2>2
<1>9. ASSUME NEW j \in 1..Len(orders')
      PROVE  RowFrom(orders[j].order, "orders", orders[j].at)'
  <2>1. ASSUME NEW m \in 1..Len(orders), orders'[j] = orders[m], orders[m].order \notin note
        PROVE  RowFrom(orders[j].order, "orders", orders[j].at)'
    BY <1>7, <2>1 DEF StoreInv
  <2>2. CASE note \subseteq Orders
    <3>1. orders' = ApplyOrder(o, i) /\ o \in Orders /\ note = {o}
      BY <1>1, <1>4, <2>2
    <3>2. /\ orders \in Seq([order : Orders, at : 1..Len(committed)])
          /\ Len(orders) <= MaxRows /\ NoOrderTwice(orders)
      BY DEF FlowInv, TypeInv, Typed, Bounded
    <3>3. \/ orders'[j] = [order |-> o, at |-> i]
          \/ \E m \in 1..Len(orders) : orders[m] = orders'[j] /\ orders[m].order # o
      <4>1. Updated(ApplyOrder(o, i), orders, o, i)
        BY <1>2, <3>1, <3>2, ApplyOrderType
      <4> QED BY <3>1, <4>1 DEF Updated
    <3>4. CASE orders'[j] = [order |-> o, at |-> i]
      <4>1. orders'[j].order = o /\ orders'[j].at = i /\ o \in note
        BY <3>1, <3>4
      <4> QED BY <1>5, <4>1 DEF RowFrom
    <3> QED BY <2>1, <3>1, <3>3, <3>4
  <2>3. CASE ~(note \subseteq Orders)
    <3>1. orders' = orders /\ note \subseteq Keys
      BY <1>1, <1>4, <2>3
    <3>2. orders[j].order \in Orders
      <4>1. orders \in Seq([order : Orders, at : 1..Len(committed)])
        BY DEF FlowInv, TypeInv, Typed
      <4>2. orders[j] \in [order : Orders, at : 1..Len(committed)]
        BY <3>1, <4>1, ElementOfSeq
      <4> QED BY <4>2
    <3>3. orders[j].order \notin note
      BY <3>1, <3>2, SubjectsAssumption
    <3> QED BY <2>1, <3>1, <3>3
  <2> QED BY <2>2, <2>3
<1> QED BY <1>1, <1>8, <1>9 DEF StoreInv

\* The snapshot replaces every row.
LEMMA HydrateStore ==
  ASSUME FlowInv, StoreInv, Hydrate
  PROVE  StoreInv'
<1>1. /\ \A r \in {"orders", "stock"} : read[r] # NotRead
      /\ orders' = OrdersAt(read["orders"])
      /\ stock' = [k \in Keys |-> LastAt(k, read["stock"])]
      /\ fetch' = "done" /\ read' = read /\ committed' = committed
  BY DEF Hydrate, source
<1>2. read["orders"] \in 0..Len(committed)
  BY <1>1 DEF FlowInv, TypeInv, Typed
<1>3. ASSUME NEW s, NEW r PROVE LastAt(s, read[r])' = LastAt(s, read[r])
  BY <1>1 DEF LastAt
<1>4. \A j \in 1..Len(orders') : orders'[j].at = LastAt(orders'[j].order, read["orders"])
  BY <1>1, <1>2, OrdersAtType DEF FlowInv, TypeInv
<1>5. ASSUME NEW k \in Keys PROVE RowFrom(k, "stock", stock[k])'
  BY <1>1, <1>3 DEF RowFrom
<1>6. ASSUME NEW j \in 1..Len(orders')
      PROVE  RowFrom(orders[j].order, "orders", orders[j].at)'
  <2>1. LastAt(orders[j].order, read["orders"])' = LastAt(orders'[j].order, read["orders"])
    BY <1>1 DEF LastAt
  <2> QED BY <1>1, <1>4, <2>1 DEF RowFrom
<1> QED BY <1>1, <1>5, <1>6 DEF StoreInv

\* No row at first.
LEMMA InitStore == Init => StoreInv
<1> SUFFICES ASSUME Init PROVE StoreInv
  OBVIOUS
<1>1. /\ fetch = "reading" /\ orders = <<>> /\ latest = 0
      /\ stock = [k \in Keys |-> NoRow]
  BY DEF Init
<1>2. Len(orders) = 0
  BY <1>1
<1>3. \A k \in Keys : stock[k] = NoRow /\ Unnamed(k)
  BY <1>1 DEF Unnamed
<1> QED BY <1>1, <1>2, <1>3 DEF StoreInv

\* Every step keeps it.
LEMMA StepStore == FlowInv /\ StoreInv /\ [Next]_vars => StoreInv'
<1> SUFFICES ASSUME FlowInv, StoreInv, [Next]_vars PROVE StoreInv'
  OBVIOUS
<1>1. CASE ~OnMessage /\ ~Hydrate
  BY <1>1, PassiveStep, PassiveStore DEF FlowInv
<1> QED BY <1>1, MessageStore, HydrateStore

\* When nothing is on its way a row about s shows the last notification about s, or
\* is behind in one of the four ways.
LEMMA QuietRow ==
  ASSUME FlowInv, StoreInv, Quiet, NEW s, NEW r \in {"orders", "stock"}, NEW at,
         RowFrom(s, r, at) \/ (fetch # "done" /\ Unnamed(s))
  PROVE  at = Truth(s) \/ Missed(s, r) \/ Overwritten(s, r) \/ Rewound(s, at) \/ Unread(s)
<1> DEFINE n == Len(committed)
           T == Truth(s)
<1>1. /\ n \in Nat /\ latest \in 0..n
      /\ \A i \in (latest + 1)..n : i \in missed
  <2>1. Way = {}
    BY NothingRises DEF Quiet, Way
  <2> QED BY <2>1, WayWithin DEF FlowInv, Accounted
<1>2. /\ T \in 0..n /\ (T # 0 => s \in committed[T])
      /\ \A j \in (T + 1)..n : s \notin committed[j]
  BY <1>1, LastAtIn, LastInIs DEF Truth
<1>3. T \notin missed => T <= latest
  BY <1>1, <1>2
<1>4. fetch \in {"done", "failed"}
  BY DEF Quiet, FlowInv, TypeInv, Bounded
<1>5. CASE IsLast(s, at)
  <2>1. /\ at \in 1..latest /\ at \notin missed /\ s \in committed[at]
        /\ \A j \in (at + 1)..latest : s \in committed[j] => j \in missed
    BY <1>5 DEF IsLast
  <2> HIDE DEF T
  <2>2. at <= T
    BY <1>1, <1>2, <2>1
  <2>3. CASE T \in missed
    <3>1. at < T
      BY <1>1, <1>2, <2>1, <2>2, <2>3
    <3> QED BY <2>1, <2>3, <3>1 DEF Rewound, T
  <2>4. CASE T \notin missed
    <3>1. ~(at < T)
      BY <1>1, <1>2, <1>3, <2>1, <2>4
    <3>2. at = T
      BY <1>1, <1>2, <2>1, <2>2, <3>1
    <3> QED BY <3>2 DEF T
  <2> QED BY <2>3, <2>4
<1>6. CASE fetch = "done" /\ at = LastAt(s, read[r])
  <2> DEFINE p == read[r]
  <2>1. p \in 0..n
    BY <1>6, ReadWithin DEF FlowInv
  <2>2. CASE T <= p
    <3> HIDE DEF T, p
    <3>1. T \in 0..p /\ p \in Nat /\ \A j \in (T + 1)..p : s \notin committed[j]
      BY <1>1, <1>2, <2>1, <2>2
    <3>2. LastIn(committed, s, p) = T
      BY <1>2, <3>1, LastInOne
    <3>3. at = T
      BY <1>6, <3>2, LastAtIn DEF p
    <3> QED BY <3>3 DEF T
  <2>3. CASE T > p
    BY <1>6, <2>3 DEF Missed, Overwritten
  <2> QED BY <1>1, <1>2, <2>1, <2>2, <2>3
<1>7. CASE fetch # "done" /\ Unnamed(s)
  <2>1. CASE T = 0
    BY <1>4, <1>7, <2>1 DEF Unread
  <2>2. CASE T \in missed
    BY <1>7, <2>2 DEF Missed
  <2>3. CASE T # 0 /\ T \notin missed
    <3> HIDE DEF T
    <3>1. T \in 1..latest
      BY <1>1, <1>2, <1>3, <2>3
    <3> QED BY <1>2, <1>7, <2>3, <3>1 DEF Unnamed
  <2> QED BY <2>1, <2>2, <2>3
<1> QED BY <1>5, <1>6, <1>7 DEF RowFrom

\* When all is quiet every row of the dashboard shows the committed state, unless its
\* last event was missed after the snapshot was read, or applied and then replaced by
\* an older snapshot, or the snapshot was rewound by a late event, or it failed.
THEOREM StaleRowsExplained == Spec => []StaleOnlyIfMissed
<1>1. Init => StoreInv
  BY InitStore
<1>2. FlowInv /\ StoreInv /\ [Next]_vars => StoreInv'
  BY StepStore
<1>3. ASSUME FlowInv, StoreInv PROVE StaleOnlyIfMissed
  <2> SUFFICES ASSUME Quiet
      PROVE  /\ \A k \in Keys : LET at == stock[k] IN
                  at = Truth(k) \/ Missed(k, "stock") \/ Overwritten(k, "stock")
                  \/ Rewound(k, at) \/ Unread(k)
             /\ \A j \in 1..Len(orders) : LET s == orders[j].order  at == orders[j].at IN
                  at = Truth(s) \/ Missed(s, "orders") \/ Overwritten(s, "orders")
                  \/ Rewound(s, at) \/ Unread(s)
    BY DEF StaleOnlyIfMissed
  <2>1. ASSUME NEW k \in Keys
        PROVE  RowFrom(k, "stock", stock[k]) \/ (fetch # "done" /\ Unnamed(k))
    BY <1>3 DEF StoreInv
  <2>2. ASSUME NEW j \in 1..Len(orders)
        PROVE  RowFrom(orders[j].order, "orders", orders[j].at)
    BY <1>3 DEF StoreInv
  <2> QED BY <1>3, <2>1, <2>2, QuietRow
<1> QED BY <1>1, <1>2, <1>3, FlowInvariant, PTL DEF Spec
=============================================================================
