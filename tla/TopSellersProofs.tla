-------------------------- MODULE TopSellersProofs --------------------------
(***************************************************************************)
(* How old an answer and the panel can be, for every TTL, polling period,  *)
(* duration of a request and number of requests.                           *)
(***************************************************************************)
EXTENDS TopSellers, TLAPS

-----------------------------------------------------------------------------
(* Ages and payloads.                                                      *)

\* The oldest age that is told apart is a positive number.
LEMMA OldNat == Old \in Nat /\ Old >= 1
BY TopSellersAssumption DEF Old

\* Growing older keeps an age in range, adds at most a tick, and keeps the order of
\* two ages.
LEMMA OlderFact ==
  ASSUME NEW a \in Ages
  PROVE  /\ Older(a) \in Ages /\ a <= Older(a) /\ Older(a) <= a + 1
         /\ \A b \in Ages : a <= b => Older(a) <= Older(b)
BY OldNat DEF Older, Ages

\* The fields of a payload are in range.
LEMMA PayloadFact ==
  ASSUME NEW p \in Payloads
  PROVE  p.sold \in -1..MaxSales /\ p.read \in Ages /\ p.stamp \in Ages
BY DEF Payloads

\* An age is an integer, -1 where there is none.
LEMMA AgesFact == \A a \in Ages : a \in Int /\ a >= -1
BY OldNat DEF Ages

\* The panel before its first answer shows a payload without ages.
LEMMA NoPayloadType ==
  /\ NoPayload \in Payloads
  /\ NoPayload.read = -1 /\ NoPayload.stamp = -1
BY OldNat, TopSellersAssumption DEF NoPayload, Payloads, Ages

\* A tick makes a payload older by one at most and never newer than its stamp says.
LEMMA AgedFact ==
  ASSUME NEW p \in Payloads
  PROVE  /\ Aged(p) \in Payloads
         /\ p.read <= Aged(p).read /\ Aged(p).read <= p.read + 1
         /\ p.stamp <= Aged(p).stamp
         /\ p.read <= p.stamp => Aged(p).read <= Aged(p).stamp
         /\ p = NoPayload => Aged(p) = NoPayload
<1>1. p.sold \in -1..MaxSales /\ p.read \in Ages /\ p.stamp \in Ages
  BY PayloadFact
<1>2. /\ Older(p.read) \in Ages /\ Older(p.stamp) \in Ages
      /\ p.read <= Older(p.read) /\ Older(p.read) <= p.read + 1
      /\ p.stamp <= Older(p.stamp)
      /\ p.read <= p.stamp => Older(p.read) <= Older(p.stamp)
  BY <1>1, OlderFact
<1>3. p = NoPayload => Aged(p) = NoPayload
  BY DEF Aged, NoPayload, Older
<1> QED BY <1>1, <1>2, <1>3 DEF Aged, Payloads

-----------------------------------------------------------------------------
(* The inductive invariant.                                                *)

Stations == {"free", "asked", "missed", "computed", "answer"}
Request == [at : Stations, tab : BOOLEAN, pay : Payloads, spent : 0..MaxTime]

\* What a request carries was read since it came in, or comes from an entry that was
\* young enough when the request looked it up.
RequestOK(q) ==
  /\ q \in Request
  /\ q.pay.read <= q.pay.stamp
  /\ q.at = "free" => q.spent = 0
  /\ q.at = "missed" => q.pay.stamp >= 0
  /\ q.at = "computed" => q.pay.read >= 0 /\ q.pay.read <= q.spent
  /\ q.at = "answer" => q.pay.read < TTL + MaxTime + q.spent

\* The entry was at most MaxTime old when it was stored, left - TTL ticks ago.
EntryOK ==
  /\ cache \in Payloads /\ left \in 0..TTL
  /\ cache.read <= cache.stamp
  /\ left = 0 => cache = NoPayload
  /\ left > 0 => cache.read >= 0 /\ cache.read + left <= TTL + MaxTime

\* The panel was young enough when its timer was last set, or the request that the
\* timer sent is still in service.
PanelOK ==
  /\ panel \in Payloads /\ timer \in -1..Poll
  /\ panel.read <= panel.stamp
  /\ timer = Off => panel = NoPayload
  /\ failures = 0 /\ timer # Off =>
       \/ panel.read < TTL + 2 * MaxTime + Poll - timer
       \/ \E r \in Requests : /\ req[r].tab /\ req[r].at # "free"
                              /\ panel.read < TTL + 2 * MaxTime + Poll + req[r].spent

IInv ==
  /\ sales \in 0..MaxSales /\ failures \in 0..MaxFailures
  /\ req = [r \in Requests |-> req[r]]
  /\ \A r \in Requests : RequestOK(req[r])
  /\ EntryOK
  /\ PanelOK

\* A step of one request leaves the others alone.
LEMMA OneRequest ==
  ASSUME NEW r \in Requests, NEW q, RequestOK(q), IInv,
         req' = [req EXCEPT ![r] = q]
  PROVE  /\ req' = [s \in Requests |-> req'[s]]
         /\ req'[r] = q
         /\ \A s \in Requests : s # r => req'[s] = req[s]
         /\ \A s \in Requests : RequestOK(req'[s])
BY DEF IInv

\* A request that is not in service satisfies the request invariant.
LEMMA IdleOK == RequestOK(Idle)
BY NoPayloadType, TopSellersAssumption DEF Idle, RequestOK, Request, Stations

\* An empty cache, an empty panel and no request satisfy the invariant.
LEMMA InvInit == Init => IInv
<1> SUFFICES ASSUME Init PROVE IInv
  OBVIOUS
<1> USE TopSellersAssumption DEF Init
<1>1. \A r \in Requests : req[r] = Idle
  OBVIOUS
<1>2. EntryOK
  BY NoPayloadType DEF EntryOK
<1>3. PanelOK
  BY NoPayloadType DEF PanelOK, Off
<1> QED BY <1>1, <1>2, <1>3, IdleOK DEF IInv

-----------------------------------------------------------------------------
(* The steps of the view.                                                  *)

\* While a request moves on, the panel is as old as it was.
LEMMA PanelWaits ==
  ASSUME IInv, NEW r \in Requests, NEW q,
         req' = [req EXCEPT ![r] = q],
         req[r].at # "free" =>
           q.at # "free" /\ q.tab = req[r].tab /\ q.spent = req[r].spent,
         UNCHANGED <<panel, timer, failures>>
  PROVE  PanelOK'
<1>1. \A s \in Requests : req[s].at # "free" =>
        /\ req'[s].at # "free"
        /\ req'[s].tab = req[s].tab /\ req'[s].spent = req[s].spent
  BY DEF IInv
<1> QED BY <1>1 DEF IInv, PanelOK

\* A request that comes in keeps the invariant.
LEMMA AskStep ==
  ASSUME IInv, NEW r \in Requests, Ask(r) PROVE IInv'
<1> DEFINE q == [at |-> "asked", tab |-> req[r].tab, pay |-> NoPayload, spent |-> req[r].spent]
<1>1. req' = [req EXCEPT ![r] = q]
  BY DEF Ask, Moves
<1>2. RequestOK(q)
  BY NoPayloadType DEF IInv, RequestOK, Request, Stations
<1>3. PanelOK'
  BY <1>1, PanelWaits DEF Ask
<1> HIDE DEF q
<1> QED BY <1>1, <1>2, <1>3, OneRequest DEF Ask, IInv, EntryOK

\* cache.get keeps the invariant: a hit is as old as the entry allows.
LEMMA LookupStep ==
  ASSUME IInv, NEW r \in Requests, Lookup(r) PROVE IInv'
<1>1. RequestOK(req[r]) /\ EntryOK
  BY DEF IInv
<1>2. PICK to \in {"answer", "missed"}, pay \in Payloads :
        /\ Moves(r, to, pay)
        /\ pay.read <= pay.stamp
        /\ to = "missed" => pay.stamp >= 0
        /\ to = "answer" => pay.read < TTL + MaxTime
  <2>1. CASE left > 0
    BY <2>1, <1>1, AgesFact, PayloadFact, TopSellersAssumption DEF Lookup, Hit, EntryOK
  <2>2. CASE ~(left > 0)
    <3>1. [sold |-> -1, read |-> -1, stamp |-> 0] \in Payloads
      BY OldNat, TopSellersAssumption DEF Payloads, Ages
    <3> QED BY <3>1, <2>2 DEF Lookup, Miss
  <2> QED BY <2>1, <2>2
<1> DEFINE q == [at |-> to, tab |-> req[r].tab, pay |-> pay, spent |-> req[r].spent]
<1>3. req' = [req EXCEPT ![r] = q]
  BY <1>2 DEF Moves
<1>4. RequestOK(q)
  BY <1>1, <1>2, AgesFact, PayloadFact, TopSellersAssumption DEF RequestOK, Request, Stations
<1>5. PanelOK'
  BY <1>3, PanelWaits DEF Lookup
<1> HIDE DEF q
<1> QED BY <1>3, <1>4, <1>5, OneRequest DEF Lookup, IInv, EntryOK

\* The query keeps the invariant: its snapshot is no older than its request.
LEMMA QueryStep ==
  ASSUME IInv, NEW r \in Requests, Query(r) PROVE IInv'
<1> DEFINE pay == [sold |-> sales, read |-> 0, stamp |-> req[r].pay.stamp]
           q == [at |-> "computed", tab |-> req[r].tab, pay |-> pay, spent |-> req[r].spent]
<1>1. RequestOK(req[r]) /\ sales \in 0..MaxSales
  BY DEF IInv
<1>2. pay \in Payloads /\ pay.read <= pay.stamp /\ pay.read = 0
  BY <1>1, OldNat, TopSellersAssumption DEF Query, RequestOK, Request, Payloads, Ages
<1>3. req' = [req EXCEPT ![r] = q]
  BY DEF Query, Moves
<1> HIDE DEF pay
<1>4. RequestOK(q)
  BY <1>1, <1>2, TopSellersAssumption DEF RequestOK, Request, Stations
<1>5. PanelOK'
  BY <1>3, PanelWaits DEF Query
<1> HIDE DEF q
<1> QED BY <1>3, <1>4, <1>5, OneRequest DEF Query, IInv, EntryOK

\* cache.set keeps the invariant, also over a newer entry: what is stored is at
\* most a request old, and lives a TTL.
LEMMA StoreStep ==
  ASSUME IInv, NEW r \in Requests, Store(r) PROVE IInv'
<1> DEFINE q == [at |-> "answer", tab |-> req[r].tab, pay |-> req[r].pay, spent |-> req[r].spent]
<1>1. /\ RequestOK(req[r]) /\ req[r].at = "computed"
      /\ req[r].spent \in 0..MaxTime
      /\ req[r].pay \in Payloads /\ req[r].pay.read \in Int
  BY AgesFact, PayloadFact DEF IInv, Store, RequestOK, Request
<1>2. req' = [req EXCEPT ![r] = q]
  BY DEF Store, Moves
<1>3. RequestOK(q)
  BY <1>1, TopSellersAssumption DEF RequestOK, Request, Stations
<1>4. EntryOK'
  BY <1>1, TopSellersAssumption DEF Store, EntryOK, RequestOK
<1>5. PanelOK'
  BY <1>2, PanelWaits DEF Store
<1> HIDE DEF q
<1> QED BY <1>2, <1>3, <1>4, <1>5, OneRequest DEF Store, IInv

-----------------------------------------------------------------------------
(* The steps of the panel.                                                 *)

\* A poll of the panel keeps the invariant: the timer starts again and the request
\* it sends is new.
LEMMA RefreshStep ==
  ASSUME IInv, NEW r \in Requests, Refresh(r) PROVE IInv'
<1> DEFINE q == [at |-> "asked", tab |-> TRUE, pay |-> NoPayload, spent |-> 0]
<1>1. req' = [req EXCEPT ![r] = q]
  BY DEF Refresh
<1>2. RequestOK(q)
  BY NoPayloadType, TopSellersAssumption DEF RequestOK, Request, Stations
<1>3. /\ req' = [s \in Requests |-> req'[s]]
      /\ req'[r] = q
      /\ \A s \in Requests : s # r => req'[s] = req[s]
      /\ \A s \in Requests : RequestOK(req'[s])
  BY <1>1, <1>2, OneRequest
<1>4. PanelOK /\ timer \in -1..Poll /\ panel.read \in Int
  BY AgesFact, PayloadFact DEF IInv, PanelOK
<1>5. PanelOK'
  <2>1. CASE timer = 0
    <3>1. timer' = Poll /\ panel' = panel /\ failures' = failures
      BY <2>1 DEF Refresh
    <3>2. failures = 0 => panel.read < TTL + 2 * MaxTime + Poll + req'[r].spent
          \/ \E s \in Requests : /\ req[s].tab /\ req[s].at # "free"
                                 /\ panel.read < TTL + 2 * MaxTime + Poll + req[s].spent
      BY <2>1, <1>3, <1>4, TopSellersAssumption DEF PanelOK, Off
    <3>3. \A s \in Requests : req[s].at # "free" => s # r
      BY DEF Refresh
    <3>4. failures = 0 => \E s \in Requests : /\ req'[s].tab /\ req'[s].at # "free"
                                 /\ panel.read < TTL + 2 * MaxTime + Poll + req'[s].spent
      BY <3>2, <3>3, <1>3
    <3> QED BY <3>1, <3>4, <1>4, <2>1, TopSellersAssumption DEF PanelOK, Off
  <2>2. CASE timer # 0
    <3>1. timer' = Off /\ timer = Off /\ panel' = panel
      BY <2>2 DEF Refresh, Due
    <3> QED BY <3>1, <1>4 DEF PanelOK
  <2> QED BY <2>1, <2>2
<1> QED BY <1>3, <1>5 DEF Refresh, IInv, EntryOK

\* An answer that reaches the panel keeps the invariant, overtaken or not.
LEMMA AnswerStep ==
  ASSUME IInv, NEW r \in Requests, Answer(r) PROVE IInv'
<1>1. /\ req' = [s \in Requests |-> req'[s]]
      /\ \A s \in Requests : s # r => req'[s] = req[s]
      /\ \A s \in Requests : RequestOK(req'[s])
  BY IdleOK, OneRequest DEF Answer
<1>2. /\ PanelOK /\ timer \in -1..Poll /\ panel.read \in Int
      /\ RequestOK(req[r]) /\ req[r].pay \in Payloads /\ req[r].pay.read \in Int
      /\ req[r].spent \in 0..MaxTime /\ req[r].tab \in BOOLEAN
  BY AgesFact, PayloadFact DEF IInv, PanelOK, RequestOK, Request
<1>3. PanelOK'
  <2>1. CASE req[r].tab
    <3>1. /\ panel' = req[r].pay /\ failures' = failures
          /\ timer' = IF timer = Off THEN Poll ELSE timer
      BY <2>1 DEF Answer, Mounted
    <3>2. timer' # Off /\ timer' \in -1..Poll
      BY <3>1, <1>2, TopSellersAssumption DEF Off
    <3>3. panel'.read < TTL + 2 * MaxTime
      BY <3>1, <1>2, TopSellersAssumption DEF RequestOK, Answer
    <3>4. panel'.read \in Int /\ panel' \in Payloads /\ panel'.read <= panel'.stamp
      BY <3>1, <1>2 DEF RequestOK
    <3> QED BY <3>2, <3>3, <3>4, TopSellersAssumption DEF PanelOK
  <2>2. CASE ~req[r].tab
    <3>1. UNCHANGED <<panel, timer, failures>>
      BY <2>2 DEF Answer, Mounted
    <3>2. \A s \in Requests : req[s].tab => req'[s] = req[s]
      BY <1>1, <2>2
    <3> QED BY <3>1, <3>2, <1>2 DEF PanelOK
  <2> QED BY <2>1, <2>2
<1> QED BY <1>1, <1>3 DEF Answer, IInv, EntryOK

\* A failed request keeps the invariant.
LEMMA FailsStep ==
  ASSUME IInv, NEW r \in Requests, Fails(r) PROVE IInv'
<1>1. /\ req' = [s \in Requests |-> req'[s]]
      /\ \A s \in Requests : RequestOK(req'[s])
  BY IdleOK, OneRequest DEF Fails
<1>2. failures' # 0 /\ failures' \in 0..MaxFailures
  BY TopSellersAssumption DEF Fails, Fail, IInv
<1>3. PanelOK'
  BY <1>2, TopSellersAssumption DEF Fails, Mounted, Off, IInv, PanelOK
<1> QED BY <1>1, <1>2, <1>3 DEF Fails, IInv, EntryOK

-----------------------------------------------------------------------------
(* The steps of the environment.                                           *)

\* An eviction by Redis keeps the invariant.
LEMMA EvictStep ==
  ASSUME IInv, Evict PROVE IInv'
<1>1. failures' # 0 /\ failures' \in 0..MaxFailures
  BY TopSellersAssumption DEF Evict, Fail, IInv
<1>2. PanelOK'
  BY <1>1 DEF Evict, IInv, PanelOK
<1>3. EntryOK'
  BY NoPayloadType, TopSellersAssumption DEF Evict, EntryOK
<1> QED BY <1>1, <1>2, <1>3 DEF Evict, IInv

\* The passing of time keeps the invariant: ages grow as the entry, the timer and
\* the requests run out.
LEMMA TickStep ==
  ASSUME IInv, Tick PROVE IInv'
<1> USE TopSellersAssumption
<1>1. ASSUME NEW r \in Requests
      PROVE  /\ RequestOK(req'[r])
             /\ req'[r].at = req[r].at /\ req'[r].tab = req[r].tab
             /\ req[r].at # "free" => req'[r].spent = req[r].spent + 1
             /\ req[r].spent \in Nat
  <2>1. /\ RequestOK(req[r]) /\ req[r].spent \in 0..MaxTime
        /\ req[r].pay \in Payloads
        /\ req[r].pay.read \in Int /\ req[r].pay.stamp \in Int
    BY AgesFact, PayloadFact DEF IInv, RequestOK, Request
  <2>2. CASE req[r].at = "free"
    BY <2>1, <2>2 DEF Tick
  <2>3. CASE req[r].at # "free"
    <3>1. req'[r] = Waits(req[r]) /\ req[r].spent < MaxTime
      BY <2>3 DEF Tick
    <3> DEFINE p == Aged(req[r].pay)
    <3>2. /\ p \in Payloads /\ p.read \in Int /\ p.stamp \in Int
          /\ req[r].pay.read <= p.read /\ p.read <= req[r].pay.read + 1
          /\ req[r].pay.stamp <= p.stamp
          /\ p.read <= p.stamp
      BY <2>1, AgedFact, AgesFact, PayloadFact DEF RequestOK
    <3>3. /\ Waits(req[r]).pay = p /\ Waits(req[r]).at = req[r].at
          /\ Waits(req[r]).tab = req[r].tab /\ Waits(req[r]).spent = req[r].spent + 1
      BY DEF Waits
    <3>4. Waits(req[r]) \in Request
      BY <2>1, <3>1, <3>2 DEF Waits, Request, RequestOK
    <3> HIDE DEF p
    <3>5. RequestOK(Waits(req[r]))
      BY <2>1, <2>3, <3>2, <3>3, <3>4 DEF RequestOK
    <3> QED BY <2>1, <3>1, <3>3, <3>5
  <2> QED BY <2>2, <2>3
<1>2. EntryOK'
  <2>1. EntryOK /\ left \in 0..TTL /\ cache \in Payloads
        /\ cache.read \in Int /\ cache.stamp \in Int
    BY AgesFact, PayloadFact DEF IInv, EntryOK
  <2>2. CASE left > 1
    <3>1. left' = left - 1 /\ cache' = Aged(cache)
      BY <2>1, <2>2 DEF Tick
    <3>2. /\ Aged(cache) \in Payloads /\ Aged(cache).read \in Int
          /\ cache.read <= Aged(cache).read /\ Aged(cache).read <= cache.read + 1
          /\ Aged(cache).read <= Aged(cache).stamp
      BY <2>1, AgedFact, AgesFact, PayloadFact DEF EntryOK
    <3> QED BY <2>1, <2>2, <3>1, <3>2 DEF EntryOK
  <2>3. CASE ~(left > 1)
    <3>1. left' = 0 /\ cache' = NoPayload
      BY <2>1, <2>3 DEF Tick
    <3> QED BY <3>1, NoPayloadType DEF EntryOK
  <2> QED BY <2>2, <2>3
<1>3. PanelOK'
  <2>1. /\ PanelOK /\ timer \in -1..Poll /\ timer # 0
        /\ panel \in Payloads /\ panel.read \in Int
    BY AgesFact, PayloadFact DEF IInv, PanelOK, Tick, Due
  <2>2. /\ panel' = Aged(panel) /\ failures' = failures
        /\ timer' = IF timer > 0 THEN timer - 1 ELSE timer
    BY DEF Tick
  <2>3. /\ panel' \in Payloads /\ panel'.read \in Int
        /\ panel'.read <= panel.read + 1
        /\ panel'.read <= panel'.stamp
        /\ panel = NoPayload => panel' = NoPayload
    BY <2>1, <2>2, AgedFact, AgesFact, PayloadFact DEF PanelOK
  <2>4. timer' \in -1..Poll /\ (timer' = Off <=> timer = Off)
    BY <2>1, <2>2 DEF Off
  <2>5. ASSUME failures = 0, timer # Off,
               panel.read < TTL + 2 * MaxTime + Poll - timer
        PROVE  panel'.read < TTL + 2 * MaxTime + Poll - timer'
    BY <2>1, <2>2, <2>3, <2>5 DEF Off
  <2>6. ASSUME NEW r \in Requests, req[r].tab, req[r].at # "free",
               panel.read < TTL + 2 * MaxTime + Poll + req[r].spent
        PROVE  /\ req'[r].tab /\ req'[r].at # "free"
               /\ panel'.read < TTL + 2 * MaxTime + Poll + req'[r].spent
    <3>1. /\ req'[r].at = req[r].at /\ req'[r].tab = req[r].tab
          /\ req'[r].spent = req[r].spent + 1 /\ req[r].spent \in Nat
      BY <1>1, <2>6
    <3> QED BY <2>1, <2>3, <2>6, <3>1
  <2> QED BY <2>1, <2>2, <2>3, <2>4, <2>5, <2>6 DEF PanelOK
<1>4. req' = [r \in Requests |-> req'[r]]
  BY DEF Tick
<1>5. sales' \in 0..MaxSales /\ failures' \in 0..MaxFailures
  BY DEF Tick, IInv
<1> QED BY <1>1, <1>2, <1>3, <1>4, <1>5 DEF IInv

-----------------------------------------------------------------------------
(* The theorems.                                                           *)

\* Every step keeps the invariant.
LEMMA InvStep == IInv /\ [Next]_vars => IInv'
<1> SUFFICES ASSUME IInv, [Next]_vars PROVE IInv'
  OBVIOUS
<1>1. ASSUME NEW r \in Requests, Serve(r) PROVE IInv'
  BY <1>1, LookupStep, QueryStep, StoreStep, AnswerStep DEF Serve
<1>2. CASE Sell
  BY <1>2, TopSellersAssumption DEF Sell, IInv, EntryOK, PanelOK
<1>3. CASE UNCHANGED vars
  BY <1>3 DEF vars, IInv, EntryOK, PanelOK
<1> QED BY <1>1, <1>2, <1>3, AskStep, RefreshStep, FailsStep, EvictStep, TickStep DEF Next

\* The invariant holds always.
LEMMA Invariant == Spec => []IInv
BY InvInit, InvStep, PTL DEF Spec

\* Every state is well typed; in particular an entry is there exactly while it has
\* time left.
THEOREM TypeCorrect == Spec => []TypeOK
<1>1. IInv => TypeOK
  <2> SUFFICES ASSUME IInv PROVE TypeOK
    OBVIOUS
  <2>1. req \in [Requests -> Request]
    BY DEF IInv, RequestOK
  <2>2. left = 0 <=> cache = NoPayload
    BY NoPayloadType, TopSellersAssumption DEF IInv, EntryOK
  <2> QED BY <2>1, <2>2 DEF IInv, EntryOK, PanelOK, TypeOK, Request, Stations
<1> QED BY <1>1, Invariant, PTL

\* An answer was read less than a TTL and the time of a request before the request
\* came in, whatever the other requests store meanwhile.
THEOREM AnswersAreBounded == Spec => []AnswersBounded
<1>1. IInv => AnswersBounded
  <2> SUFFICES ASSUME IInv, NEW r \in Requests, req[r].at = "answer"
               PROVE  req[r].pay.read - req[r].spent < TTL + MaxTime
    BY DEF AnswersBounded
  <2>1. RequestOK(req[r]) /\ req[r].pay.read \in Int /\ req[r].spent \in Int
    BY AgesFact, PayloadFact, TopSellersAssumption DEF IInv, RequestOK, Request
  <2> QED BY <2>1, TopSellersAssumption DEF RequestOK
<1> QED BY <1>1, Invariant, PTL

\* While nothing fails, the panel was read less than a TTL, a polling period and the
\* time of three requests ago.
THEOREM PanelIsBounded == Spec => []PanelBounded
<1>1. IInv => PanelBounded
  <2> SUFFICES ASSUME IInv, failures = 0
               PROVE  panel.read < TTL + Poll + 3 * MaxTime
    BY DEF PanelBounded
  <2>1. PanelOK /\ timer \in -1..Poll /\ panel.read \in Int
    BY AgesFact, PayloadFact DEF IInv, PanelOK
  <2>2. \A r \in Requests : req[r].spent \in 0..MaxTime
    BY DEF IInv, RequestOK, Request
  <2>3. CASE timer = Off
    BY <2>1, <2>3, NoPayloadType, TopSellersAssumption DEF PanelOK
  <2>4. CASE timer # Off
    BY <2>1, <2>2, <2>4, TopSellersAssumption DEF PanelOK, Off
  <2> QED BY <2>3, <2>4
<1> QED BY <1>1, Invariant, PTL

\* generated_at is never later than the snapshot the rows were read from.
THEOREM StampsAreHonest == Spec => []StampIsHonest
<1>1. IInv => StampIsHonest
  BY AgesFact, PayloadFact DEF IInv, PanelOK, StampIsHonest
<1> QED BY <1>1, Invariant, PTL
=============================================================================
