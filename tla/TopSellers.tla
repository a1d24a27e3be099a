----------------------------- MODULE TopSellers -----------------------------
(***************************************************************************)
(* GET /api/analytics/top-sellers (analytics/views.py), its cache entry,   *)
(* and the panel of the dashboard that polls it (App.vue).  One pair of    *)
(* parameters is modelled: every pair has a cache key of its own.          *)
(*                                                                         *)
(* Time passes in ticks, and everything keeps its age, so that there are   *)
(* finitely many states.  What the query counts is a number that changes.  *)
(***************************************************************************)
EXTENDS Integers

CONSTANTS
  Requests,    \* BOUND: as many requests as are in service at once
  TTL,         \* CACHE_TTL_SECONDS
  Poll,        \* the period of the panel's timer
  MaxTime,     \* BOUND: a request takes that many ticks at most, or it fails
  MaxSales,    \* BOUND: how often the result of the query changes
  MaxFailures  \* BOUND: things that go wrong

ASSUME TopSellersAssumption ==
  /\ TTL \in Nat \ {0} /\ Poll \in Nat \ {0}
  /\ MaxTime \in Nat /\ MaxSales \in Nat /\ MaxFailures \in Nat

VARIABLES
  sales,    \* how often the result of the query has changed
  cache,    \* the cached payload, or NoPayload
  left,     \* ticks until the entry expires
  req,      \* [Requests -> the state of a request]
  panel,    \* store.topSellers and topSellersGeneratedAt
  timer,    \* ticks until the panel's timer fires, or Off before it is set
  failures  \* how many things went wrong

vars == <<sales, cache, left, req, panel, timer, failures>>

Off == -1

\* A payload: its rows, the age of the snapshot they were read from, and the age of
\* its generated_at.
NoPayload == [sold |-> -1, read |-> -1, stamp |-> -1]

\* "asked" is about to look into the cache, "missed" to query, "computed" to set the
\* entry, "answer" is on its way to the client.
Idle == [at |-> "free", tab |-> FALSE, pay |-> NoPayload, spent |-> 0]

Old == TTL + Poll + 3 * MaxTime  \* BOUND: ages are not told apart from here on

Ages == -1..Old
Payloads == [sold : -1..MaxSales, read : Ages, stamp : Ages]

TypeOK ==
  /\ sales \in 0..MaxSales /\ failures \in 0..MaxFailures
  /\ cache \in Payloads /\ panel \in Payloads
  /\ left \in 0..TTL /\ (left = 0 <=> cache = NoPayload)
  /\ timer \in -1..Poll
  /\ req \in [Requests -> [at : {"free", "asked", "missed", "computed", "answer"},
                           tab : BOOLEAN, pay : Payloads, spent : 0..MaxTime]]

Init ==
  /\ sales = 0 /\ cache = NoPayload /\ left = 0
  /\ req = [r \in Requests |-> Idle]
  /\ panel = NoPayload /\ timer = Off /\ failures = 0

\* The panel is to ask now: its timer has fired, or it has just been mounted.
Due == timer = 0 \/ (timer = Off /\ \A r \in Requests : ~req[r].tab)

Fail == failures < MaxFailures /\ failures' = failures + 1

-----------------------------------------------------------------------------
(* The view.                                                               *)

Moves(r, to, pay) ==
  req' = [req EXCEPT ![r] = [at |-> to, tab |-> @.tab, pay |-> pay, spent |-> @.spent]]

\* Another client asks.
Ask(r) ==
  /\ req[r].at = "free" /\ ~Due
  /\ Moves(r, "asked", NoPayload)
  /\ UNCHANGED <<sales, cache, left, panel, timer, failures>>

Hit(r) == Moves(r, "answer", cache)

\* generated_at is taken before the query starts.
Miss(r) == Moves(r, "missed", [sold |-> -1, read |-> -1, stamp |-> 0])

\* Mutant: a hit renews the entry.
LookupRenews(r) ==
  /\ req[r].at = "asked"
  /\ IF left > 0 THEN Hit(r) /\ left' = TTL ELSE Miss(r) /\ UNCHANGED left
  /\ UNCHANGED <<sales, cache, panel, timer, failures>>

Lookup(r) ==
  /\ req[r].at = "asked"
  /\ IF left > 0 THEN Hit(r) ELSE Miss(r)
  /\ UNCHANGED <<sales, cache, left, panel, timer, failures>>

\* top_sellers: the statement sees what is committed when it starts.
Query(r) ==
  /\ req[r].at = "missed"
  /\ Moves(r, "computed", [sold |-> sales, read |-> 0, stamp |-> req[r].pay.stamp])
  /\ UNCHANGED <<sales, cache, left, panel, timer, failures>>

\* Mutant: no timeout is passed, and the default of the cache applies.
StoreDefault(r) ==
  /\ req[r].at = "computed"
  /\ cache' = req[r].pay /\ left' = 10 * TTL
  /\ Moves(r, "answer", req[r].pay)
  /\ UNCHANGED <<sales, panel, timer, failures>>

\* Mutant: generated_at is added to the payload when it is stored.
StoreStamps(r) ==
  LET p == [req[r].pay EXCEPT !.stamp = 0] IN
  /\ req[r].at = "computed"
  /\ cache' = p /\ left' = TTL
  /\ Moves(r, "answer", p)
  /\ UNCHANGED <<sales, panel, timer, failures>>

\* cache.set, over whatever another request has set meanwhile.
Store(r) ==
  /\ req[r].at = "computed"
  /\ cache' = req[r].pay /\ left' = TTL
  /\ Moves(r, "answer", req[r].pay)
  /\ UNCHANGED <<sales, panel, timer, failures>>

-----------------------------------------------------------------------------
(* The panel.                                                              *)

\* refreshTopSellers, also while an earlier request is not answered yet.
Refresh(r) ==
  /\ req[r].at = "free" /\ Due
  /\ req' = [req EXCEPT ![r] = [at |-> "asked", tab |-> TRUE, pay |-> NoPayload, spent |-> 0]]
  /\ timer' = IF timer = 0 THEN Poll ELSE timer
  /\ UNCHANGED <<sales, cache, left, panel, failures>>

\* Once the first refresh of the panel is over, whatever came of it, setInterval.
Mounted(r) == timer' = IF req[r].tab /\ timer = Off THEN Poll ELSE timer

\* The answer arrives; the panel shows it as it comes.
Answer(r) ==
  /\ req[r].at = "answer"
  /\ req' = [req EXCEPT ![r] = Idle]
  /\ panel' = IF req[r].tab THEN req[r].pay ELSE panel
  /\ Mounted(r)
  /\ UNCHANGED <<sales, cache, left, failures>>

\* Mutant: refreshTopSellers does not catch the error, and onMounted ends with it.
FailsUncaught(r) ==
  /\ req[r].at # "free" /\ Fail
  /\ req' = [req EXCEPT ![r] = IF @.tab /\ timer = Off THEN [Idle EXCEPT !.tab = TRUE] ELSE Idle]
  /\ UNCHANGED <<sales, cache, left, panel, timer>>

\* Redis, the query or the network fails the request; the panel keeps what it shows.
Fails(r) ==
  /\ req[r].at # "free" /\ Fail
  /\ req' = [req EXCEPT ![r] = Idle]
  /\ Mounted(r)
  /\ UNCHANGED <<sales, cache, left, panel>>

-----------------------------------------------------------------------------
(* The environment.                                                        *)

\* An order is placed or cancelled, or leaves the window of the query.
Sell ==
  /\ sales < MaxSales
  /\ sales' = sales + 1
  /\ UNCHANGED <<cache, left, req, panel, timer, failures>>

\* Redis restarts or evicts the entry.
Evict ==
  /\ left > 0 /\ Fail
  /\ cache' = NoPayload /\ left' = 0
  /\ UNCHANGED <<sales, req, panel, timer>>

Older(age) == IF age \in {-1, Old} THEN age ELSE age + 1
Aged(p) == [sold |-> p.sold, read |-> Older(p.read), stamp |-> Older(p.stamp)]
Waits(q) == [at |-> q.at, tab |-> q.tab, pay |-> Aged(q.pay), spent |-> q.spent + 1]

Tick ==
  /\ ~Due /\ \A r \in Requests : req[r].at # "free" => req[r].spent < MaxTime
  /\ left' = IF left > 0 THEN left - 1 ELSE 0
  /\ cache' = IF left > 1 THEN Aged(cache) ELSE NoPayload
  /\ req' = [r \in Requests |-> IF req[r].at = "free" THEN req[r] ELSE Waits(req[r])]
  /\ panel' = Aged(panel)
  /\ timer' = IF timer > 0 THEN timer - 1 ELSE timer
  /\ UNCHANGED <<sales, failures>>

Serve(r) == Lookup(r) \/ Query(r) \/ Store(r) \/ Answer(r)

Next == \/ \E r \in Requests : Ask(r) \/ Refresh(r) \/ Serve(r) \/ Fails(r)
        \/ Sell \/ Evict \/ Tick

(* Fairness.  Time passes, the browser's timer fires, and a request that   *)
(* does not fail is served.  Nobody else has to ask.                       *)
Spec == /\ Init /\ [][Next]_vars
        /\ WF_vars(Tick)
        /\ WF_vars(\E r \in Requests : Refresh(r))
        /\ \A r \in Requests : WF_vars(Serve(r))

-----------------------------------------------------------------------------
(* Properties.                                                             *)

\* analytics/views.py: the cache bounds staleness.  However requests overlap, and
\* whichever of them sets the entry last, what a request is answered with was read
\* less than a TTL and the time of one request before it came in.
AnswersBounded ==
  \A r \in Requests :
    req[r].at = "answer" => req[r].pay.read - req[r].spent < TTL + MaxTime

\* While nothing fails, what the panel shows was read less than a TTL, a polling
\* period and the time of three requests ago: the one that stored it, the one
\* that fetched it and the one that will replace it, even if answers overtake each
\* other.
PanelBounded ==
  failures = 0 => panel.read < TTL + Poll + 3 * MaxTime

\* The panel never claims to be newer than it is: generated_at is not later than the
\* snapshot that its rows were read from.
StampIsHonest == panel.stamp >= panel.read

\* After the last sale and the last failure the panel shows all sales, and stays
\* so: no slow request brings an older snapshot back for good.
PanelCatchesUp == <>[](panel.sold = sales)
=============================================================================
