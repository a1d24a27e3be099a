------------------------------ MODULE Traffic ------------------------------
(***************************************************************************)
(* Who calls OrderService: the REST API (orders/views.py) and the demo     *)
(* traffic (orders/demo.py) behind POST /api/demo and the demo_orders      *)
(* command.  A call reads stock and orders without locks, decides, and     *)
(* then runs up to three placements and two transitions, each one a        *)
(* transaction of its own, on what may be stale by then.                   *)
(***************************************************************************)
EXTENDS OrderService

CONSTANT MaxEvents  \* BOUND: no call comes in once that many payloads are committed

VARIABLES
  active,  \* the variants with is_active, which the back office toggles
  call     \* [Workers -> the call in service]

allVars == <<vars, active, call>>

\* create and advance are the API's; "demo" is DemoOrderView.post, "round" one
\* round of the command.  A call samples lines, places them, reads orders to
\* advance, walks through that plan, and is answered.
Kinds == {"create", "advance", "demo", "round"}
Stages == {"none", "sample", "place", "read", "walk", "answered"}
NoCall == [kind |-> "create", stage |-> "none", tries |-> 0, lines |-> NoLines, plan |-> <<>>,
           placed |-> {}, moved |-> FALSE, code |-> 0,
           alone |-> FALSE, listed |-> {}]

TrafficInit ==
  /\ Init
  /\ active = Variants
  /\ call = [t \in Workers |-> NoCall]

ASSUME TrafficAssumption == MaxEvents \in Nat

Free(t) == pc[t] = "idle" /\ call[t].stage = "none"
At(t, s) == pc[t] = "idle" /\ call[t].stage = s

\* BOUND: every call that may place an order finds an identity for it.
IdentityLeft ==
  Cardinality({t \in Workers : call[t].stage \in {"sample", "place"}})
    < Cardinality({o \in Orders : status[o] = NoStatus})

\* The variants of some lines.
Named(l) == {v \in Variants : \E w \in Warehouses : l[<<w, v>>] > 0}

\* A call comes in.  History: whether nothing else goes on during a demo call, and
\* the variants that have been active since, until its placements are over.
Enter(t, c) ==
  LET others == {u \in Workers \ {t} : call[u].stage \notin {"none", "answered"}} IN
  /\ Free(t) /\ Len(channel) <= MaxEvents
  /\ call' = [u \in Workers |-> IF u = t THEN [c EXCEPT !.alone = (others = {} /\ c.kind = "demo"), !.listed = IF c.stage \in {"sample", "place"} THEN active ELSE {}]
                                ELSE [call[u] EXCEPT !.alone = FALSE]]
  /\ UNCHANGED <<vars, active>>

Choosing(t) == call[t].stage \in {"sample", "place"}

\* The back office changes is_active of v.
Toggle(v) ==
  /\ active' = IF v \in active THEN active \ {v} ELSE active \cup {v}
  /\ call' = [u \in Workers |->
                [call[u] EXCEPT !.alone = FALSE,
                                !.listed = IF Choosing(u) THEN @ \cup active' ELSE @]]
  /\ UNCHANGED vars

Update(t, c) == call' = [call EXCEPT ![t] = c] /\ UNCHANGED active

Answer(t, code, c) ==
  Update(t, [NoCall EXCEPT !.stage = "answered", !.code = code, !.placed = c.placed, !.moved = c.moved])

\* Placements are over; what was sampled is forgotten.
ToRead(c) == [c EXCEPT !.stage = "read", !.tries = 0, !.lines = NoLines, !.listed = {}]

Leave(t) == At(t, "answered") /\ Update(t, NoCall) /\ UNCHANGED vars

-----------------------------------------------------------------------------
(* Calls.                                                                  *)

\* Mutant: PlaceOrderSerializer resolves inactive variants too.
CreateInactive(t, l) ==
  IdentityLeft /\ Enter(t, [NoCall EXCEPT !.stage = "place", !.lines = l])

\* PlaceOrderSerializer merges the lines and resolves their SKUs, or the answer is
\* 400; place_order follows.
Create(t, l) ==
  /\ IdentityLeft
  /\ Enter(t, IF Named(l) \subseteq active THEN [NoCall EXCEPT !.stage = "place", !.lines = l]
              ELSE [NoCall EXCEPT !.stage = "answered", !.code = 400])

Request(t, o, to) ==
  /\ status[o] # NoStatus
  /\ Enter(t, [NoCall EXCEPT !.kind = "advance", !.stage = "walk",
                             !.plan = <<[order |-> o, to |-> to]>>])

Simulate(t, kind) ==
  /\ IdentityLeft
  /\ Enter(t, [NoCall EXCEPT !.kind = kind, !.stage = "sample",
                             !.tries = IF kind = "demo" THEN 3 ELSE 1])

\* Mutant: rows that are sold out are sampled too.
SamplesSoldOut ==
  {l \in OrderLines : /\ \A k \in Key : l[k] <= 2
                      /\ Cardinality({k \in Key : l[k] > 0}) <= 3
                      /\ Named(l) \subseteq active}

\* place_random_order: one to three lines of one warehouse, of at most two units.
Samples ==
  {l \in OrderLines : /\ \A k \in Key : l[k] <= Min({2, stock[k].qty})
                      /\ Cardinality({k \in Key : l[k] > 0}) <= 3
                      /\ Named(l) \subseteq active}

Sample(t) ==
  /\ At(t, "sample")
  /\ \/ \E l \in Samples : Update(t, [call[t] EXCEPT !.stage = "place", !.lines = l])
     \/ Samples = {} /\ Update(t, ToRead(call[t]))
  /\ UNCHANGED vars

BeginPlace(t) ==
  /\ At(t, "place")
  /\ \E o \in Orders : PlaceOrder(t, o, call[t].lines)
  /\ UNCHANGED <<active, call>>

\* InsufficientStock: the API answers, the view samples again, the command goes on.
Refused(t) ==
  /\ InsufficientStock(t)
  /\ IF call[t].kind = "create" THEN Answer(t, 409, call[t])
     ELSE Update(t, IF call[t].tries > 1
                    THEN [call[t] EXCEPT !.stage = "sample", !.tries = @ - 1, !.lines = NoLines]
                    ELSE ToRead(call[t]))

\* Mutant: the view's loop has no break.
PlacedAgain(t) ==
  LET c == [call[t] EXCEPT !.placed = @ \cup {job[t].order}] IN
  /\ CommitPlacement(t)
  /\ IF c.kind = "create" THEN Answer(t, 201, c)
     ELSE Update(t, IF c.tries > 1 THEN [c EXCEPT !.stage = "sample", !.tries = @ - 1] ELSE ToRead(c))

Placed(t) ==
  LET c == [call[t] EXCEPT !.placed = @ \cup {job[t].order}] IN
  /\ CommitPlacement(t)
  /\ IF c.kind = "create" THEN Answer(t, 201, c) ELSE Update(t, ToRead(c))

-----------------------------------------------------------------------------
(* advance_random_orders.                                                  *)

Terminal == {"DELIVERED", "CANCELLED"}
Candidates == {o \in Orders : status[o] \notin Terminal \cup {NoStatus}}

\* The statuses it may choose for an order, by the status it read.  sorted()[0] is
\* the only forward status there is.
Steps(o) == [order : {o}, to : Flow[status[o]]]

\* Up to limit orders, in any order: the list is shuffled.
Plans(limit) ==
  LET n == Min({limit, Cardinality(Candidates)}) IN
  {p \in [1..n -> UNION {Steps(o) : o \in Candidates}] :
     \A i, j \in 1..n : i # j => p[i].order # p[j].order}

ReadCandidates(t) ==
  /\ At(t, "read")
  /\ \E limit \in (IF call[t].kind = "demo" THEN {2} ELSE {1, 2}) : \E p \in Plans(limit) :
       Update(t, [call[t] EXCEPT !.stage = "walk", !.plan = p])
  /\ UNCHANGED vars

\* Mutant: a transition that was refused is tried again.
BeginAdvanceRetries(t) ==
  /\ At(t, "walk") /\ call[t].plan # <<>>
  /\ AdvanceOrder(t, Head(call[t].plan).order, Head(call[t].plan).to)
  /\ UNCHANGED <<active, call>>

BeginAdvance(t) ==
  /\ At(t, "walk") /\ call[t].plan # <<>>
  /\ AdvanceOrder(t, Head(call[t].plan).order, Head(call[t].plan).to)
  /\ Update(t, [call[t] EXCEPT !.plan = Tail(@)])

Advanced(t) ==
  LET c == [call[t] EXCEPT !.moved = TRUE] IN
  /\ CommitTransition(t) \/ CommitCancellation(t)
  /\ IF c.kind = "advance" THEN Answer(t, 200, c) ELSE Update(t, c)

\* InvalidTransition: 400 for the API; demo traffic skips the order.
NotAdvanced(t) ==
  /\ InvalidTransition(t)
  /\ IF call[t].kind = "advance" THEN Answer(t, 400, call[t]) ELSE UNCHANGED <<active, call>>

\* The view's answer; a round of the command just ends.
Respond(t) ==
  /\ At(t, "walk") /\ call[t].plan = <<>>
  /\ Answer(t, CASE call[t].kind = "round" -> 0
                 [] call[t].kind = "demo" /\ call[t].placed # {} -> 201
                 [] call[t].kind = "demo" /\ call[t].placed = {} /\ call[t].moved -> 200
                 [] OTHER -> 409, call[t])
  /\ UNCHANGED vars

\* Any other exception, or a crash, ends the call, whatever it has committed.
Broken(t) ==
  /\ call[t].stage \notin {"none", "answered"}
  /\ Abort(t) \/ DuplicateStockRow(t) \/ (pc[t] = "idle" /\ UNCHANGED vars)
  /\ Answer(t, 500, call[t])

-----------------------------------------------------------------------------
Arrive(t) == \/ \E l \in OrderLines : Create(t, l)
             \/ \E o \in Orders, to \in Targets : Request(t, o, to)
             \/ \E kind \in {"demo", "round"} : Simulate(t, kind)

\* The steps inside a transaction that the call does not see.
Inside(t) == (Grant(t) \/ BeginRestock(t)) /\ UNCHANGED <<active, call>>

Decide(t) == Sample(t) \/ BeginPlace(t) \/ ReadCandidates(t) \/ BeginAdvance(t) \/ Respond(t) \/ Leave(t)
Outcome(t) == Refused(t) \/ Placed(t) \/ Advanced(t) \/ NotAdvanced(t)

TrafficNext ==
  \/ \E t \in Workers : Arrive(t) \/ Inside(t) \/ Decide(t) \/ Outcome(t) \/ Broken(t)
  \/ \E v \in Variants : Toggle(v)

(* Fairness: that of OrderService, and a call goes on to its next statement. *)
TrafficSpec ==
  /\ TrafficInit /\ [][TrafficNext]_allVars
  /\ \A t \in Workers : /\ SF_allVars(Grant(t) /\ Inside(t))
                        /\ WF_allVars(BeginRestock(t) /\ Inside(t))
                        /\ WF_allVars(Decide(t)) /\ WF_allVars(Outcome(t))
                        /\ WF_allVars(DuplicateStockRow(t) /\ Broken(t))

-----------------------------------------------------------------------------
(* Properties.                                                             *)

\* An answer tells what its call has done: 201 means exactly one order, however
\* often the view sampled again; 200 means transitions and no order; 400 and 409
\* mean that the call left no trace, nor do the placements it retried.
AnswersHonest ==
  \A t \in Workers :
    LET r == call[t] IN
    /\ r.code = 201 => Cardinality(r.placed) = 1
    /\ r.code = 200 => r.placed = {} /\ r.moved
    /\ r.code \in {400, 409} => r.placed = {} /\ ~r.moved

\* In a demo call that is alone no placement and no transition is refused: its
\* samples fit the stock it read, and its transitions the statuses it read, its own
\* placement included.  Only another call can make them fail.
AloneNeverRefused ==
  [][\A t \in Workers : call[t].alone => ~Refused(t) /\ ~NotAdvanced(t)]_allVars

\* What a call has sold was for sale at some moment since the call came in, though
\* is_active is read before the transaction and not looked at again.
SoldWhileListed ==
  [][\A t \in Workers : Placed(t) => Named(job[t].lines) \subseteq call[t].listed]_allVars

\* Every call is answered, after however many samples and stale transitions, and
\* without the help of a lock_timeout or of the deadlock detector.
CallsAnswered == \A t \in Workers : call[t].stage # "none" ~> call[t].stage = "none"
=============================================================================
