--------------------------- MODULE TrafficProofs ----------------------------
(***************************************************************************)
(* The calls of Traffic run the service as OrderService describes it, so   *)
(* that what is proved of the service holds for them; and their answers    *)
(* are honest.  For any number of workers, orders, variants, warehouses.   *)
(***************************************************************************)
EXTENDS Traffic, OrderServiceProofs

-----------------------------------------------------------------------------
(* Calls as records.  A call is changed field by field, so that every step *)
(* of the provers is about one field.                                      *)

Moves == [order : Orders, to : Statuses]

Call == [kind : Kinds, stage : Stages, tries : Int, lines : [Key -> Nat], plan : Seq(Moves),
         placed : SUBSET Orders, moved : BOOLEAN, code : Int,
         alone : BOOLEAN, listed : SUBSET Variants]

OfKind(c, x) == [c EXCEPT !.kind = x]
InStage(c, x) == [c EXCEPT !.stage = x]
WithTries(c, x) == [c EXCEPT !.tries = x]
WithLines(c, x) == [c EXCEPT !.lines = x]
WithPlan(c, x) == [c EXCEPT !.plan = x]
WithPlaced(c, x) == [c EXCEPT !.placed = x]
WithMoved(c, x) == [c EXCEPT !.moved = x]
WithCode(c, x) == [c EXCEPT !.code = x]
WithAlone(c, x) == [c EXCEPT !.alone = x]
WithListed(c, x) == [c EXCEPT !.listed = x]

\* c and d agree on what the invariant reads.
Agree(c, d, fields) ==
  /\ "kind" \in fields => d.kind = c.kind
  /\ "stage" \in fields => d.stage = c.stage
  /\ "lines" \in fields => d.lines = c.lines
  /\ "placed" \in fields => d.placed = c.placed
  /\ "moved" \in fields => d.moved = c.moved
  /\ "code" \in fields => d.code = c.code
  /\ d.plan = c.plan \/ "plan" \notin fields

Fields == {"kind", "stage", "lines", "plan", "placed", "moved", "code"}

\* The operators that set one field of a call leave the others alone.
LEMMA Setters ==
  ASSUME NEW c \in Call
  PROVE  /\ \A x \in Kinds : LET d == OfKind(c, x) IN
              d \in Call /\ d.kind = x /\ Agree(c, d, Fields \ {"kind"})
         /\ \A x \in Stages : LET d == InStage(c, x) IN
              d \in Call /\ d.stage = x /\ Agree(c, d, Fields \ {"stage"})
         /\ \A x \in Int : LET d == WithTries(c, x) IN
              d \in Call /\ Agree(c, d, Fields)
         /\ \A x \in [Key -> Nat] : LET d == WithLines(c, x) IN
              d \in Call /\ d.lines = x /\ Agree(c, d, Fields \ {"lines"})
         /\ \A x \in Seq(Moves) : LET d == WithPlan(c, x) IN
              d \in Call /\ d.plan = x /\ Agree(c, d, Fields \ {"plan"})
         /\ \A x \in SUBSET Orders : LET d == WithPlaced(c, x) IN
              d \in Call /\ d.placed = x /\ Agree(c, d, Fields \ {"placed"})
         /\ \A x \in BOOLEAN : LET d == WithMoved(c, x) IN
              d \in Call /\ d.moved = x /\ Agree(c, d, Fields \ {"moved"})
         /\ \A x \in Int : LET d == WithCode(c, x) IN
              d \in Call /\ d.code = x /\ Agree(c, d, Fields \ {"code"})
         /\ \A x \in BOOLEAN : LET d == WithAlone(c, x) IN
              d \in Call /\ Agree(c, d, Fields)
         /\ \A x \in SUBSET Variants : LET d == WithListed(c, x) IN
              d \in Call /\ Agree(c, d, Fields)
<1> USE DEF Call, Agree, Fields
<1>1. \A x \in Kinds : LET d == OfKind(c, x) IN
        d \in Call /\ d.kind = x /\ Agree(c, d, Fields \ {"kind"})
  BY DEF OfKind
<1>2. \A x \in Stages : LET d == InStage(c, x) IN
        d \in Call /\ d.stage = x /\ Agree(c, d, Fields \ {"stage"})
  BY DEF InStage
<1>3. \A x \in Int : LET d == WithTries(c, x) IN d \in Call /\ Agree(c, d, Fields)
  BY DEF WithTries
<1>4. \A x \in [Key -> Nat] : LET d == WithLines(c, x) IN
        d \in Call /\ d.lines = x /\ Agree(c, d, Fields \ {"lines"})
  BY DEF WithLines
<1>5. \A x \in Seq(Moves) : LET d == WithPlan(c, x) IN
        d \in Call /\ d.plan = x /\ Agree(c, d, Fields \ {"plan"})
  BY DEF WithPlan
<1>6. \A x \in SUBSET Orders : LET d == WithPlaced(c, x) IN
        d \in Call /\ d.placed = x /\ Agree(c, d, Fields \ {"placed"})
  BY DEF WithPlaced
<1>7. \A x \in BOOLEAN : LET d == WithMoved(c, x) IN
        d \in Call /\ d.moved = x /\ Agree(c, d, Fields \ {"moved"})
  BY DEF WithMoved
<1>8. \A x \in Int : LET d == WithCode(c, x) IN
        d \in Call /\ d.code = x /\ Agree(c, d, Fields \ {"code"})
  BY DEF WithCode
<1>9. \A x \in BOOLEAN : LET d == WithAlone(c, x) IN d \in Call /\ Agree(c, d, Fields)
  BY DEF WithAlone
<1>10. \A x \in SUBSET Variants : LET d == WithListed(c, x) IN d \in Call /\ Agree(c, d, Fields)
  BY DEF WithListed
<1> QED BY <1>1, <1>2, <1>3, <1>4, <1>5, <1>6, <1>7, <1>8, <1>9, <1>10

\* The record of an idle worker is a call.
LEMMA NoCallType == NoCall \in Call
BY DEF NoCall, Call, Kinds, Stages, NoLines, Moves

-----------------------------------------------------------------------------
(* The invariant: where a call is tells what it has done, and where its    *)
(* transaction can be.                                                     *)

Honest(c) ==
  /\ c.code = 201 => \E o \in Orders : c.placed = {o}
  /\ c.code = 200 => c.placed = {} /\ c.moved
  /\ c.code \in {400, 409} => c.placed = {} /\ ~c.moved

CallOK(c, p) ==
  /\ c \in Call
  /\ c.stage # "answered" => c.code = 0
  /\ c.stage \in {"sample", "read"} => c.kind \in {"demo", "round"}
  /\ c.stage \in {"sample", "place"} => c.placed = {} /\ c.kind # "advance"
  /\ c.stage \in {"sample", "place", "read"} => ~c.moved
  /\ c.stage = "place" => c.lines \in OrderLines
  /\ c.stage = "walk" => c.kind # "create"
  /\ c.stage = "walk" /\ c.kind = "advance" => c.placed = {} /\ ~c.moved
  /\ c.placed = {} \/ \E o \in Orders : c.placed = {o}
  /\ p = "place" => c.stage = "place"
  /\ p \in {"order", "locked", "restock"} => c.stage = "walk"
  /\ Honest(c)

TrafficInv ==
  /\ TypeInv
  /\ active \subseteq Variants
  /\ call = [t \in Workers |-> call[t]]
  /\ \A t \in Workers : CallOK(call[t], pc[t])

\* Workers without calls satisfy the invariant.
LEMMA InvInit == TrafficInit => TrafficInv
<1> SUFFICES ASSUME TrafficInit PROVE TrafficInv
  OBVIOUS
<1>1. TypeInv
  BY InitType DEF TrafficInit
<1>2. \A t \in Workers : call[t] = NoCall /\ pc[t] = "idle"
  BY DEF TrafficInit, Init
<1>3. CallOK(NoCall, "idle")
  BY NoCallType DEF CallOK, NoCall, Honest
<1> QED BY <1>1, <1>2, <1>3 DEF TrafficInit, TrafficInv

-----------------------------------------------------------------------------
(* The records that the steps build.                                       *)

\* A call that is answered.
AnsweredCall(code, placed, moved) ==
  [NoCall EXCEPT !.stage = "answered", !.code = code, !.placed = placed, !.moved = moved]

\* Answering a call updates that call to AnsweredCall and nothing else.
LEMMA Answers ==
  ASSUME NEW t, NEW code, NEW c, Answer(t, code, c)
  PROVE  Update(t, AnsweredCall(code, c.placed, c.moved))
BY DEF Answer, AnsweredCall

\* An answered call keeps what it has placed and moved.
LEMMA Answered ==
  ASSUME NEW code \in Int, NEW placed \in SUBSET Orders, NEW moved \in BOOLEAN
  PROVE  LET d == AnsweredCall(code, placed, moved)
         IN d \in Call /\ d.stage = "answered" /\ d.code = code /\ d.placed = placed /\ d.moved = moved
<1> DEFINE a == InStage(NoCall, "answered")
           b == WithCode(a, code)
           c == WithPlaced(b, placed)
           d == WithMoved(c, moved)
<1>1. AnsweredCall(code, placed, moved) = d
  BY DEF AnsweredCall, InStage, WithCode, WithPlaced, WithMoved
<1>2. a \in Call /\ a.stage = "answered"
  BY NoCallType, Setters DEF Stages
<1>3. b \in Call /\ b.code = code /\ Agree(a, b, Fields \ {"code"})
  BY <1>2, Setters
<1>4. c \in Call /\ c.placed = placed /\ Agree(b, c, Fields \ {"placed"})
  BY <1>3, Setters
<1>5. d \in Call /\ d.moved = moved /\ Agree(c, d, Fields \ {"moved"})
  BY <1>4, Setters
<1> HIDE DEF a, b, c, d
<1>6. d.stage = "answered" /\ d.code = code /\ d.placed = placed
  BY <1>2, <1>3, <1>4, <1>5 DEF Agree, Fields
<1> QED BY <1>1, <1>5, <1>6

\* An answer whose code agrees with what was committed keeps the call honest.
LEMMA AnsweredOK ==
  ASSUME NEW c, NEW p, CallOK(c, p), NEW code \in Int,
         code = 201 => c.placed # {},
         code = 200 => c.placed = {} /\ c.moved,
         code \in {400, 409} => c.placed = {} /\ ~c.moved
  PROVE  CallOK(AnsweredCall(code, c.placed, c.moved), "idle")
<1> DEFINE d == AnsweredCall(code, c.placed, c.moved)
<1>1. c.placed \in SUBSET Orders /\ c.moved \in BOOLEAN
  BY DEF CallOK, Call
<1>2. d \in Call /\ d.stage = "answered" /\ d.code = code /\ d.placed = c.placed /\ d.moved = c.moved
  BY <1>1, Answered
<1>3. c.placed = {} \/ \E o \in Orders : c.placed = {o}
  BY DEF CallOK
<1> HIDE DEF d
<1>4. CallOK(d, "idle")
  BY <1>2, <1>3 DEF CallOK, Honest
<1> QED BY <1>4 DEF d

\* A call that goes on to read orders.
LEMMA ToReadOK ==
  ASSUME NEW c, NEW p, CallOK(c, p), c.kind \in {"demo", "round"}, c.code = 0, ~c.moved
  PROVE  CallOK(ToRead(c), "idle")
<1> DEFINE a == InStage(c, "read")
           b == WithTries(a, 0)
           d == WithLines(b, NoLines)
           e == WithListed(d, {})
<1>1. ToRead(c) = e
  BY DEF ToRead, InStage, WithTries, WithLines, WithListed
<1>2. c \in Call /\ (c.placed = {} \/ \E o \in Orders : c.placed = {o})
  BY DEF CallOK
<1>3. a \in Call /\ a.stage = "read" /\ Agree(c, a, Fields \ {"stage"})
  BY <1>2, Setters DEF Stages
<1>4. b \in Call /\ Agree(a, b, Fields)
  BY <1>3, Setters
<1>5. d \in Call /\ Agree(b, d, Fields \ {"lines"})
  BY <1>4, NothingTypes, Setters
<1>6. e \in Call /\ Agree(d, e, Fields)
  BY <1>5, Setters
<1> HIDE DEF a, b, d, e
<1>7. e.stage = "read" /\ e.kind = c.kind /\ e.placed = c.placed /\ e.moved = c.moved /\ e.code = 0
  BY <1>3, <1>4, <1>5, <1>6 DEF Agree, Fields
<1> QED BY <1>1, <1>2, <1>6, <1>7 DEF CallOK, Honest

\* A call that has chosen what to place.
LEMMA ToPlaceOK ==
  ASSUME NEW c, NEW p, CallOK(c, p), NEW l \in OrderLines,
         c.stage = "sample" \/ c = NoCall
  PROVE  CallOK([c EXCEPT !.stage = "place", !.lines = l], "idle")
<1> DEFINE a == InStage(c, "place")
           d == WithLines(a, l)
<1>1. [c EXCEPT !.stage = "place", !.lines = l] = d
  BY DEF InStage, WithLines
<1>2. /\ c \in Call /\ c.placed = {} /\ ~c.moved /\ c.code = 0 /\ c.kind # "advance"
      /\ l \in [Key -> Nat]
  BY MaxLineAssumption DEF CallOK, NoCall, OrderLines
<1>3. a \in Call /\ a.stage = "place" /\ Agree(c, a, Fields \ {"stage"})
  BY <1>2, Setters DEF Stages
<1>4. d \in Call /\ d.lines = l /\ Agree(a, d, Fields \ {"lines"})
  BY <1>2, <1>3, Setters
<1> HIDE DEF a, d
<1>5. /\ d.stage = "place" /\ d.kind = c.kind /\ d.placed = {} /\ d.moved = c.moved
      /\ d.code = 0 /\ d.lines = l
  BY <1>2, <1>3, <1>4 DEF Agree, Fields
<1> QED BY <1>1, <1>2, <1>4, <1>5 DEF CallOK, Honest

\* A call that samples again.
Again(c, n) == [c EXCEPT !.stage = "sample", !.tries = n, !.lines = NoLines]

\* A demo call that samples again has committed nothing yet (demo.py:30).
LEMMA AgainOK ==
  ASSUME NEW c, NEW p, CallOK(c, p), NEW n \in Int,
         c.kind \in {"demo", "round"}, c.placed = {}, ~c.moved, c.code = 0
  PROVE  CallOK(Again(c, n), "idle")
<1> DEFINE a == InStage(c, "sample")
           b == WithTries(a, n)
           d == WithLines(b, NoLines)
<1>1. Again(c, n) = d
  BY DEF Again, InStage, WithTries, WithLines
<1>2. c \in Call
  BY DEF CallOK
<1>3. a \in Call /\ a.stage = "sample" /\ Agree(c, a, Fields \ {"stage"})
  BY <1>2, Setters DEF Stages
<1>4. b \in Call /\ Agree(a, b, Fields)
  BY <1>3, Setters
<1>5. d \in Call /\ Agree(b, d, Fields \ {"lines"})
  BY <1>4, NothingTypes, Setters
<1> HIDE DEF a, b, d
<1>6. /\ d.stage = "sample" /\ d.kind = c.kind /\ d.placed = {} /\ d.moved = c.moved /\ d.code = 0
  BY <1>3, <1>4, <1>5 DEF Agree, Fields
<1> QED BY <1>1, <1>5, <1>6 DEF CallOK, Honest

\* A call that has chosen what to advance.
LEMMA ToWalkOK ==
  ASSUME NEW c, NEW p, CallOK(c, p), NEW plan \in Seq(Moves), c.stage = "read"
  PROVE  CallOK([c EXCEPT !.stage = "walk", !.plan = plan], "idle")
<1> DEFINE a == InStage(c, "walk")
           d == WithPlan(a, plan)
<1>1. [c EXCEPT !.stage = "walk", !.plan = plan] = d
  BY DEF InStage, WithPlan
<1>2. /\ c \in Call /\ c.kind \in {"demo", "round"} /\ c.code = 0
      /\ (c.placed = {} \/ \E o \in Orders : c.placed = {o})
  BY DEF CallOK
<1>3. a \in Call /\ a.stage = "walk" /\ Agree(c, a, Fields \ {"stage"})
  BY <1>2, Setters DEF Stages
<1>4. d \in Call /\ Agree(a, d, Fields \ {"plan"})
  BY <1>3, Setters
<1> HIDE DEF a, d
<1>5. d.stage = "walk" /\ d.kind = c.kind /\ d.placed = c.placed /\ d.code = 0
  BY <1>2, <1>3, <1>4 DEF Agree, Fields
<1> QED BY <1>1, <1>2, <1>4, <1>5 DEF CallOK, Honest

\* A request to advance an order starts as an honest call.
LEMMA RequestOK ==
  ASSUME NEW plan \in Seq(Moves)
  PROVE  CallOK([NoCall EXCEPT !.kind = "advance", !.stage = "walk", !.plan = plan], "idle")
<1> DEFINE a == OfKind(NoCall, "advance")
           b == InStage(a, "walk")
           d == WithPlan(b, plan)
<1>1. [NoCall EXCEPT !.kind = "advance", !.stage = "walk", !.plan = plan] = d
  BY DEF OfKind, InStage, WithPlan
<1>2. a \in Call /\ a.kind = "advance" /\ Agree(NoCall, a, Fields \ {"kind"})
  BY NoCallType, Setters DEF Kinds
<1>3. b \in Call /\ b.stage = "walk" /\ Agree(a, b, Fields \ {"stage"})
  BY <1>2, Setters DEF Stages
<1>4. d \in Call /\ Agree(b, d, Fields \ {"plan"})
  BY <1>3, Setters
<1> HIDE DEF a, b, d
<1>5. d.stage = "walk" /\ d.kind = "advance" /\ d.placed = {} /\ ~d.moved /\ d.code = 0
  BY <1>2, <1>3, <1>4 DEF Agree, Fields, NoCall
<1>6. CallOK(d, "idle")
  BY <1>4, <1>5 DEF CallOK, Honest
<1> QED BY <1>1, <1>6

\* A demo call, or a round of the command, starts as an honest call.
LEMMA SimulateOK ==
  ASSUME NEW kind \in {"demo", "round"}, NEW n \in Int
  PROVE  CallOK([NoCall EXCEPT !.kind = kind, !.stage = "sample", !.tries = n], "idle")
<1> DEFINE a == OfKind(NoCall, kind)
           b == InStage(a, "sample")
           d == WithTries(b, n)
<1>1. [NoCall EXCEPT !.kind = kind, !.stage = "sample", !.tries = n] = d
  BY DEF OfKind, InStage, WithTries
<1>k. kind \in Kinds
  BY DEF Kinds
<1>2. a \in Call /\ a.kind = kind /\ Agree(NoCall, a, Fields \ {"kind"})
  BY <1>k, NoCallType, Setters
<1>3. b \in Call /\ b.stage = "sample" /\ Agree(a, b, Fields \ {"stage"})
  BY <1>2, Setters DEF Stages
<1>4. d \in Call /\ Agree(b, d, Fields)
  BY <1>3, Setters
<1> HIDE DEF a, b, d
<1>5. d.stage = "sample" /\ d.kind = kind /\ d.placed = {} /\ ~d.moved /\ d.code = 0
  BY <1>2, <1>3, <1>4 DEF Agree, Fields, NoCall
<1>6. CallOK(d, "idle")
  BY <1>4, <1>5 DEF CallOK, Honest
<1> QED BY <1>1, <1>6

\* The histories do not matter to the invariant.
LEMMA HistoriesOK ==
  ASSUME NEW c, NEW p, CallOK(c, p), NEW alone \in BOOLEAN, NEW listed \in SUBSET Variants
  PROVE  /\ CallOK([c EXCEPT !.alone = alone, !.listed = listed], p)
         /\ CallOK([c EXCEPT !.alone = alone], p)
<1> DEFINE a == WithAlone(c, alone)
           d == WithListed(a, listed)
<1>1. [c EXCEPT !.alone = alone, !.listed = listed] = d /\ [c EXCEPT !.alone = alone] = a
  BY DEF WithAlone, WithListed
<1>2. c \in Call
  BY DEF CallOK
<1>3. a \in Call /\ Agree(c, a, Fields)
  BY <1>2, Setters
<1>4. d \in Call /\ Agree(a, d, Fields)
  BY <1>3, Setters
<1> HIDE DEF a, d
<1>5. /\ a.kind = c.kind /\ a.stage = c.stage /\ a.lines = c.lines /\ a.placed = c.placed
      /\ a.moved = c.moved /\ a.code = c.code
      /\ d.kind = c.kind /\ d.stage = c.stage /\ d.lines = c.lines /\ d.placed = c.placed
      /\ d.moved = c.moved /\ d.code = c.code
  BY <1>3, <1>4 DEF Agree, Fields
<1> QED BY <1>1, <1>3, <1>4, <1>5 DEF CallOK, Honest

-----------------------------------------------------------------------------
(* Steps.                                                                  *)

\* A step of worker t and its call leaves the other calls and transactions alone.
LEMMA OneCall ==
  ASSUME TrafficInv, NEW t \in Workers, NEW c,
         call' = [call EXCEPT ![t] = c], CallOK(c, pc'[t]),
         \A u \in Workers \ {t} : pc'[u] = pc[u]
  PROVE  /\ call' = [u \in Workers |-> call'[u]]
         /\ \A u \in Workers : CallOK(call'[u], pc'[u])
BY DEF TrafficInv

\* The end of a transaction.
LEMMA Ends ==
  ASSUME TrafficInv, NEW t \in Workers, EndTransaction(t)
  PROVE  pc'[t] = "idle" /\ \A u \in Workers \ {t} : pc'[u] = pc[u]
BY DEF TrafficInv, TypeInv, TypeOK, EndTransaction

\* A call comes in.
LEMMA EnterStep ==
  ASSUME TrafficInv, NEW t \in Workers, NEW c, CallOK(c, "idle"), Enter(t, c)
  PROVE  UNCHANGED vars /\ TrafficInv'
<1> DEFINE others == {u \in Workers \ {t} : call[u].stage \notin {"none", "answered"}}
           alone == (others = {} /\ c.kind = "demo")
           listed == IF c.stage \in {"sample", "place"} THEN active ELSE {}
<1>1. /\ UNCHANGED <<vars, active>> /\ pc[t] = "idle"
      /\ call' = [u \in Workers |-> IF u = t THEN [c EXCEPT !.alone = alone, !.listed = listed]
                                    ELSE [call[u] EXCEPT !.alone = FALSE]]
  BY DEF Enter, Free
<1>2. alone \in BOOLEAN /\ listed \in SUBSET Variants
  BY DEF TrafficInv
<1>3. CallOK([c EXCEPT !.alone = alone, !.listed = listed], "idle")
  BY <1>2, HistoriesOK
<1>4. ASSUME NEW u \in Workers PROVE CallOK([call[u] EXCEPT !.alone = FALSE], pc[u])
  BY HistoriesOK DEF TrafficInv
<1> HIDE DEF alone, listed
<1>5. pc' = pc /\ TypeInv'
  BY <1>1 DEF vars, data, txn, TrafficInv, TypeInv, TypeOK, JobOK
<1>6. \A u \in Workers : CallOK(call'[u], pc'[u])
  BY <1>1, <1>3, <1>4, <1>5
<1> QED BY <1>1, <1>5, <1>6 DEF TrafficInv

\* PlaceOrderSerializer answers 400 before anything is placed (serializers.py:69).
LEMMA RejectedOK ==
  LET c == [NoCall EXCEPT !.stage = "answered", !.code = 400]
  IN CallOK(c, "idle") /\ c.stage = "answered"
<1> DEFINE a == InStage(NoCall, "answered")
           d == WithCode(a, 400)
<1>1. [NoCall EXCEPT !.stage = "answered", !.code = 400] = d
  BY DEF InStage, WithCode
<1>2. a \in Call /\ a.stage = "answered" /\ Agree(NoCall, a, Fields \ {"stage"})
  BY NoCallType, Setters DEF Stages
<1> HIDE DEF a
<1>3. d \in Call /\ d.code = 400 /\ Agree(a, d, Fields \ {"code"})
  <2>1. \A x \in Int : LET e == WithCode(a, x) IN
          e \in Call /\ e.code = x /\ Agree(a, e, Fields \ {"code"})
    BY <1>2, Setters
  <2> HIDE DEF Agree
  <2> QED BY <2>1
<1> HIDE DEF d
<1>4. d.stage = "answered" /\ d.placed = {} /\ ~d.moved /\ d.code = 400
  BY <1>2, <1>3 DEF Agree, Fields, NoCall
<1>5. CallOK(d, "idle")
  BY <1>3, <1>4 DEF CallOK, Honest
<1> QED BY <1>1, <1>4, <1>5

\* A call that comes in is no step of the service and keeps the invariant.
LEMMA ArriveStep ==
  ASSUME TrafficInv, NEW t \in Workers, Arrive(t)
  PROVE  UNCHANGED vars /\ TrafficInv'
<1>1. CallOK(NoCall, "idle")
  BY NoCallType DEF CallOK, NoCall, Honest
<1>2. ASSUME NEW l \in OrderLines, Create(t, l) PROVE UNCHANGED vars /\ TrafficInv'
  <2>1. CallOK([NoCall EXCEPT !.stage = "place", !.lines = l], "idle")
    BY <1>1, ToPlaceOK
  <2>2. CallOK([NoCall EXCEPT !.stage = "answered", !.code = 400], "idle")
    BY RejectedOK
  <2>3. CASE Named(l) \subseteq active
    BY <1>2, <2>1, <2>3, EnterStep DEF Create
  <2>4. CASE ~(Named(l) \subseteq active)
    BY <1>2, <2>2, <2>4, EnterStep DEF Create
  <2> QED BY <2>3, <2>4
<1>3. ASSUME NEW o \in Orders, NEW to \in Targets, Request(t, o, to)
      PROVE  UNCHANGED vars /\ TrafficInv'
  <2>1. <<[order |-> o, to |-> to]>> \in Seq(Moves)
    BY TargetsAssumption DEF Moves
  <2> QED BY <1>3, <2>1, RequestOK, EnterStep DEF Request
<1>4. ASSUME NEW kind \in {"demo", "round"}, Simulate(t, kind)
      PROVE  UNCHANGED vars /\ TrafficInv'
  <2>1. (IF kind = "demo" THEN 3 ELSE 1) \in Int
    OBVIOUS
  <2> QED BY <1>4, <2>1, SimulateOK, EnterStep DEF Simulate
<1> QED BY <1>2, <1>3, <1>4 DEF Arrive

\* Taking a variant off sale is no step of the service and keeps the invariant.
LEMMA ToggleStep ==
  ASSUME TrafficInv, NEW v \in Variants, Toggle(v)
  PROVE  UNCHANGED vars /\ TrafficInv'
<1> DEFINE listed(u) == IF Choosing(u) THEN call[u].listed \cup active' ELSE call[u].listed
<1>1. /\ UNCHANGED vars /\ active' \subseteq Variants
      /\ call' = [u \in Workers |-> [call[u] EXCEPT !.alone = FALSE, !.listed = listed(u)]]
  BY DEF Toggle, TrafficInv
<1>2. ASSUME NEW u \in Workers
      PROVE  CallOK([call[u] EXCEPT !.alone = FALSE, !.listed = listed(u)], pc[u])
  <2>1. CallOK(call[u], pc[u]) /\ listed(u) \in SUBSET Variants
    BY <1>1 DEF TrafficInv, CallOK, Call
  <2> HIDE DEF listed
  <2> QED BY <2>1, HistoriesOK
<1> HIDE DEF listed
<1>3. pc' = pc /\ TypeInv'
  BY <1>1 DEF vars, data, txn, TrafficInv, TypeInv, TypeOK, JobOK
<1> QED BY <1>1, <1>2, <1>3 DEF TrafficInv

-----------------------------------------------------------------------------
(* Between its transactions a call decides.                                *)

\* A step of one call that leaves it honest keeps the invariant: calls share
\* nothing but the tables.
LEMMA CallMoves ==
  ASSUME TrafficInv, NEW t \in Workers, NEW c, [Next]_vars, Update(t, c),
         CallOK(c, pc'[t]), \A u \in Workers \ {t} : pc'[u] = pc[u]
  PROVE  TrafficInv'
<1>1. TypeInv'
  BY NextType DEF TrafficInv
<1> QED BY <1>1, OneCall DEF Update, TrafficInv

\* The same for a step that leaves every call record alone.
LEMMA CallStays ==
  ASSUME TrafficInv, NEW t \in Workers, [Next]_vars, UNCHANGED <<active, call>>,
         CallOK(call[t], pc'[t]), \A u \in Workers \ {t} : pc'[u] = pc[u]
  PROVE  TrafficInv'
<1>1. TypeInv'
  BY NextType DEF TrafficInv
<1> QED BY <1>1 DEF TrafficInv

\* What advance_random_orders chooses from: orders there are, and statuses.
LEMMA PlansType ==
  ASSUME TrafficInv, NEW limit \in {1, 2}, NEW p \in Plans(limit)
  PROVE  p \in Seq(Moves)
<1> DEFINE k == Cardinality(Candidates)
           n == Min({limit, k})
<1>1. k \in Nat
  BY OrdersAssumption, FS_Subset, FS_CardinalityType DEF Candidates
<1>2. n \in Nat
  <2>1. \E x \in {limit, k} : \A y \in {limit, k} : x <= y
    BY <1>1
  <2>2. n \in {limit, k}
    BY <2>1 DEF Min
  <2> QED BY <1>1, <2>2
<1>3. ASSUME NEW o \in Candidates PROVE Steps(o) \subseteq Moves
  <2>1. o \in Orders /\ status[o] \in Statuses
    BY DEF Candidates, TrafficInv, TypeInv, TypeOK
  <2>2. Flow[status[o]] \subseteq Statuses
    BY <2>1 DEF Flow, Statuses
  <2> QED BY <2>1, <2>2 DEF Steps, Moves
<1>4. p \in [1..n -> UNION {Steps(o) : o \in Candidates}]
  BY DEF Plans
<1> HIDE DEF n
<1>5. p \in [1..n -> Moves]
  BY <1>3, <1>4
<1> QED BY <1>2, <1>5

\* Every decision between transactions is a step of the service, or none, and keeps
\* the invariant.
LEMMA DecideStep ==
  ASSUME TrafficInv, Statuses \subseteq Targets, NEW t \in Workers, Decide(t)
  PROVE  [Next]_vars /\ TrafficInv'
<1>t. /\ CallOK(call[t], pc[t]) /\ call[t] \in Call
      /\ pc \in [Workers -> PcStates]
  BY DEF TrafficInv, CallOK, TypeInv, TypeOK
<1>1. CASE Sample(t)
  <2>1. UNCHANGED vars /\ pc' = pc /\ pc[t] = "idle"
    BY <1>1 DEF Sample, At, vars, txn
  <2>s. /\ call[t].stage = "sample" /\ call[t].kind \in {"demo", "round"} /\ call[t].code = 0
        /\ ~call[t].moved
    BY <1>1, <1>t DEF Sample, At, CallOK
  <2>2. ASSUME NEW l \in Samples, Update(t, [call[t] EXCEPT !.stage = "place", !.lines = l])
        PROVE  TrafficInv'
    <3>1. l \in OrderLines
      BY DEF Samples
    <3> QED BY <1>t, <2>1, <2>s, <2>2, <3>1, ToPlaceOK, CallMoves
  <2>3. CASE Update(t, ToRead(call[t]))
    BY <1>t, <2>1, <2>s, <2>3, ToReadOK, CallMoves
  <2> QED BY <1>1, <2>1, <2>2, <2>3 DEF Sample
<1>2. CASE BeginPlace(t)
  <2>1. PICK o \in Orders : PlaceOrder(t, o, call[t].lines)
    BY <1>2 DEF BeginPlace
  <2>2. call[t].stage = "place" /\ call[t].lines \in OrderLines
    BY <1>2, <1>t DEF BeginPlace, At, CallOK
  <2>3. Next
    BY <2>1, <2>2 DEF Next, Place
  <2>4. pc'[t] = "place" /\ \A u \in Workers \ {t} : pc'[u] = pc[u]
    BY <2>1, <1>t DEF PlaceOrder
  <2>5. CallOK(call[t], "place")
    BY <1>t, <2>2 DEF CallOK
  <2> QED BY <1>2, <2>3, <2>4, <2>5, CallStays DEF BeginPlace
<1>3. CASE ReadCandidates(t)
  <2>1. UNCHANGED vars /\ pc' = pc /\ pc[t] = "idle" /\ call[t].stage = "read"
    BY <1>3 DEF ReadCandidates, At, vars, txn
  <2>2. PICK limit \in {1, 2} : \E p \in Plans(limit) :
          Update(t, [call[t] EXCEPT !.stage = "walk", !.plan = p])
    BY <1>3 DEF ReadCandidates
  <2>3. PICK p \in Plans(limit) : Update(t, [call[t] EXCEPT !.stage = "walk", !.plan = p])
    BY <2>2
  <2>4. p \in Seq(Moves)
    BY PlansType
  <2> QED BY <1>t, <2>1, <2>3, <2>4, ToWalkOK, CallMoves
<1>4. CASE BeginAdvance(t)
  <2> DEFINE o == Head(call[t].plan).order
             to == Head(call[t].plan).to
             d == WithPlan(call[t], Tail(call[t].plan))
  <2>1. /\ call[t].stage = "walk" /\ call[t].plan # <<>> /\ call[t].plan \in Seq(Moves)
        /\ AdvanceOrder(t, o, to)
        /\ Update(t, [call[t] EXCEPT !.plan = Tail(@)])
    BY <1>4, <1>t DEF BeginAdvance, At, Call
  <2>2. Head(call[t].plan) \in Moves /\ Tail(call[t].plan) \in Seq(Moves)
    BY <2>1
  <2>3. o \in Orders /\ to \in Targets
    BY <2>2 DEF Moves
  <2>4. Next
    BY <2>1, <2>3 DEF Next, Advance
  <2>5. pc'[t] = "order" /\ \A u \in Workers \ {t} : pc'[u] = pc[u]
    BY <2>1, <1>t DEF AdvanceOrder
  <2>6. Update(t, d)
    BY <2>1 DEF WithPlan
  <2>7. d \in Call /\ Agree(call[t], d, Fields \ {"plan"})
    BY <1>t, <2>2, Setters
  <2> HIDE DEF d, o, to
  <2>8. /\ d.kind = call[t].kind /\ d.stage = call[t].stage /\ d.lines = call[t].lines
        /\ d.placed = call[t].placed /\ d.moved = call[t].moved /\ d.code = call[t].code
    BY <2>7 DEF Agree, Fields
  <2>9. CallOK(d, "order")
    BY <1>t, <2>1, <2>7, <2>8 DEF CallOK, Honest
  <2> QED BY <2>4, <2>5, <2>6, <2>9, CallMoves
<1>5. CASE Respond(t)
  <2> DEFINE code == CASE call[t].kind = "round" -> 0
                       [] call[t].kind = "demo" /\ call[t].placed # {} -> 201
                       [] call[t].kind = "demo" /\ call[t].placed = {} /\ call[t].moved -> 200
                       [] OTHER -> 409
  <2>1. /\ UNCHANGED vars /\ pc' = pc /\ pc[t] = "idle" /\ call[t].stage = "walk"
        /\ Answer(t, code, call[t])
    BY <1>5 DEF Respond, At, vars, txn
  <2>2. /\ code \in Int
        /\ code = 201 => call[t].placed # {}
        /\ code = 200 => call[t].placed = {} /\ call[t].moved
        /\ code \in {400, 409} => call[t].placed = {} /\ ~call[t].moved
    <3>1. call[t].kind \in {"advance", "demo", "round"}
          /\ (call[t].kind = "advance" => call[t].placed = {} /\ ~call[t].moved)
      BY <2>1, <1>t DEF CallOK, Call, Kinds
    <3> QED BY <3>1
  <2> HIDE DEF code
  <2> QED BY <1>t, <2>1, <2>2, Answers, AnsweredOK, CallMoves
<1>6. CASE Leave(t)
  <2>1. UNCHANGED vars /\ pc' = pc /\ pc[t] = "idle" /\ Update(t, NoCall)
    BY <1>6 DEF Leave, At, vars, txn
  <2>2. CallOK(NoCall, "idle")
    BY NoCallType DEF CallOK, NoCall, Honest
  <2> QED BY <2>1, <2>2, CallMoves
<1> QED BY <1>1, <1>2, <1>3, <1>4, <1>5, <1>6 DEF Decide

-----------------------------------------------------------------------------
(* What its transactions come to.                                          *)

\* Every outcome of a transaction is a step of the service and leaves a call that
\* tells what it has committed.
LEMMA OutcomeStep ==
  ASSUME TrafficInv, NEW t \in Workers, Outcome(t)
  PROVE  [Next]_vars /\ TrafficInv'
<1>t. /\ CallOK(call[t], pc[t]) /\ call[t] \in Call
      /\ call[t].kind \in Kinds /\ call[t].placed \in SUBSET Orders
  BY DEF TrafficInv, CallOK, Call
<1>1. CASE Refused(t)
  <2>1. InsufficientStock(t) /\ EndTransaction(t) /\ pc[t] = "place"
    BY <1>1 DEF Refused, InsufficientStock, Rollback
  <2>2. Next
    BY <2>1 DEF Next, Place
  <2>3. pc'[t] = "idle" /\ \A u \in Workers \ {t} : pc'[u] = pc[u]
    BY <2>1, Ends
  <2>4. /\ call[t].stage = "place" /\ call[t].placed = {} /\ ~call[t].moved
        /\ call[t].code = 0 /\ call[t].kind # "advance"
    BY <1>t, <2>1 DEF CallOK
  <2>5. CASE call[t].kind = "create"
    <3>1. Answer(t, 409, call[t])
      BY <1>1, <2>5 DEF Refused
    <3> QED BY <1>t, <2>2, <2>3, <2>4, <3>1, Answers, AnsweredOK, CallMoves
  <2>6. CASE call[t].kind # "create" /\ call[t].tries > 1
    <3>1. Update(t, Again(call[t], call[t].tries - 1))
      BY <1>1, <2>6 DEF Refused, Again
    <3>2. call[t].tries - 1 \in Int /\ call[t].kind \in {"demo", "round"}
      BY <1>t, <2>4, <2>6 DEF Call, Kinds
    <3> QED BY <1>t, <2>2, <2>3, <2>4, <3>1, <3>2, AgainOK, CallMoves
  <2>7. CASE call[t].kind # "create" /\ ~(call[t].tries > 1)
    <3>1. Update(t, ToRead(call[t]))
      BY <1>1, <2>7 DEF Refused
    <3>2. call[t].kind \in {"demo", "round"}
      BY <1>t, <2>4, <2>7 DEF Kinds
    <3> QED BY <1>t, <2>2, <2>3, <2>4, <3>1, <3>2, ToReadOK, CallMoves
  <2> QED BY <2>5, <2>6, <2>7
<1>2. CASE Placed(t)
  <2> DEFINE c == WithPlaced(call[t], call[t].placed \cup {job[t].order})
  <2>1. CommitPlacement(t) /\ EndTransaction(t) /\ pc[t] = "place"
    BY <1>2 DEF Placed, CommitPlacement
  <2>2. Next
    BY <2>1 DEF Next, Place
  <2>3. pc'[t] = "idle" /\ \A u \in Workers \ {t} : pc'[u] = pc[u]
    BY <2>1, Ends
  <2>4. /\ call[t].stage = "place" /\ call[t].placed = {} /\ ~call[t].moved
        /\ call[t].code = 0 /\ call[t].kind # "advance"
        /\ job[t].order \in Orders
    BY <1>t, <2>1 DEF CallOK, TrafficInv, TypeInv, JobOK
  <2>5. IF c.kind = "create" THEN Answer(t, 201, c) ELSE Update(t, ToRead(c))
    BY <1>2 DEF Placed, WithPlaced
  <2>6. c \in Call /\ c.placed = {job[t].order} /\ Agree(call[t], c, Fields \ {"placed"})
    <3>1. call[t].placed \cup {job[t].order} = {job[t].order} /\ {job[t].order} \in SUBSET Orders
      BY <2>4
    <3>2. \A x \in SUBSET Orders : LET d == WithPlaced(call[t], x) IN
            d \in Call /\ d.placed = x /\ Agree(call[t], d, Fields \ {"placed"})
      BY <1>t, Setters
    <3> QED BY <3>1, <3>2
  <2> HIDE DEF c
  <2>7. c.kind = call[t].kind /\ c.moved = call[t].moved /\ c.code = 0
    BY <2>4, <2>6 DEF Agree, Fields
  <2>8. CASE c.kind = "create"
    <3> DEFINE d == AnsweredCall(201, c.placed, c.moved)
    <3>1. Update(t, d)
      BY <2>5, <2>8, Answers
    <3>2. c.placed \in SUBSET Orders /\ c.moved \in BOOLEAN
      BY <2>6 DEF Call
    <3>3. d \in Call /\ d.stage = "answered" /\ d.code = 201 /\ d.placed = c.placed
      BY <3>2, Answered
    <3> HIDE DEF d
    <3>4. CallOK(d, "idle")
      BY <2>4, <2>6, <3>3 DEF CallOK, Honest
    <3> QED BY <2>2, <2>3, <3>1, <3>4, CallMoves
  <2>9. CASE c.kind # "create"
    <3>1. c.kind \in {"demo", "round"} /\ Update(t, ToRead(c))
      BY <1>t, <2>4, <2>5, <2>7, <2>9 DEF Kinds
    <3> DEFINE d == InStage(c, "read")
    <3>2. d \in Call /\ d.stage = "read" /\ Agree(c, d, Fields \ {"stage"})
      BY <2>6, Setters DEF Stages
    <3>3. ToRead(d) = ToRead(c)
      BY DEF ToRead, InStage
    <3> HIDE DEF d
    <3>4. /\ d.kind = c.kind /\ d.placed = {job[t].order} /\ d.code = 0 /\ ~d.moved
      BY <2>4, <2>6, <2>7, <3>2 DEF Agree, Fields
    <3>5. CallOK(d, "idle")
      BY <2>4, <3>1, <3>2, <3>4 DEF CallOK, Honest
    <3> QED BY <2>2, <2>3, <3>1, <3>3, <3>4, <3>5, ToReadOK, CallMoves
  <2> QED BY <2>8, <2>9
<1>3. CASE Advanced(t)
  <2> DEFINE c == WithMoved(call[t], TRUE)
  <2>1. /\ CommitTransition(t) \/ CommitCancellation(t)
        /\ EndTransaction(t) /\ pc[t] \in {"locked", "restock"}
    BY <1>3 DEF Advanced, CommitTransition, CommitCancellation
  <2>2. Next
    BY <2>1 DEF Next, Advance
  <2>3. pc'[t] = "idle" /\ \A u \in Workers \ {t} : pc'[u] = pc[u]
    BY <2>1, Ends
  <2>4. /\ call[t].stage = "walk" /\ call[t].kind # "create" /\ call[t].code = 0
        /\ call[t].kind = "advance" => call[t].placed = {}
        /\ call[t].placed = {} \/ \E o \in Orders : call[t].placed = {o}
    BY <1>t, <2>1 DEF CallOK
  <2>5. IF c.kind = "advance" THEN Answer(t, 200, c) ELSE Update(t, c)
    BY <1>3 DEF Advanced, WithMoved
  <2>6. c \in Call /\ c.moved = TRUE /\ Agree(call[t], c, Fields \ {"moved"})
    BY <1>t, Setters
  <2> HIDE DEF c
  <2>7. c.kind = call[t].kind /\ c.stage = "walk" /\ c.placed = call[t].placed /\ c.code = 0
    BY <2>4, <2>6 DEF Agree, Fields
  <2>8. CASE c.kind = "advance"
    <3> DEFINE d == AnsweredCall(200, c.placed, c.moved)
    <3>1. Update(t, d)
      BY <2>5, <2>8, Answers
    <3>2. c.placed \in SUBSET Orders /\ c.moved \in BOOLEAN
      BY <2>6 DEF Call
    <3>3. /\ d \in Call /\ d.stage = "answered" /\ d.code = 200
          /\ d.placed = c.placed /\ d.moved = c.moved
      BY <3>2, Answered
    <3> HIDE DEF d
    <3>4. CallOK(d, "idle")
      BY <2>4, <2>6, <2>7, <2>8, <3>3 DEF CallOK, Honest
    <3> QED BY <2>2, <2>3, <3>1, <3>4, CallMoves
  <2>9. CASE c.kind # "advance"
    <3>1. CallOK(c, "idle")
      BY <2>4, <2>6, <2>7, <2>9 DEF CallOK, Honest
    <3> QED BY <2>2, <2>3, <2>5, <2>9, <3>1, CallMoves
  <2> QED BY <2>8, <2>9
<1>4. CASE NotAdvanced(t)
  <2>1. InvalidTransition(t) /\ EndTransaction(t) /\ pc[t] = "locked"
    BY <1>4 DEF NotAdvanced, InvalidTransition, Rollback
  <2>2. Next
    BY <2>1 DEF Next, Advance
  <2>3. pc'[t] = "idle" /\ \A u \in Workers \ {t} : pc'[u] = pc[u]
    BY <2>1, Ends
  <2>4. call[t].stage = "walk"
    BY <1>t, <2>1 DEF CallOK
  <2>5. CASE call[t].kind = "advance"
    <3>1. call[t].placed = {} /\ ~call[t].moved /\ Answer(t, 400, call[t])
      BY <1>4, <1>t, <2>4, <2>5 DEF CallOK, NotAdvanced
    <3> QED BY <1>t, <2>2, <2>3, <3>1, Answers, AnsweredOK, CallMoves
  <2>6. CASE call[t].kind # "advance"
    <3>1. CallOK(call[t], "idle") /\ UNCHANGED <<active, call>>
      BY <1>4, <1>t, <2>6 DEF CallOK, NotAdvanced
    <3> QED BY <2>2, <2>3, <3>1, CallStays
  <2> QED BY <2>5, <2>6
<1> QED BY <1>1, <1>2, <1>3, <1>4 DEF Outcome

\* Every statement inside a transaction is a step of the service that no call sees.
LEMMA InsideStep ==
  ASSUME TrafficInv, NEW t \in Workers, Inside(t)
  PROVE  [Next]_vars /\ TrafficInv'
<1>t. CallOK(call[t], pc[t]) /\ pc \in [Workers -> PcStates] /\ UNCHANGED <<active, call>>
  BY DEF TrafficInv, TypeInv, TypeOK, Inside
<1>1. CASE LockOrder(t)
  <2>1. Next
    BY <1>1 DEF Next, Advance
  <2>2. pc[t] = "order" /\ pc'[t] = "locked" /\ \A u \in Workers \ {t} : pc'[u] = pc[u]
    BY <1>1, <1>t DEF LockOrder
  <2>3. CallOK(call[t], pc'[t])
    BY <1>t, <2>2 DEF CallOK
  <2> QED BY <1>t, <2>1, <2>2, <2>3, CallStays
<1>2. ASSUME NEW k \in Key, LockStockRow(t, k) \/ RecreateStockRow(t, k)
      PROVE  [Next]_vars /\ TrafficInv'
  <2>1. Next
    BY <1>2 DEF Next, Advance
  <2>2. pc' = pc
    BY <1>2 DEF LockStockRow, RecreateStockRow
  <2> QED BY <1>t, <2>1, <2>2, CallStays
<1>3. CASE BeginRestock(t)
  <2>1. Next
    BY <1>3 DEF Next, Advance
  <2>2. pc[t] = "locked" /\ pc'[t] = "restock" /\ \A u \in Workers \ {t} : pc'[u] = pc[u]
    BY <1>3, <1>t DEF BeginRestock
  <2>3. CallOK(call[t], pc'[t])
    BY <1>t, <2>2 DEF CallOK
  <2> QED BY <1>t, <2>1, <2>2, <2>3, CallStays
<1> QED BY <1>1, <1>2, <1>3 DEF Inside, Grant

\* A call that breaks answers 500, or nothing, and its transaction is aborted.
LEMMA BrokenStep ==
  ASSUME TrafficInv, NEW t \in Workers, Broken(t)
  PROVE  [Next]_vars /\ TrafficInv'
<1>1. CallOK(call[t], pc[t]) /\ Answer(t, 500, call[t])
  BY DEF TrafficInv, Broken
<1>2. [Next]_vars /\ pc'[t] = "idle" /\ \A u \in Workers \ {t} : pc'[u] = pc[u]
  <2>1. CASE Abort(t)
    BY <2>1, Ends DEF Abort, Rollback, Next
  <2>2. CASE DuplicateStockRow(t)
    BY <2>2, Ends DEF DuplicateStockRow, Rollback, Next, Advance
  <2>3. CASE pc[t] = "idle" /\ UNCHANGED vars
    BY <2>3 DEF vars, txn
  <2> QED BY <2>1, <2>2, <2>3 DEF Broken
<1> QED BY <1>1, <1>2, Answers, AnsweredOK, CallMoves

-----------------------------------------------------------------------------
(* The theorems.  Callers may ask for any status, as the API lets them.    *)

\* Every step of the traffic is a step of the service or a stutter, and keeps the
\* invariant.
LEMMA TrafficStep ==
  ASSUME Statuses \subseteq Targets, TrafficInv, [TrafficNext]_allVars
  PROVE  [Next]_vars /\ TrafficInv'
<1>1. CASE UNCHANGED allVars
  BY <1>1 DEF allVars, vars, data, txn, TrafficInv, TypeInv, TypeOK, JobOK
<1>2. CASE TrafficNext
  BY <1>2, ArriveStep, InsideStep, DecideStep, OutcomeStep, BrokenStep, ToggleStep DEF TrafficNext
<1> QED BY <1>1, <1>2

\* The invariant holds always.
LEMMA TrafficInvariant ==
  ASSUME Statuses \subseteq Targets
  PROVE  TrafficSpec => []TrafficInv
<1>1. TrafficInv /\ [TrafficNext]_allVars => TrafficInv'
  BY TrafficStep
<1> QED BY <1>1, InvInit, PTL DEF TrafficSpec

\* The calls of the API and of the demo traffic run the service as OrderService
\* describes it: what is proved of the service holds behind them.
THEOREM TrafficRunsService ==
  ASSUME Statuses \subseteq Targets
  PROVE  TrafficSpec => Spec
<1>1. TrafficInit => Init
  BY DEF TrafficInit
<1>2. TrafficInv /\ [TrafficNext]_allVars => [Next]_vars
  BY TrafficStep
<1> QED BY <1>1, <1>2, TrafficInvariant, PTL DEF TrafficSpec, Spec

\* An answer tells what its call has committed.
THEOREM HonestAnswers ==
  ASSUME Statuses \subseteq Targets
  PROVE  TrafficSpec => []AnswersHonest
<1>1. TrafficInv => AnswersHonest
  <2> SUFFICES ASSUME TrafficInv, NEW t \in Workers
               PROVE  /\ call[t].code = 201 => Cardinality(call[t].placed) = 1
                      /\ call[t].code = 200 => call[t].placed = {} /\ call[t].moved
                      /\ call[t].code \in {400, 409} => call[t].placed = {} /\ ~call[t].moved
    BY DEF AnswersHonest
  <2>1. Honest(call[t])
    BY DEF TrafficInv, CallOK
  <2>2. \A o : Cardinality({o}) = 1
    BY FS_Singleton
  <2> QED BY <2>1, <2>2 DEF Honest
<1> QED BY <1>1, TrafficInvariant, PTL

\* Stale reads and repeated calls never make the audit trail of an order illegal.
THEOREM TrafficAudit ==
  ASSUME Statuses \subseteq Targets
  PROVE  TrafficSpec => []AuditIsLifecycle
BY TrafficRunsService, AuditComplete, PTL

\* Nor do they sell a unit that is not there.
THEOREM TrafficNeverOversells ==
  ASSUME Statuses \subseteq Targets
  PROVE  TrafficSpec => []NoOversell
BY TrafficRunsService, NeverOversold, PTL

-----------------------------------------------------------------------------
(* Sold while listed: a call that still chooses or places has listed every *)
(* variant that is active, and every variant of its lines.                 *)

Lists(c) == /\ c.stage \in {"sample", "place"} => active \subseteq c.listed
            /\ c.stage = "place" => Named(c.lines) \subseteq c.listed

\* A running placement is that of the call's lines.
SameLines(t) == pc[t] = "place" => job[t].lines = call[t].lines

ListedInv == \A t \in Workers : Lists(call[t]) /\ SameLines(t)

\* A call that goes on keeps its history, and samples or places as before.
LEMMA SameListed ==
  ASSUME NEW c \in Call, NEW l, NEW n
  PROVE  /\ LET d == [c EXCEPT !.stage = "place", !.lines = l]
            IN d.stage = "place" /\ d.lines = l /\ d.listed = c.listed
         /\ LET d == Again(c, n) IN d.stage = "sample" /\ d.listed = c.listed
         /\ ToRead(c).stage = "read"
BY DEF Call, Again, ToRead

\* What a call that comes in lists.
LEMMA EntersListed ==
  ASSUME NEW c \in Call, NEW a, NEW l
  PROVE  LET d == [c EXCEPT !.alone = a, !.listed = l]
         IN d.stage = c.stage /\ d.lines = c.lines /\ d.listed = l
BY DEF Call

\* Losing the history of being alone changes nothing else.
LEMMA DisturbedListed ==
  ASSUME NEW c \in Call
  PROVE  LET d == [c EXCEPT !.alone = FALSE]
         IN d.stage = c.stage /\ d.lines = c.lines /\ d.listed = c.listed
BY DEF Call

\* The others keep what they list while one call moves on.
LEMMA ListedMoves ==
  ASSUME TrafficInv, ListedInv, NEW t \in Workers, NEW c,
         Update(t, c), Lists(c), pc'[t] = "place" => job'[t].lines = c.lines,
         \A u \in Workers \ {t} : pc'[u] = pc[u] /\ job'[u] = job[u]
  PROVE  ListedInv'
<1>1. call'[t] = c /\ active' = active /\ \A u \in Workers \ {t} : call'[u] = call[u]
  BY DEF Update, TrafficInv
<1>2. \A u \in Workers \ {t} : Lists(call[u])' /\ SameLines(u)'
  BY <1>1 DEF ListedInv, Lists, SameLines
<1>3. Lists(call[t])' /\ SameLines(t)'
  BY <1>1 DEF Lists, SameLines
<1> QED BY <1>2, <1>3 DEF ListedInv

\* The same while a transaction runs and every call stays as it is.
LEMMA ListedStays ==
  ASSUME ListedInv, NEW t \in Workers, UNCHANGED <<active, call>>, SameLines(t)',
         \A u \in Workers \ {t} : pc'[u] = pc[u] /\ job'[u] = job[u]
  PROVE  ListedInv'
BY DEF ListedInv, Lists, SameLines

\* A call that has stopped choosing lists nothing.
LEMMA NothingListed ==
  ASSUME NEW c, c.stage \notin {"sample", "place"}
  PROVE  Lists(c)
BY DEF Lists

\* The end of a transaction, for the placement that was running.
LEMMA EndsListed ==
  ASSUME TrafficInv, NEW t \in Workers, EndTransaction(t)
  PROVE  /\ pc'[t] = "idle"
         /\ \A u \in Workers \ {t} : pc'[u] = pc[u] /\ job'[u] = job[u]
BY DEF TrafficInv, TypeInv, TypeOK, EndTransaction

\* An answer ends the choice.
LEMMA AnswerStage ==
  ASSUME NEW code, NEW placed, NEW moved
  PROVE  AnsweredCall(code, placed, moved).stage = "answered"
BY DEF AnsweredCall, NoCall

\* A call that comes in lists what is active, and its lines name nothing else.
LEMMA ArriveListed ==
  ASSUME TrafficInv, ListedInv, NEW t \in Workers, Arrive(t)
  PROVE  ListedInv'
<1>1. ASSUME NEW c \in Call, Enter(t, c), c.stage = "place" => Named(c.lines) \subseteq active
      PROVE  ListedInv'
  <2> DEFINE alone == {u \in Workers \ {t} : call[u].stage \notin {"none", "answered"}} = {} /\ c.kind = "demo"
             listed == IF c.stage \in {"sample", "place"} THEN active ELSE {}
             d == [c EXCEPT !.alone = alone, !.listed = listed]
  <2>1. /\ pc[t] = "idle" /\ pc' = pc /\ job' = job /\ active' = active
        /\ call'[t] = d
        /\ \A u \in Workers \ {t} : call'[u] = [call[u] EXCEPT !.alone = FALSE]
    BY <1>1 DEF Enter, Free, vars, txn
  <2>2. d.stage = c.stage /\ d.lines = c.lines /\ d.listed = listed
    BY EntersListed
  <2> HIDE DEF d
  <2>3. Lists(call[t])' /\ SameLines(t)'
    BY <1>1, <2>1, <2>2 DEF Lists, SameLines
  <2>4. ASSUME NEW u \in Workers \ {t} PROVE Lists(call[u])' /\ SameLines(u)'
    <3>1. call[u] \in Call
      BY DEF TrafficInv, CallOK
    <3>2. /\ call'[u].stage = call[u].stage /\ call'[u].lines = call[u].lines
          /\ call'[u].listed = call[u].listed
      BY <2>1, <3>1, DisturbedListed
    <3> QED BY <2>1, <3>2 DEF ListedInv, Lists, SameLines
  <2> QED BY <2>3, <2>4 DEF ListedInv
<1>2. ASSUME NEW l \in OrderLines, Create(t, l) PROVE ListedInv'
  <2>1. l \in [Key -> Nat]
    BY MaxLineAssumption DEF OrderLines
  <2>2. CASE Named(l) \subseteq active
    <3> DEFINE c == [NoCall EXCEPT !.stage = "place", !.lines = l]
    <3>1. c \in Call /\ c.lines = l
      BY <2>1, NoCallType DEF Call, Stages, NoCall
    <3>2. Enter(t, c)
      BY <1>2, <2>2 DEF Create
    <3> HIDE DEF c
    <3> QED BY <1>1, <2>2, <3>1, <3>2
  <2>3. CASE ~(Named(l) \subseteq active)
    <3> DEFINE c == [NoCall EXCEPT !.stage = "answered", !.code = 400]
    <3>1. c \in Call /\ c.stage = "answered"
      BY RejectedOK DEF CallOK
    <3>2. Enter(t, c)
      BY <1>2, <2>3 DEF Create
    <3> HIDE DEF c
    <3> QED BY <1>1, <3>1, <3>2
  <2> QED BY <2>2, <2>3
<1>3. ASSUME NEW o \in Orders, NEW to \in Targets, Request(t, o, to) PROVE ListedInv'
  <2> DEFINE p == <<[order |-> o, to |-> to]>>
             c == [NoCall EXCEPT !.kind = "advance", !.stage = "walk", !.plan = p]
  <2>1. p \in Seq(Moves)
    BY TargetsAssumption DEF Moves
  <2> HIDE DEF p
  <2>2. c \in Call /\ c.stage = "walk"
    BY <2>1, NoCallType DEF Call, Stages, Kinds, NoCall
  <2>3. Enter(t, c)
    BY <1>3 DEF Request, p
  <2> HIDE DEF c
  <2> QED BY <1>1, <2>2, <2>3
<1>4. ASSUME NEW kind \in {"demo", "round"}, Simulate(t, kind) PROVE ListedInv'
  <2> DEFINE n == IF kind = "demo" THEN 3 ELSE 1
             c == [NoCall EXCEPT !.kind = kind, !.stage = "sample", !.tries = n]
  <2>1. n \in Int /\ kind \in Kinds
    BY DEF Kinds
  <2> HIDE DEF n
  <2>2. c \in Call /\ c.stage = "sample"
    BY <2>1, NoCallType DEF Call, Stages, NoCall
  <2>3. Enter(t, c)
    BY <1>4 DEF Simulate, n
  <2> HIDE DEF c
  <2> QED BY <1>1, <2>2, <2>3
<1> QED BY <1>2, <1>3, <1>4 DEF Arrive

\* Taking a variant off sale, or back, lists what is active afterwards.
LEMMA ToggleListed ==
  ASSUME TrafficInv, ListedInv, NEW v \in Variants, Toggle(v)
  PROVE  ListedInv'
<1> SUFFICES ASSUME NEW u \in Workers PROVE Lists(call[u])' /\ SameLines(u)'
  BY DEF ListedInv
<1> DEFINE c == call[u]
           listed == IF Choosing(u) THEN c.listed \cup active' ELSE c.listed
<1>1. call'[u] = [c EXCEPT !.alone = FALSE, !.listed = listed] /\ pc' = pc /\ job' = job
  BY DEF Toggle, vars, txn
<1>2. c \in Call /\ Lists(c) /\ SameLines(u)
  BY DEF TrafficInv, CallOK, ListedInv
<1>3. call'[u].stage = c.stage /\ call'[u].lines = c.lines /\ call'[u].listed = listed
  BY <1>1, <1>2, EntersListed
<1> QED BY <1>1, <1>2, <1>3 DEF Lists, SameLines, Choosing

\* Every decision, outcome, statement and failure of a call keeps what the calls
\* list.
LEMMA WorkListed ==
  ASSUME TrafficInv, ListedInv, NEW t \in Workers,
         Inside(t) \/ Decide(t) \/ Outcome(t) \/ Broken(t)
  PROVE  ListedInv'
<1>t. /\ CallOK(call[t], pc[t]) /\ call[t] \in Call /\ Lists(call[t]) /\ SameLines(t)
      /\ pc \in [Workers -> PcStates] /\ job \in [Workers -> Jobs]
  BY DEF TrafficInv, CallOK, TypeInv, TypeOK, ListedInv
<1>a. ASSUME NEW code, NEW c, Answer(t, code, c), pc'[t] = "idle",
             \A u \in Workers \ {t} : pc'[u] = pc[u] /\ job'[u] = job[u]
      PROVE  ListedInv'
  <2> DEFINE d == AnsweredCall(code, c.placed, c.moved)
  <2>1. Update(t, d) /\ d.stage = "answered"
    BY <1>a, Answers, AnswerStage
  <2> HIDE DEF d
  <2> QED BY <1>a, <2>1, NothingListed, ListedMoves
<1>r. ASSUME NEW c \in Call, Update(t, ToRead(c)), pc'[t] = "idle",
             \A u \in Workers \ {t} : pc'[u] = pc[u] /\ job'[u] = job[u]
      PROVE  ListedInv'
  <2>1. ToRead(c).stage = "read"
    BY SameListed
  <2> QED BY <1>r, <2>1, NothingListed, ListedMoves
<1>v. ASSUME NEW c, UNCHANGED vars, pc[t] = "idle", Update(t, c), Lists(c) PROVE ListedInv'
  <2>1. pc' = pc /\ job' = job
    BY <1>v DEF vars, txn
  <2> QED BY <1>v, <2>1, ListedMoves
<1>1. CASE Sample(t)
  <2>1. UNCHANGED vars /\ pc[t] = "idle" /\ pc' = pc /\ job' = job /\ call[t].stage = "sample"
    BY <1>1 DEF Sample, At, vars, txn
  <2>2. ASSUME NEW l \in Samples, Update(t, [call[t] EXCEPT !.stage = "place", !.lines = l])
        PROVE  ListedInv'
    <3> DEFINE d == [call[t] EXCEPT !.stage = "place", !.lines = l]
    <3>1. d.stage = "place" /\ d.lines = l /\ d.listed = call[t].listed
      BY <1>t, SameListed
    <3>2. Named(l) \subseteq active /\ active \subseteq call[t].listed
      BY <1>t, <2>1 DEF Samples, Lists
    <3> HIDE DEF d
    <3>3. Lists(d)
      BY <3>1, <3>2 DEF Lists
    <3> QED BY <1>v, <2>1, <2>2, <3>3 DEF d
  <2>3. CASE Update(t, ToRead(call[t]))
    BY <1>r, <1>t, <2>1, <2>3
  <2> QED BY <1>1, <2>2, <2>3 DEF Sample
<1>2. CASE BeginPlace(t)
  <2>1. PICK o \in Orders : PlaceOrder(t, o, call[t].lines)
    BY <1>2 DEF BeginPlace
  <2>2. /\ job'[t].lines = call[t].lines
        /\ \A u \in Workers \ {t} : pc'[u] = pc[u] /\ job'[u] = job[u]
    BY <1>t, <2>1 DEF PlaceOrder
  <2>3. UNCHANGED <<active, call>>
    BY <1>2 DEF BeginPlace
  <2>4. SameLines(t)'
    BY <2>2, <2>3 DEF SameLines
  <2> QED BY <2>2, <2>3, <2>4, ListedStays
<1>3. CASE ReadCandidates(t)
  <2>1. UNCHANGED vars /\ pc[t] = "idle"
    BY <1>3 DEF ReadCandidates, At
  <2>2. PICK p : Update(t, [call[t] EXCEPT !.stage = "walk", !.plan = p])
    BY <1>3 DEF ReadCandidates
  <2> DEFINE d == [call[t] EXCEPT !.stage = "walk", !.plan = p]
  <2>3. d.stage = "walk"
    BY <1>t DEF Call
  <2> HIDE DEF d
  <2> QED BY <1>v, <2>1, <2>2, <2>3, NothingListed DEF d
<1>4. CASE BeginAdvance(t)
  <2> DEFINE d == [call[t] EXCEPT !.plan = Tail(@)]
  <2>1. /\ Update(t, d) /\ call[t].stage = "walk"
        /\ AdvanceOrder(t, Head(call[t].plan).order, Head(call[t].plan).to)
    BY <1>4 DEF BeginAdvance, At
  <2>2. pc'[t] = "order" /\ \A u \in Workers \ {t} : pc'[u] = pc[u] /\ job'[u] = job[u]
    BY <1>t, <2>1 DEF AdvanceOrder
  <2>3. d.stage = "walk"
    BY <1>t, <2>1 DEF Call
  <2> HIDE DEF d
  <2> QED BY <2>1, <2>2, <2>3, NothingListed, ListedMoves
<1>5. CASE Respond(t)
  <2>1. UNCHANGED vars /\ pc[t] = "idle" /\ pc' = pc /\ job' = job
    BY <1>5 DEF Respond, At, vars, txn
  <2>2. PICK code : Answer(t, code, call[t])
    BY <1>5 DEF Respond
  <2> QED BY <1>a, <2>1, <2>2
<1>6. CASE Leave(t)
  <2>1. UNCHANGED vars /\ pc[t] = "idle" /\ Update(t, NoCall)
    BY <1>6 DEF Leave, At
  <2>2. Lists(NoCall)
    BY NothingListed DEF NoCall
  <2> QED BY <1>v, <2>1, <2>2
<1>7. CASE Refused(t)
  <2>1. EndTransaction(t) /\ pc[t] = "place"
    BY <1>7 DEF Refused, InsufficientStock, Rollback
  <2>2. pc'[t] = "idle" /\ \A u \in Workers \ {t} : pc'[u] = pc[u] /\ job'[u] = job[u]
    BY <2>1, EndsListed
  <2>3. CASE call[t].kind = "create"
    BY <1>7, <1>a, <2>2, <2>3 DEF Refused
  <2>4. CASE call[t].kind # "create" /\ call[t].tries > 1
    <3> DEFINE d == Again(call[t], call[t].tries - 1)
    <3>1. Update(t, d)
      BY <1>7, <2>4 DEF Refused, Again
    <3>2. d.stage = "sample" /\ d.listed = call[t].listed
      BY <1>t, SameListed
    <3>3. active \subseteq call[t].listed
      BY <1>t, <2>1 DEF CallOK, Lists
    <3> HIDE DEF d
    <3>4. Lists(d)
      BY <3>2, <3>3 DEF Lists
    <3> QED BY <2>2, <3>1, <3>4, ListedMoves
  <2>5. CASE call[t].kind # "create" /\ ~(call[t].tries > 1)
    BY <1>7, <1>r, <1>t, <2>2, <2>5 DEF Refused
  <2> QED BY <2>3, <2>4, <2>5
<1>8. CASE Placed(t)
  <2> DEFINE c == WithPlaced(call[t], call[t].placed \cup {job[t].order})
  <2>1. EndTransaction(t) /\ pc[t] = "place"
    BY <1>8 DEF Placed, CommitPlacement
  <2>2. pc'[t] = "idle" /\ \A u \in Workers \ {t} : pc'[u] = pc[u] /\ job'[u] = job[u]
    BY <2>1, EndsListed
  <2>3. Answer(t, 201, c) \/ Update(t, ToRead(c))
    BY <1>8 DEF Placed, WithPlaced
  <2>4. call[t].placed \cup {job[t].order} \in SUBSET Orders
    BY <1>t, <2>1 DEF Call, TrafficInv, TypeInv, JobOK
  <2>5. c \in Call
    BY <1>t, <2>4, Setters
  <2> HIDE DEF c
  <2> QED BY <1>a, <1>r, <2>2, <2>3, <2>5
<1>9. CASE Advanced(t)
  <2> DEFINE c == WithMoved(call[t], TRUE)
  <2>1. EndTransaction(t) /\ pc[t] \in {"locked", "restock"}
    BY <1>9 DEF Advanced, CommitTransition, CommitCancellation
  <2>2. pc'[t] = "idle" /\ \A u \in Workers \ {t} : pc'[u] = pc[u] /\ job'[u] = job[u]
    BY <2>1, EndsListed
  <2>3. Answer(t, 200, c) \/ Update(t, c)
    BY <1>9 DEF Advanced, WithMoved
  <2>4. call[t].stage = "walk" /\ c.stage = call[t].stage
    BY <1>t, <2>1 DEF CallOK, Call, WithMoved
  <2> HIDE DEF c
  <2> QED BY <1>a, <2>2, <2>3, <2>4, NothingListed, ListedMoves
<1>10. CASE NotAdvanced(t)
  <2>1. EndTransaction(t)
    BY <1>10 DEF NotAdvanced, InvalidTransition, Rollback
  <2>2. pc'[t] = "idle" /\ \A u \in Workers \ {t} : pc'[u] = pc[u] /\ job'[u] = job[u]
    BY <2>1, EndsListed
  <2>3. Answer(t, 400, call[t]) \/ UNCHANGED <<active, call>>
    BY <1>10 DEF NotAdvanced
  <2>4. SameLines(t)'
    BY <2>2 DEF SameLines
  <2> QED BY <1>a, <2>2, <2>3, <2>4, ListedStays
<1>11. CASE Inside(t)
  <2>1. /\ UNCHANGED <<active, call>>
        /\ \A u \in Workers \ {t} : pc'[u] = pc[u] /\ job'[u] = job[u]
    BY <1>11, <1>t DEF Inside, Grant, LockOrder, LockStockRow, RecreateStockRow, BeginRestock
  <2>2. pc'[t] = "place" => pc[t] = "place" /\ job'[t] = job[t]
    BY <1>11, <1>t DEF Inside, Grant, LockOrder, LockStockRow, RecreateStockRow, BeginRestock
  <2>3. SameLines(t)'
    BY <1>t, <2>1, <2>2 DEF SameLines
  <2> QED BY <2>1, <2>3, ListedStays
<1>12. CASE Broken(t)
  <2>1. Answer(t, 500, call[t])
    BY <1>12 DEF Broken
  <2>2. pc'[t] = "idle" /\ \A u \in Workers \ {t} : pc'[u] = pc[u] /\ job'[u] = job[u]
    <3>1. EndTransaction(t) \/ (pc[t] = "idle" /\ UNCHANGED vars)
      BY <1>12 DEF Broken, Abort, DuplicateStockRow, Rollback
    <3> QED BY <3>1, EndsListed DEF vars, txn
  <2> QED BY <1>a, <2>1, <2>2
<1> QED BY <1>1, <1>2, <1>3, <1>4, <1>5, <1>6, <1>7, <1>8, <1>9, <1>10, <1>11, <1>12
        DEF Decide, Outcome

\* Every step keeps what the calls list.
LEMMA ListedStep == TrafficInv /\ ListedInv /\ [TrafficNext]_allVars => ListedInv'
<1> SUFFICES ASSUME TrafficInv, ListedInv, [TrafficNext]_allVars PROVE ListedInv'
  OBVIOUS
<1>1. CASE UNCHANGED allVars
  BY <1>1 DEF allVars, vars, txn, ListedInv, Lists, SameLines
<1>2. CASE TrafficNext
  BY <1>2, ArriveListed, ToggleListed, WorkListed DEF TrafficNext
<1> QED BY <1>1, <1>2

\* What a call sells was for sale at some moment since it came in, although
\* is_active is not looked at again after the lines were chosen.
THEOREM SoldWasListed ==
  ASSUME Statuses \subseteq Targets
  PROVE  TrafficSpec => SoldWhileListed
<1>1. TrafficInit => ListedInv
  BY DEF TrafficInit, Init, ListedInv, Lists, SameLines, NoCall
<1>2. TrafficInv /\ ListedInv => \A t \in Workers : Placed(t) => Named(job[t].lines) \subseteq call[t].listed
  <2> SUFFICES ASSUME TrafficInv, ListedInv, NEW t \in Workers, Placed(t)
               PROVE  Named(job[t].lines) \subseteq call[t].listed
    OBVIOUS
  <2>1. pc[t] = "place"
    BY DEF Placed, CommitPlacement
  <2> QED BY <2>1 DEF TrafficInv, CallOK, ListedInv, Lists, SameLines
<1> QED BY <1>1, <1>2, TrafficInvariant, ListedStep, PTL DEF TrafficSpec, SoldWhileListed

-----------------------------------------------------------------------------
(* Alone never refused: while a demo call is alone the others are at rest, *)
(* what it places fits the stock, and what it still has to advance fits    *)
(* the statuses.                                                           *)

Fits(l) == \A k \in Key : l[k] <= stock[k].qty

\* Each row the placement asked for is still to be locked, or in hand as committed.
HandFits(t) ==
  \A k \in Key : /\ want[t][k] \in {0, stock[k].pk}
                 /\ job[t].lines[k] > 0 /\ want[t][k] = 0 => got[t][k] = stock[k]

PlanFits(p) ==
  /\ \A i \in 1..Len(p) : p[i].to \in Flow[status[p[i].order]]
  /\ \A i, j \in 1..Len(p) : i # j => p[i].order # p[j].order

JobFits(t) ==
  /\ job[t].to \in Flow[status[job[t].order]]
  /\ \A i \in 1..Len(call[t].plan) : call[t].plan[i].order # job[t].order

OthersRest(t) == \A u \in Workers \ {t} : call[u].stage \in {"none", "answered"}

AloneOK(t) ==
  /\ OthersRest(t)
  /\ call[t].stage = "place" => Fits(call[t].lines)
  /\ pc[t] = "place" => HandFits(t)
  /\ call[t].stage = "walk" => PlanFits(call[t].plan)
  /\ pc[t] \in {"order", "locked", "restock"} => JobFits(t)

AloneInv == \A t \in Workers : call[t].alone => AloneOK(t)

\* The invariants that the argument builds on.
SharedInv == TrafficInv /\ ListedInv /\ RowInv

\* A demo call's own samples fit the stock it locks: while it is alone nobody has
\* taken a unit since it read (demo.py:23-44).
LEMMA AloneNotRefused ==
  ASSUME SharedInv, NEW t \in Workers, AloneOK(t)
  PROVE  ~Refused(t)
<1> SUFFICES ASSUME Refused(t) PROVE FALSE
  OBVIOUS
<1>1. pc[t] = "place" /\ want[t] = NothingWanted
  BY DEF Refused, InsufficientStock, SelectDone
<1>2. PICK k \in Key : got[t][k].qty < job[t].lines[k]
  BY DEF Refused, InsufficientStock, Shortages
<1>3. call[t].stage = "place" /\ call[t].lines = job[t].lines
  BY <1>1 DEF SharedInv, TrafficInv, CallOK, ListedInv, SameLines
<1>4. want[t][k] = 0 /\ job[t].lines[k] <= stock[k].qty
  BY <1>1, <1>3 DEF NothingWanted, AloneOK, Fits
<1>5. /\ job[t].lines[k] \in Nat /\ stock[k].qty \in Int /\ got[t][k].qty \in Int
      /\ got[t][k].pk = 0 => got[t][k] = NoRow
      /\ got[t][k].pk # 0 => got[t][k].qty >= 0
  <2>1. TypeOK /\ HandOK(t, k)
    BY DEF SharedInv, RowInv, JobInv, TypeInv, HandsSound
  <2> QED BY <2>1 DEF TypeOK, Jobs, Row, HandOK
<1>6. CASE job[t].lines[k] > 0
  <2>1. got[t][k] = stock[k]
    BY <1>1, <1>4, <1>6 DEF AloneOK, HandFits
  <2> QED BY <1>2, <1>4, <1>5, <2>1
<1>7. CASE job[t].lines[k] = 0
  BY <1>2, <1>5, <1>7 DEF NoRow
<1> QED BY <1>5, <1>6, <1>7

\* Nor is a transition that it chose from the statuses it read (demo.py:47-70).
LEMMA AloneNotInvalid ==
  ASSUME SharedInv, NEW t \in Workers, AloneOK(t)
  PROVE  ~NotAdvanced(t)
BY DEF SharedInv, RowInv, JobInv, OrderLockSound, AloneOK, JobFits, NotAdvanced, InvalidTransition,
       TransitionAllowed

\* What the updates of a call leave of its history, stage and plan.
LEMMA SameAlone ==
  ASSUME NEW c \in Call, NEW x
  PROVE  /\ LET d == [c EXCEPT !.stage = "place", !.lines = x]
            IN d.stage = "place" /\ d.lines = x /\ d.alone = c.alone
         /\ LET d == [c EXCEPT !.stage = "walk", !.plan = x]
            IN d.stage = "walk" /\ d.plan = x /\ d.alone = c.alone
         /\ LET d == [c EXCEPT !.plan = Tail(@)]
            IN d.stage = c.stage /\ d.plan = Tail(c.plan) /\ d.alone = c.alone
         /\ LET d == Again(c, x) IN d.stage = "sample" /\ d.alone = c.alone
         /\ ToRead(c).stage = "read" /\ ToRead(c).alone = c.alone
         /\ WithPlaced(c, x).alone = c.alone
         /\ LET d == WithMoved(c, x)
            IN d.stage = c.stage /\ d.plan = c.plan /\ d.alone = c.alone
BY DEF Call, Again, ToRead, WithPlaced, WithMoved

\* An answered call, and a worker without a call, are not alone.
LEMMA AnsweredNotAlone ==
  ASSUME NEW code, NEW placed, NEW moved
  PROVE  ~AnsweredCall(code, placed, moved).alone /\ ~NoCall.alone
BY DEF AnsweredCall, NoCall

\* A call at rest has no transaction: all it can do is leave, which changes nothing.
LEMMA RestLeaves ==
  ASSUME SharedInv, NEW t \in Workers, call[t].stage \in {"none", "answered"},
         Inside(t) \/ Decide(t) \/ Outcome(t) \/ Broken(t)
  PROVE  UNCHANGED vars /\ Update(t, NoCall)
<1>1. CallOK(call[t], pc[t]) /\ pc \in [Workers -> PcStates]
  BY DEF SharedInv, TrafficInv, TypeInv, TypeOK
<1>2. pc[t] = "idle"
  BY <1>1 DEF CallOK, PcStates
<1>3. ~Inside(t)
  BY <1>2 DEF Inside, Grant, LockOrder, LockStockRow, RecreateStockRow, BeginRestock
<1>4. ~Outcome(t)
  BY <1>2 DEF Outcome, Refused, InsufficientStock, Placed, CommitPlacement, Advanced,
              CommitTransition, CommitCancellation, NotAdvanced, InvalidTransition
<1>5. ~Broken(t)
  BY DEF Broken
<1>6. Decide(t) => Leave(t)
  BY DEF Decide, Sample, BeginPlace, ReadCandidates, BeginAdvance, Respond, At
<1> QED BY <1>3, <1>4, <1>5, <1>6 DEF Leave

\* What an alone call relies on is in the tables and in its own record.
LEMMA AloneUndisturbed ==
  ASSUME NEW t \in Workers, AloneOK(t), UNCHANGED vars, call'[t] = call[t],
         \A u \in Workers \ {t} : call'[u].stage \in {"none", "answered"}
  PROVE  AloneOK(t)'
BY DEF AloneOK, OthersRest, Fits, HandFits, PlanFits, JobFits, vars, data, txn

\* The smaller of two numbers is at most the second.
LEMMA MinBound == ASSUME NEW a \in Int, NEW b \in Int PROVE Min({a, b}) <= b
<1>1. \E x \in {a, b} : \A y \in {a, b} : x <= y
  OBVIOUS
<1> QED BY <1>1 DEF Min

\* place_random_order samples lines that fit the stock it reads.
LEMMA SamplesFit ==
  ASSUME SharedInv, NEW l \in Samples
  PROVE  Fits(l)
<1> SUFFICES ASSUME NEW k \in Key PROVE l[k] <= stock[k].qty
  BY DEF Fits
<1>1. l[k] <= Min({2, stock[k].qty}) /\ stock[k].qty \in Int
  BY DEF Samples, SharedInv, TrafficInv, TypeInv, TypeOK, Row
<1>2. Min({2, stock[k].qty}) <= stock[k].qty
  BY <1>1, MinBound
<1>3. l[k] \in Int
  BY MaxLineAssumption DEF Samples, OrderLines
<1>4. Min({2, stock[k].qty}) \in Int
  <2>1. \E x \in {2, stock[k].qty} : \A y \in {2, stock[k].qty} : x <= y
    BY <1>1
  <2>2. Min({2, stock[k].qty}) \in {2, stock[k].qty}
    BY <2>1 DEF Min
  <2> QED BY <1>1, <2>2
<1> QED BY <1>1, <1>2, <1>3, <1>4

\* advance_random_orders chooses transitions that the statuses it reads allow, at
\* most one per order.
LEMMA PlansFit ==
  ASSUME SharedInv, NEW limit \in {1, 2}, NEW p \in Plans(limit)
  PROVE  PlanFits(p)
<1> DEFINE n == Min({limit, Cardinality(Candidates)})
<1>1. p \in Seq(Moves)
  BY PlansType DEF SharedInv
<1>2. p \in [1..n -> UNION {Steps(o) : o \in Candidates}]
      /\ \A i, j \in 1..n : i # j => p[i].order # p[j].order
  BY DEF Plans
<1>3. 1..Len(p) = 1..n
  BY <1>1, <1>2
<1> HIDE DEF n
<1>4. ASSUME NEW i \in 1..Len(p) PROVE p[i].to \in Flow[status[p[i].order]]
  <2>1. PICK o \in Candidates : p[i] \in Steps(o)
    BY <1>2, <1>3
  <2> QED BY <2>1 DEF Steps
<1> QED BY <1>2, <1>3, <1>4 DEF PlanFits

\* The SELECT of a placement that fits sees a row for every line.
LEMMA BeginPlaceFits ==
  ASSUME SharedInv, NEW t \in Workers, AloneOK(t), BeginPlace(t)
  PROVE  HandFits(t)' /\ pc'[t] = "place"
<1>1. PICK o \in Orders : PlaceOrder(t, o, call[t].lines)
  BY DEF BeginPlace
<1>2. call[t].stage = "place" /\ call[t].lines \in OrderLines
  BY DEF BeginPlace, At, SharedInv, TrafficInv, CallOK
<1>t. TypeOK
  BY DEF SharedInv, TrafficInv, TypeInv
<1>3. /\ pc'[t] = "place" /\ job'[t].lines = call[t].lines
      /\ want'[t] = [k \in Key |-> IF call[t].lines[k] > 0 THEN stock[k].pk ELSE 0]
      /\ stock' = stock /\ got' = got
  BY <1>1, <1>t DEF PlaceOrder, Snapshot, TypeOK, data
<1>4. ASSUME NEW k \in Key, call[t].lines[k] > 0 PROVE stock[k].pk # 0
  <2>1. call[t].lines[k] <= stock[k].qty /\ call[t].lines[k] \in Int
    BY <1>2, MaxLineAssumption DEF AloneOK, Fits, OrderLines
  <2>2. stock[k].pk = 0 => stock[k].qty = 0
    BY DEF SharedInv, RowInv, RowsSound, NoRow
  <2>3. stock[k].qty \in Int
    BY <1>t DEF TypeOK, Row
  <2> QED BY <1>4, <2>1, <2>2, <2>3
<1> QED BY <1>3, <1>4 DEF HandFits

\* Locking the next row reads it as it was sampled.
LEMMA LockFits ==
  ASSUME SharedInv, NEW t \in Workers, AloneOK(t), pc[t] = "place", NEW k \in Key, LockStockRow(t, k)
  PROVE  HandFits(t)'
<1>t. TypeOK
  BY DEF SharedInv, TrafficInv, TypeInv
<1>1. HandFits(t) /\ want[t][k] # 0
  BY DEF AloneOK, LockStockRow, NextRow
<1>2. stock[k].pk = want[t][k]
  BY <1>1 DEF HandFits
<1>3. /\ got' = [got EXCEPT ![t][k] = stock[k]] /\ want' = [want EXCEPT ![t][k] = 0]
      /\ stock' = stock /\ job' = job
  BY <1>2 DEF LockStockRow, data
<1>4. /\ got'[t][k] = stock[k] /\ want'[t][k] = 0
      /\ \A j \in Key \ {k} : got'[t][j] = got[t][j] /\ want'[t][j] = want[t][j]
  BY <1>3, <1>t DEF TypeOK
<1> QED BY <1>1, <1>3, <1>4 DEF HandFits

\* The rest of a plan is about other orders than the transition that has begun.
LEMMA BeginAdvanceFits ==
  ASSUME SharedInv, NEW t \in Workers, AloneOK(t), BeginAdvance(t)
  PROVE  /\ pc'[t] = "order" /\ call'[t].stage = "walk" /\ call'[t].alone = call[t].alone
         /\ PlanFits(call[t].plan)' /\ JobFits(t)'
<1> DEFINE p == call[t].plan
           d == [call[t] EXCEPT !.plan = Tail(@)]
<1>t. TypeOK /\ call[t] \in Call /\ p \in Seq(Moves)
  BY DEF SharedInv, TrafficInv, TypeInv, CallOK, Call
<1>1. /\ call[t].stage = "walk" /\ p # <<>> /\ AdvanceOrder(t, Head(p).order, Head(p).to)
      /\ Update(t, d)
  BY DEF BeginAdvance, At
<1>2. call'[t] = d
  BY <1>1 DEF Update, SharedInv, TrafficInv
<1>3. d.stage = "walk" /\ d.plan = Tail(p) /\ d.alone = call[t].alone
  BY <1>1, <1>t, SameAlone
<1>4. /\ pc'[t] = "order" /\ status' = status
      /\ job'[t].order = p[1].order /\ job'[t].to = p[1].to
  BY <1>1, <1>t DEF AdvanceOrder, TypeOK, data, NoJob
<1>5. /\ Len(p) >= 1 /\ Len(Tail(p)) = Len(p) - 1 /\ Len(p) \in Nat
      /\ \A i \in 1..Len(Tail(p)) : Tail(p)[i] = p[i + 1] /\ i + 1 \in 1..Len(p)
  BY <1>1, <1>t
<1>6. PlanFits(p)
  BY <1>1 DEF AloneOK
<1> HIDE DEF p, d
<1>7. PlanFits(Tail(p))
  BY <1>5, <1>6 DEF PlanFits
<1>8. \A i \in 1..Len(Tail(p)) : Tail(p)[i].order # p[1].order
  BY <1>5, <1>6 DEF PlanFits
<1>9. p[1].to \in Flow[status[p[1].order]]
  BY <1>5, <1>6 DEF PlanFits
<1> QED BY <1>2, <1>3, <1>4, <1>7, <1>8, <1>9 DEF PlanFits, JobFits

\* A transition that commits leaves the other orders as the plan read them.
LEMMA AdvancedFits ==
  ASSUME SharedInv, NEW t \in Workers, AloneOK(t), Advanced(t), call'[t].alone
  PROVE  /\ call[t].alone /\ pc'[t] = "idle" /\ call'[t].stage = "walk"
         /\ PlanFits(call[t].plan)'
<1> DEFINE p == call[t].plan
           c == WithMoved(call[t], TRUE)
           o == job[t].order
<1>t. TypeOK /\ call[t] \in Call /\ call = [u \in Workers |-> call[u]]
  BY DEF SharedInv, TrafficInv, TypeInv, CallOK
<1>1. /\ WriteStatus(t) /\ EndTransaction(t) /\ pc[t] \in {"locked", "restock"}
  BY DEF Advanced, CommitTransition, CommitCancellation
<1>2. call[t].stage = "walk" /\ PlanFits(p) /\ JobFits(t)
  BY <1>1 DEF SharedInv, TrafficInv, CallOK, AloneOK
<1>3. Answer(t, 200, c) \/ Update(t, c)
  BY DEF Advanced, WithMoved
<1>4. c.stage = "walk" /\ c.plan = p /\ c.alone = call[t].alone
  BY <1>t, <1>2 DEF Call, WithMoved
<1> HIDE DEF c
<1>5. Answer(t, 200, c) => FALSE
  <2> SUFFICES ASSUME Answer(t, 200, c) PROVE FALSE
    OBVIOUS
  <2>1. call'[t] = AnsweredCall(200, c.placed, c.moved)
    BY <1>t, Answers DEF Update
  <2> QED BY <2>1, AnsweredNotAlone
<1>6. call'[t] = c
  BY <1>t, <1>3, <1>5 DEF Update
<1>7. \A q \in Orders : q # o => status'[q] = status[q]
  BY <1>1, <1>t DEF WriteStatus, TypeOK
<1>8. p \in Seq(Moves)
  BY <1>t DEF Call
<1>9. \A i \in 1..Len(p) : p[i].order \in Orders /\ p[i].order # o
  <2>1. \A i \in 1..Len(p) : p[i] \in Moves
    BY <1>8
  <2>2. \A i \in 1..Len(p) : p[i].order # o
    BY <1>2 DEF JobFits
  <2> HIDE DEF p
  <2> QED BY <2>1, <2>2 DEF Moves
<1>10. pc'[t] = "idle"
  BY <1>1, Ends DEF SharedInv
<1> HIDE DEF p, o
<1>11. PlanFits(p)'
  BY <1>2, <1>4, <1>6, <1>7, <1>9 DEF PlanFits, p
<1> QED BY <1>4, <1>6, <1>10, <1>11 DEF p

\* A call that is alone and goes on stays in step with what it has read.
LEMMA OwnStepFits ==
  ASSUME SharedInv, NEW t \in Workers, call[t].alone => AloneOK(t),
         Inside(t) \/ Decide(t) \/ Outcome(t) \/ Broken(t), call'[t].alone,
         \A u \in Workers \ {t} : call'[u] = call[u]
  PROVE  AloneOK(t)'
<1>t. /\ TypeOK /\ call[t] \in Call /\ call = [u \in Workers |-> call[u]] /\ CallOK(call[t], pc[t])
  BY DEF SharedInv, TrafficInv, TypeInv, CallOK
<1>u. \A c : Update(t, c) => call'[t] = c
  BY <1>t DEF Update
<1>a. ASSUME NEW code, NEW c, Answer(t, code, c) PROVE FALSE
  BY <1>a, <1>u, Answers, AnsweredNotAlone
<1>o. AloneOK(t) => OthersRest(t)'
  BY DEF AloneOK, OthersRest
<1>1. CASE Sample(t)
  <2>1. pc[t] = "idle" /\ pc' = pc /\ stock' = stock
    BY <1>1 DEF Sample, At, vars, data, txn
  <2>2. ASSUME NEW l \in Samples, Update(t, [call[t] EXCEPT !.stage = "place", !.lines = l])
        PROVE  AloneOK(t)'
    <3> DEFINE d == [call[t] EXCEPT !.stage = "place", !.lines = l]
    <3>0. d.stage = "place" /\ d.lines = l /\ d.alone = call[t].alone
      BY <1>t, SameAlone
    <3> HIDE DEF d
    <3>1. call'[t].stage = "place" /\ call'[t].lines = l /\ call[t].alone
      BY <1>u, <2>2, <3>0 DEF d
    <3> QED BY <1>o, <2>1, <3>1, SamplesFit DEF AloneOK, Fits
  <2>3. CASE Update(t, ToRead(call[t]))
    <3>1. call'[t].stage = "read" /\ call[t].alone
      BY <1>t, <1>u, <2>3, SameAlone
    <3> QED BY <1>o, <2>1, <3>1 DEF AloneOK
  <2> QED BY <1>1, <2>2, <2>3 DEF Sample
<1>2. CASE BeginPlace(t)
  <2>1. call' = call /\ call[t].stage = "place" /\ stock' = stock
    BY <1>2 DEF BeginPlace, At, PlaceOrder, data
  <2> QED BY <1>2, <1>o, <2>1, BeginPlaceFits DEF AloneOK, Fits
<1>3. CASE ReadCandidates(t)
  <2>1. pc[t] = "idle" /\ pc' = pc /\ status' = status
    BY <1>3 DEF ReadCandidates, At, vars, data, txn
  <2>2. PICK limit \in {1, 2} : \E p \in Plans(limit) :
          Update(t, [call[t] EXCEPT !.stage = "walk", !.plan = p])
    BY <1>3 DEF ReadCandidates
  <2>3. PICK p \in Plans(limit) : Update(t, [call[t] EXCEPT !.stage = "walk", !.plan = p])
    BY <2>2
  <2> DEFINE d == [call[t] EXCEPT !.stage = "walk", !.plan = p]
  <2>d. d.stage = "walk" /\ d.plan = p /\ d.alone = call[t].alone
    BY <1>t, SameAlone
  <2> HIDE DEF d
  <2>4. call'[t].stage = "walk" /\ call'[t].plan = p /\ call[t].alone
    BY <1>u, <2>3, <2>d DEF d
  <2> QED BY <1>o, <2>1, <2>4, PlansFit DEF AloneOK, PlanFits
<1>4. CASE BeginAdvance(t)
  <2> DEFINE d == [call[t] EXCEPT !.plan = Tail(@)]
  <2>d. d.alone = call[t].alone
    BY <1>t, SameAlone
  <2> HIDE DEF d
  <2>1. call'[t].alone = call[t].alone
    BY <1>4, <1>u, <2>d DEF BeginAdvance, d
  <2> QED BY <1>4, <1>o, <2>1, BeginAdvanceFits DEF AloneOK
<1>5. CASE Respond(t)
  BY <1>5, <1>a DEF Respond
<1>6. CASE Leave(t)
  BY <1>6, <1>u, AnsweredNotAlone DEF Leave
<1>7. CASE Refused(t)
  <2>1. call[t].alone
    <3>1. ASSUME Update(t, Again(call[t], call[t].tries - 1)) PROVE call[t].alone
      BY <1>t, <1>u, <3>1, SameAlone
    <3>2. ASSUME Update(t, ToRead(call[t])) PROVE call[t].alone
      BY <1>t, <1>u, <3>2, SameAlone
    <3> QED BY <1>7, <1>a, <3>1, <3>2 DEF Refused, Again
  <2> QED BY <1>7, <2>1, AloneNotRefused
<1>8. CASE Placed(t)
  <2> DEFINE c == WithPlaced(call[t], call[t].placed \cup {job[t].order})
  <2>1. EndTransaction(t) /\ pc[t] = "place"
    BY <1>8 DEF Placed, CommitPlacement
  <2>2. pc'[t] = "idle"
    BY <2>1, Ends DEF SharedInv
  <2>3. Answer(t, 201, c) \/ Update(t, ToRead(c))
    BY <1>8 DEF Placed, WithPlaced
  <2>4. call[t].placed \cup {job[t].order} \in SUBSET Orders
    BY <1>t, <2>1 DEF Call, SharedInv, TrafficInv, TypeInv, JobOK
  <2>5. c \in Call /\ c.alone = call[t].alone
    BY <1>t, <2>4, Setters, SameAlone
  <2> HIDE DEF c
  <2>6. call'[t].stage = "read" /\ call[t].alone
    BY <1>a, <1>u, <2>3, <2>5, SameAlone
  <2> QED BY <1>o, <2>2, <2>6 DEF AloneOK
<1>9. CASE Advanced(t)
  <2>1. call[t].alone
    <3>1. WithMoved(call[t], TRUE).alone = call[t].alone
      BY <1>t DEF Call, WithMoved
    <3> QED BY <1>9, <1>a, <1>u, <3>1 DEF Advanced, WithMoved
  <2> QED BY <1>9, <1>o, <2>1, AdvancedFits DEF AloneOK
<1>10. CASE NotAdvanced(t)
  <2>1. call[t].alone
    BY <1>10, <1>a DEF NotAdvanced
  <2> QED BY <1>10, <2>1, AloneNotInvalid
<1>11. CASE Inside(t)
  <2>0. call' = call /\ AloneOK(t)
    BY <1>11 DEF Inside
  <2>1. CASE LockOrder(t)
    <3>1. /\ pc[t] = "order" /\ pc'[t] = "locked" /\ stock' = stock /\ status' = status
          /\ job'[t].order = job[t].order /\ job'[t].to = job[t].to
      BY <2>1, <1>t DEF LockOrder, TypeOK, data
    <3> QED BY <1>o, <2>0, <3>1 DEF AloneOK, Fits, PlanFits, JobFits
  <2>2. ASSUME NEW k \in Key, LockStockRow(t, k) PROVE AloneOK(t)'
    <3>1. pc' = pc /\ stock' = stock /\ status' = status /\ job' = job
      BY <2>2 DEF LockStockRow, data
    <3>2. pc[t] = "place" => HandFits(t)'
      BY <2>0, <2>2, LockFits
    <3> QED BY <1>o, <2>0, <3>1, <3>2 DEF AloneOK, Fits, PlanFits, JobFits
  <2>3. ASSUME NEW k \in Key, RecreateStockRow(t, k) PROVE AloneOK(t)'
    <3>1. pc' = pc /\ pc[t] = "restock" /\ stock' = stock /\ status' = status /\ job' = job
      BY <2>3 DEF RecreateStockRow
    <3> QED BY <1>o, <2>0, <3>1 DEF AloneOK, Fits, PlanFits, JobFits
  <2>4. CASE BeginRestock(t)
    <3>1. /\ pc[t] = "locked" /\ pc'[t] = "restock" /\ stock' = stock /\ status' = status
          /\ job' = job
      BY <2>4, <1>t DEF BeginRestock, TypeOK, data
    <3> QED BY <1>o, <2>0, <3>1 DEF AloneOK, Fits, PlanFits, JobFits
  <2> QED BY <1>11, <2>1, <2>2, <2>3, <2>4 DEF Inside, Grant
<1>12. CASE Broken(t)
  BY <1>12, <1>a DEF Broken
<1> QED BY <1>1, <1>2, <1>3, <1>4, <1>5, <1>6, <1>7, <1>8, <1>9, <1>10, <1>11, <1>12
        DEF Decide, Outcome

\* A call at work keeps what the alone call relies on, its own or another's.
LEMMA WorkAlone ==
  ASSUME SharedInv, AloneInv, NEW t \in Workers,
         Inside(t) \/ Decide(t) \/ Outcome(t) \/ Broken(t)
  PROVE  AloneInv'
<1>1. \A u \in Workers \ {t} : call'[u] = call[u]
  <2>1. call' = call \/ \E c : Update(t, c)
    BY DEF Inside, Decide, Sample, BeginPlace, ReadCandidates, BeginAdvance, Respond, Leave, Outcome,
           Refused, Placed, Advanced, NotAdvanced, Broken, Answer
  <2> QED BY <2>1 DEF Update, SharedInv, TrafficInv
<1>2. ASSUME NEW u \in Workers \ {t}, call'[u].alone PROVE AloneOK(u)'
  <2>1. call[u].alone /\ AloneOK(u) /\ call[t].stage \in {"none", "answered"}
    BY <1>1, <1>2 DEF AloneInv, AloneOK, OthersRest
  <2>2. UNCHANGED vars /\ Update(t, NoCall)
    BY <2>1, RestLeaves
  <2>3. call'[t].stage = "none"
    BY <2>2 DEF Update, SharedInv, TrafficInv, NoCall
  <2>4. \A v \in Workers \ {u} : call'[v].stage \in {"none", "answered"}
    BY <1>1, <2>1, <2>3 DEF AloneOK, OthersRest
  <2> QED BY <1>1, <2>1, <2>2, <2>4, AloneUndisturbed
<1>3. call'[t].alone => AloneOK(t)'
  BY <1>1, OwnStepFits DEF AloneInv
<1> QED BY <1>2, <1>3 DEF AloneInv

\* A call that comes in ends the solitude of the others, and is alone only if they
\* are all at rest.
LEMMA ArriveAlone ==
  ASSUME SharedInv, AloneInv, NEW t \in Workers, Arrive(t)
  PROVE  AloneInv'
<1>1. ASSUME NEW c \in Call, Enter(t, c), c.kind = "demo" => c.stage = "sample"
      PROVE  AloneInv'
  <2> DEFINE others == {u \in Workers \ {t} : call[u].stage \notin {"none", "answered"}}
             alone == (others = {} /\ c.kind = "demo")
             listed == IF c.stage \in {"sample", "place"} THEN active ELSE {}
             d == [c EXCEPT !.alone = alone, !.listed = listed]
  <2>1. /\ pc[t] = "idle" /\ pc' = pc /\ call'[t] = d
        /\ \A u \in Workers \ {t} : call'[u] = [call[u] EXCEPT !.alone = FALSE]
    BY <1>1 DEF Enter, Free, vars, txn
  <2>2. \A u \in Workers \ {t} : ~call'[u].alone /\ call'[u].stage = call[u].stage
    <3> SUFFICES ASSUME NEW u \in Workers \ {t} PROVE ~call'[u].alone /\ call'[u].stage = call[u].stage
      OBVIOUS
    <3>1. call[u] \in Call
      BY DEF SharedInv, TrafficInv, CallOK
    <3>2. ~[call[u] EXCEPT !.alone = FALSE].alone
      BY <3>1 DEF Call
    <3> QED BY <2>1, <3>1, <3>2, DisturbedListed
  <2>3. d.stage = c.stage /\ (d.alone => alone)
    BY DEF Call
  <2> HIDE DEF d
  <2>4. ASSUME call'[t].alone PROVE AloneOK(t)'
    <3>1. alone /\ call'[t].stage = "sample"
      BY <1>1, <2>1, <2>3, <2>4
    <3>2. OthersRest(t)'
      BY <2>2, <3>1 DEF OthersRest
    <3> QED BY <2>1, <3>1, <3>2 DEF AloneOK
  <2> QED BY <2>2, <2>4 DEF AloneInv
<1>2. ASSUME NEW l \in OrderLines, Create(t, l) PROVE AloneInv'
  <2>1. l \in [Key -> Nat]
    BY MaxLineAssumption DEF OrderLines
  <2>2. CASE Named(l) \subseteq active
    <3> DEFINE c == [NoCall EXCEPT !.stage = "place", !.lines = l]
    <3>1. c \in Call /\ c.kind = "create"
      BY <2>1, NoCallType DEF Call, Stages, NoCall
    <3>2. Enter(t, c)
      BY <1>2, <2>2 DEF Create
    <3> HIDE DEF c
    <3> QED BY <1>1, <3>1, <3>2
  <2>3. CASE ~(Named(l) \subseteq active)
    <3> DEFINE c == [NoCall EXCEPT !.stage = "answered", !.code = 400]
    <3>1. c \in Call
      BY RejectedOK DEF CallOK
    <3>2. c.kind = "create"
      BY DEF NoCall
    <3>3. Enter(t, c)
      BY <1>2, <2>3 DEF Create
    <3> HIDE DEF c
    <3> QED BY <1>1, <3>1, <3>2, <3>3
  <2> QED BY <2>2, <2>3
<1>3. ASSUME NEW o \in Orders, NEW to \in Targets, Request(t, o, to) PROVE AloneInv'
  <2> DEFINE p == <<[order |-> o, to |-> to]>>
             c == [NoCall EXCEPT !.kind = "advance", !.stage = "walk", !.plan = p]
  <2>1. p \in Seq(Moves)
    BY TargetsAssumption DEF Moves
  <2> HIDE DEF p
  <2>2. c \in Call /\ c.kind = "advance"
    BY <2>1, NoCallType DEF Call, Stages, Kinds, NoCall
  <2>3. Enter(t, c)
    BY <1>3 DEF Request, p
  <2> HIDE DEF c
  <2> QED BY <1>1, <2>2, <2>3
<1>4. ASSUME NEW kind \in {"demo", "round"}, Simulate(t, kind) PROVE AloneInv'
  <2> DEFINE n == IF kind = "demo" THEN 3 ELSE 1
             c == [NoCall EXCEPT !.kind = kind, !.stage = "sample", !.tries = n]
  <2>1. n \in Int /\ kind \in Kinds
    BY DEF Kinds
  <2> HIDE DEF n
  <2>2. c \in Call /\ c.stage = "sample"
    BY <2>1, NoCallType DEF Call, Stages, NoCall
  <2>3. Enter(t, c)
    BY <1>4 DEF Simulate, n
  <2> HIDE DEF c
  <2> QED BY <1>1, <2>2, <2>3
<1> QED BY <1>2, <1>3, <1>4 DEF Arrive

\* When the back office takes a variant off sale, no call is alone any more.
LEMMA ToggleAlone ==
  ASSUME SharedInv, NEW v \in Variants, Toggle(v)
  PROVE  AloneInv'
<1> SUFFICES ASSUME NEW u \in Workers PROVE ~call'[u].alone
  BY DEF AloneInv
<1> DEFINE listed == IF Choosing(u) THEN call[u].listed \cup active' ELSE call[u].listed
<1>1. call'[u] = [call[u] EXCEPT !.alone = FALSE, !.listed = listed]
  BY DEF Toggle
<1>2. call[u] \in Call
  BY DEF SharedInv, TrafficInv, CallOK
<1> HIDE DEF listed
<1>3. ~[call[u] EXCEPT !.alone = FALSE, !.listed = listed].alone
  BY <1>2 DEF Call
<1> QED BY <1>1, <1>3

\* Every step keeps what an alone call relies on.
LEMMA AloneStep == SharedInv /\ AloneInv /\ [TrafficNext]_allVars => AloneInv'
<1> SUFFICES ASSUME SharedInv, AloneInv, [TrafficNext]_allVars PROVE AloneInv'
  OBVIOUS
<1>1. CASE UNCHANGED allVars
  <2>1. UNCHANGED vars /\ call' = call
    BY <1>1 DEF allVars
  <2>2. \A t \in Workers : call[t].alone => AloneOK(t)'
    BY <2>1, AloneUndisturbed DEF AloneInv, AloneOK, OthersRest
  <2> QED BY <2>1, <2>2 DEF AloneInv
<1>2. CASE TrafficNext
  BY <1>2, ArriveAlone, ToggleAlone, WorkAlone DEF TrafficNext
<1> QED BY <1>1, <1>2

\* A demo call that is alone sees none of its placements and transitions refused:
\* what it read without locks is still so when its transactions run. Every refusal
\* that demo traffic meets comes from another call.
THEOREM AloneIsNeverRefused ==
  ASSUME Statuses \subseteq Targets
  PROVE  TrafficSpec => AloneNeverRefused
<1>1. TrafficInit => ListedInv /\ AloneInv
  BY DEF TrafficInit, Init, ListedInv, Lists, SameLines, AloneInv, NoCall
<1>2. TrafficSpec => []SharedInv
  <2>1. TrafficSpec => []RowInv
    BY TrafficRunsService, RowInvariant, PTL
  <2> QED BY <1>1, <2>1, TrafficInvariant, ListedStep, PTL DEF TrafficSpec, SharedInv
<1>3. SharedInv /\ AloneInv => \A t \in Workers : call[t].alone => ~Refused(t) /\ ~NotAdvanced(t)
  BY AloneNotRefused, AloneNotInvalid DEF AloneInv
<1> QED BY <1>1, <1>2, <1>3, AloneStep, PTL DEF TrafficSpec, AloneNeverRefused
=============================================================================
