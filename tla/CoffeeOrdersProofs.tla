------------------------- MODULE CoffeeOrdersProofs -------------------------
(***************************************************************************)
(* CoffeeOrders implements the order book, its payments are for what was   *)
(* confirmed, and its log and its store tell one story, for any number of  *)
(* requests, drinks and runs.                                              *)
(***************************************************************************)
EXTENDS CoffeeOrders, FiniteSetTheorems, TLAPS

USE OrdersAssumption

----------------------------------------------------------------------------
(* The inductive invariant *)

\* The counter is beyond every order of the store.
CounterInv == \A i \in OrderId : nextOrder <= i => orders[i] = NoOrder

\* Only the run that took a request works on it; a follow-up follows a confirm
\* that was answered.
RequestInv(q) ==
  /\ servedIn[q] <= run
  /\ pc[q] \in {"store", "audit"} => servedIn[q] = run
  /\ pc[q] \in {"new", "store"} => answer[q].code = "none"
  /\ pc[q] # "new" /\ ask[q].kind # "confirm" =>
       /\ pc[ask[q].of] = "done" /\ answer[ask[q].of].code = "ok"
       /\ ask[ask[q].of].kind = "confirm"
  /\ answer[q].code = "ok" => pc[q] # "new" /\ answer[q].id \in OrderId

\* The running server still has the orders that it confirmed.
ConfirmInv(q) ==
  ask[q].kind = "confirm" /\ answer[q].code = "ok" /\ servedIn[q] = run =>
    /\ answer[q].id < nextOrder
    /\ orders[answer[q].id] \in Order /\ orders[answer[q].id].drink = ask[q].drink

PayInv(q) ==
  ask[q].kind = "pay" /\ answer[q].code = "ok" /\ servedIn[q] = servedIn[ask[q].of] =>
    answer[q].order = [drink |-> ask[ask[q].of].drink, status |-> "paid"]

IInv ==
  /\ TypeOK
  /\ CounterInv
  /\ \A q \in Request : RequestInv(q) /\ ConfirmInv(q) /\ PayInv(q)

----------------------------------------------------------------------------
(* The steps *)

LEMMA IInvInit == Init => IInv
<1> SUFFICES ASSUME Init PROVE IInv
  OBVIOUS
<1>1. TypeOK
  BY DEF Init, TypeOK, Empty, Nothing, FirstOrder, NoAsk, Ask, NoAnswer, Told, Answer, OrderId
<1>2. CounterInv
  BY DEF Init, CounterInv, Empty
<1>3. \A q \in Request : RequestInv(q) /\ ConfirmInv(q) /\ PayInv(q)
  BY DEF Init, NoAnswer, Told, RequestInv, ConfirmInv, PayInv
<1> QED
  BY <1>1, <1>2, <1>3 DEF IInv

\* What a follow-up asks for is the id of the order that its confirm was told.
LEMMA AskedId ==
  ASSUME IInv, NEW q \in Request, pc[q] = "store", ask[q].kind # "confirm"
  PROVE  /\ ask[q].of \in Request /\ ask[q].of # q
         /\ Asked(q) \in OrderId
<1>1. pc[ask[q].of] = "done" /\ answer[ask[q].of].code = "ok"
  BY DEF IInv, RequestInv
<1>2. ask[q].of \in Request
  BY DEF IInv, TypeOK, Ask
<1> QED
  BY <1>1, <1>2 DEF IInv, RequestInv, Asked

\* One lemma for each step on the store: what it may do to the book.
LEMMA ConfirmStep ==
  ASSUME IInv, NEW q \in Request, Confirm(q)
  PROVE  /\ \/ /\ ask[q].drink \in Drink /\ nextOrder \in OrderId
               /\ orders[nextOrder] = NoOrder
               /\ orders' = [orders EXCEPT ![nextOrder] =
                               [drink |-> ask[q].drink, status |-> "pending_payment"]]
               /\ nextOrder' = nextOrder + 1
               /\ answer'[q].code = "ok" /\ answer'[q].id = nextOrder
            \/ UNCHANGED <<orders, nextOrder>> /\ answer'[q].code = "unknown_drink"
         /\ TypeOK'
<1>1. answer \in [Request -> Answer] /\ nextOrder \in 1 .. MaxOrder + 1
      /\ pc \in [Request -> {"new", "store", "audit", "done"}]
  BY DEF IInv, TypeOK
<1>2. CASE ask[q].drink \in Drink
  <2> DEFINE order == [drink |-> ask[q].drink, status |-> "pending_payment"]
  <2>1. /\ nextOrder \in OrderId /\ orders[nextOrder] = NoOrder
        /\ orders' = [orders EXCEPT ![nextOrder] = order]
        /\ nextOrder' = nextOrder + 1
        /\ answer' = [answer EXCEPT ![q] = Told("ok", nextOrder, order)]
        /\ pc' = [pc EXCEPT ![q] = "audit"]
        /\ UNCHANGED <<audit, run, ask, servedIn>>
    BY <1>1, <1>2 DEF Confirm, Answered, Advance, OrderId, IInv, CounterInv
  <2>2. order \in Order
    BY <1>2 DEF Order
  <2>3. Told("ok", nextOrder, order) \in Answer
    BY <2>1, <2>2 DEF Told, Answer
  <2>4. orders' \in [OrderId -> Order \cup {NoOrder}] /\ nextOrder' \in 1 .. MaxOrder + 1
    BY <2>1, <2>2 DEF IInv, TypeOK, OrderId
  <2>5. TypeOK'
    BY <2>1, <2>3, <2>4 DEF IInv, TypeOK
  <2>6. answer'[q].code = "ok" /\ answer'[q].id = nextOrder
    BY <1>1, <2>1 DEF Told
  <2> QED
    BY <1>2, <2>1, <2>5, <2>6
<1>3. CASE ask[q].drink \notin Drink
  <2>1. /\ UNCHANGED <<orders, nextOrder, audit, run, ask, servedIn>>
        /\ answer' = [answer EXCEPT ![q] = Told("unknown_drink", 0, NoOrder)]
        /\ pc' = [pc EXCEPT ![q] = "done"]
    BY <1>3 DEF Confirm, Answered
  <2>2. Told("unknown_drink", 0, NoOrder) \in Answer
    BY DEF Told, Answer, Errors
  <2>3. TypeOK'
    BY <2>1, <2>2 DEF IInv, TypeOK
  <2>4. answer'[q].code = "unknown_drink"
    BY <1>1, <2>1 DEF Told
  <2> QED
    BY <2>1, <2>3, <2>4
<1> QED
  BY <1>2, <1>3

LEMMA PayStep ==
  ASSUME IInv, NEW q \in Request, Pay(q)
  PROVE  /\ \/ /\ Asked(q) \in OrderId /\ orders[Asked(q)] \in Order
               /\ orders[Asked(q)] # NoOrder
               /\ orders' = [orders EXCEPT ![Asked(q)].status = "paid"]
               /\ answer'[q].code = "ok" /\ answer'[q].id = Asked(q)
               /\ answer'[q].order = [drink |-> orders[Asked(q)].drink, status |-> "paid"]
            \/ UNCHANGED orders /\ answer'[q].code = "unknown_order"
         /\ TypeOK'
<1>1. answer \in [Request -> Answer] /\ Asked(q) \in OrderId
      /\ orders \in [OrderId -> Order \cup {NoOrder}]
  BY AskedId DEF IInv, TypeOK, Pay
<1>2. CASE orders[Asked(q)] # NoOrder
  <2>1. /\ orders' = [orders EXCEPT ![Asked(q)].status = "paid"]
        /\ answer' = [answer EXCEPT ![q] = Told("ok", Asked(q), orders'[Asked(q)])]
        /\ pc' = [pc EXCEPT ![q] = "audit"]
        /\ UNCHANGED <<nextOrder, audit, run, ask, servedIn>>
    BY <1>2 DEF Pay, Answered
  <2>2. orders[Asked(q)] \in Order
    BY <1>1, <1>2
  <2>3. /\ orders'[Asked(q)] = [drink |-> orders[Asked(q)].drink, status |-> "paid"]
        /\ orders'[Asked(q)] \in Order
    BY <1>1, <2>1, <2>2 DEF Order
  <2>4. orders' \in [OrderId -> Order \cup {NoOrder}]
    BY <1>1, <2>1, <2>3
  <2>5. Told("ok", Asked(q), orders'[Asked(q)]) \in Answer
    BY <1>1, <2>3 DEF Told, Answer
  <2>6. TypeOK'
    BY <2>1, <2>4, <2>5 DEF IInv, TypeOK
  <2>7. answer'[q] = Told("ok", Asked(q), orders'[Asked(q)])
    BY <1>1, <2>1
  <2> QED
    BY <1>1, <1>2, <2>1, <2>2, <2>3, <2>6, <2>7 DEF Told
<1>3. CASE orders[Asked(q)] = NoOrder
  <2>1. /\ UNCHANGED <<orders, nextOrder, audit, run, ask, servedIn>>
        /\ answer' = [answer EXCEPT ![q] = Told("unknown_order", 0, NoOrder)]
        /\ pc' = [pc EXCEPT ![q] = "done"]
    BY <1>3 DEF Pay, Answered
  <2>2. Told("unknown_order", 0, NoOrder) \in Answer
    BY DEF Told, Answer, Errors
  <2>3. TypeOK'
    BY <2>1, <2>2 DEF IInv, TypeOK
  <2>4. answer'[q].code = "unknown_order"
    BY <1>1, <2>1 DEF Told
  <2> QED
    BY <2>1, <2>3, <2>4
<1> QED
  BY <1>2, <1>3

LEMMA TypeInductive == IInv /\ [Next]_vars => TypeOK'
<1> SUFFICES ASSUME IInv, [Next]_vars
             PROVE  TypeOK'
  OBVIOUS
<1>1. ASSUME NEW q \in Request, NEW a \in Ask, NEW authorized \in BOOLEAN,
             Begin(q, a, authorized)
      PROVE  TypeOK'
  <2>1. Told("denied", 0, NoOrder) \in Answer
    BY DEF Told, Answer, Errors
  <2>2. run \in 0 .. MaxRuns
    BY DEF IInv, TypeOK
  <2> QED
    BY <1>1, <2>1, <2>2 DEF Begin, IInv, TypeOK
<1>2. ASSUME NEW q \in Request, Confirm(q) \/ Pay(q)
      PROVE  TypeOK'
  BY <1>2, ConfirmStep, PayStep
<1>3. ASSUME NEW q \in Request, Get(q)
      PROVE  TypeOK'
  <2>1. Asked(q) \in OrderId
    BY <1>3, AskedId DEF Get
  <2>2. /\ orders[Asked(q)] # NoOrder => Told("ok", Asked(q), orders[Asked(q)]) \in Answer
        /\ Told("unknown_order", 0, NoOrder) \in Answer
    BY <2>1 DEF Told, Answer, Errors, IInv, TypeOK
  <2> QED
    BY <1>3, <2>2 DEF Get, Answered, IInv, TypeOK
<1>4. ASSUME NEW q \in Request, Audit(q)
      PROVE  TypeOK'
  <2>1. audit' \in [Events -> Nat]
    <3>1. audit \in [Events -> Nat]
      BY DEF IInv, TypeOK
    <3>2. audit' = [audit EXCEPT ![EventOf(q)] = audit[EventOf(q)] + 1]
      BY <1>4 DEF Audit
    <3>3. EventOf(q) \in Events => audit[EventOf(q)] + 1 \in Nat
      BY <3>1
    <3> QED
      BY <3>1, <3>2, <3>3
  <2> QED
    BY <1>4, <2>1 DEF Audit, IInv, TypeOK
<1>5. CASE Restart
  <2>1. Told("lost", 0, NoOrder) \in Answer
    BY DEF Told, Answer, Errors
  <2> QED
    BY <1>5, <2>1 DEF Restart, Empty, Nothing, FirstOrder, OrderId, IInv, TypeOK
<1>6. CASE UNCHANGED vars
  BY <1>6 DEF vars, IInv, TypeOK
<1> QED
  BY <1>1, <1>2, <1>3, <1>4, <1>5, <1>6 DEF Next

LEMMA CounterInductive == IInv /\ [Next]_vars => CounterInv'
<1> SUFFICES ASSUME IInv, [Next]_vars
             PROVE  CounterInv'
  OBVIOUS
<1>1. ASSUME NEW q \in Request, Confirm(q) PROVE CounterInv'
  <2>1. CASE UNCHANGED <<orders, nextOrder>>
    BY <2>1 DEF CounterInv, IInv
  <2>2. CASE ~ UNCHANGED <<orders, nextOrder>>
    <3>1. /\ nextOrder \in OrderId /\ nextOrder' = nextOrder + 1
          /\ orders' = [orders EXCEPT ![nextOrder] =
                          [drink |-> ask[q].drink, status |-> "pending_payment"]]
      BY <1>1, <2>2, ConfirmStep
    <3> SUFFICES ASSUME NEW i \in OrderId, nextOrder' <= i
                 PROVE  orders'[i] = NoOrder
      BY DEF CounterInv
    <3>2. nextOrder <= i /\ nextOrder # i
      BY <3>1 DEF OrderId
    <3> QED
      BY <3>1, <3>2 DEF CounterInv, IInv, TypeOK
  <2> QED
    BY <2>1, <2>2
<1>2. ASSUME NEW q \in Request, Pay(q) PROVE CounterInv'
  <2>1. nextOrder' = nextOrder
    BY <1>2 DEF Pay
  <2> QED
    BY <1>2, <2>1, PayStep DEF CounterInv, IInv, TypeOK
<1>3. CASE Restart
  BY <1>3 DEF Restart, CounterInv, Empty
<1>4. CASE UNCHANGED <<orders, nextOrder>>
  BY <1>4 DEF CounterInv, IInv
<1> QED
  BY <1>1, <1>2, <1>3, <1>4 DEF Next, Begin, Get, Audit, vars

\* What a request has, and what it was answered.
Of(d) == <<pc[d], ask[d], answer[d], servedIn[d]>>

\* A request that is finished stays as it was answered, and keeps its ask.
LEMMA DoneStays ==
  ASSUME IInv, [Next]_vars, NEW d \in Request, pc[d] = "done"
  PROVE  UNCHANGED Of(d)
<1>1. ASSUME NEW q \in Request, NEW a \in Ask, NEW authorized \in BOOLEAN,
             Begin(q, a, authorized)
      PROVE  UNCHANGED Of(d)
  BY <1>1 DEF Begin, Of, IInv, TypeOK
<1>2. ASSUME NEW q \in Request, Confirm(q) PROVE UNCHANGED Of(d)
  BY <1>2 DEF Confirm, Answered, Of, IInv, TypeOK
<1>3. ASSUME NEW q \in Request, Pay(q) PROVE UNCHANGED Of(d)
  BY <1>3 DEF Pay, Answered, Of, IInv, TypeOK
<1>4. ASSUME NEW q \in Request, Get(q) PROVE UNCHANGED Of(d)
  BY <1>4 DEF Get, Answered, Of, IInv, TypeOK
<1>5. ASSUME NEW q \in Request, Audit(q) PROVE UNCHANGED Of(d)
  BY <1>5 DEF Audit, Of, IInv, TypeOK
<1>6. CASE Restart
  BY <1>6 DEF Restart, Of, IInv, TypeOK
<1>7. CASE UNCHANGED vars
  BY <1>7 DEF vars, Of
<1> QED
  BY <1>1, <1>2, <1>3, <1>4, <1>5, <1>6, <1>7 DEF Next

\* A step of one request leaves the others, and the run, as they are.
LEMMA OthersRest ==
  ASSUME IInv, NEW q \in Request, NEW d \in Request \ {q},
         \/ \E a \in Ask, authorized \in BOOLEAN : Begin(q, a, authorized)
         \/ Confirm(q) \/ Pay(q) \/ Get(q) \/ Audit(q)
  PROVE  UNCHANGED <<Of(d), run>>
<1>1. ASSUME NEW a \in Ask, NEW authorized \in BOOLEAN, Begin(q, a, authorized)
      PROVE  UNCHANGED <<Of(d), run>>
  BY <1>1 DEF Begin, Of, IInv, TypeOK
<1>2. CASE Confirm(q)
  BY <1>2 DEF Confirm, Answered, Of, IInv, TypeOK
<1>3. CASE Pay(q)
  BY <1>3 DEF Pay, Answered, Of, IInv, TypeOK
<1>4. CASE Get(q)
  BY <1>4 DEF Get, Answered, Of, IInv, TypeOK
<1>5. CASE Audit(q)
  BY <1>5 DEF Audit, Of, IInv, TypeOK
<1> QED
  BY <1>1, <1>2, <1>3, <1>4, <1>5

\* The order of a confirm of this run stays in the store, for the same drink.
LEMMA OrderStays ==
  ASSUME IInv, [Next]_vars, run' = run, NEW i \in OrderId,
         i < nextOrder, orders[i] \in Order
  PROVE  /\ i < nextOrder'
         /\ orders'[i] \in Order /\ orders'[i].drink = orders[i].drink
<1>1. nextOrder \in Nat /\ orders \in [OrderId -> Order \cup {NoOrder}]
  BY DEF IInv, TypeOK
<1>2. ASSUME NEW q \in Request, Confirm(q)
      PROVE  /\ i < nextOrder'
             /\ orders'[i] \in Order /\ orders'[i].drink = orders[i].drink
  <2>1. i < nextOrder' /\ orders'[i] = orders[i]
    BY <1>1, <1>2, ConfirmStep DEF OrderId
  <2> QED
    BY <2>1
<1>3. ASSUME NEW q \in Request, Pay(q)
      PROVE  /\ i < nextOrder'
             /\ orders'[i] \in Order /\ orders'[i].drink = orders[i].drink
  <2>1. nextOrder' = nextOrder
    BY <1>3 DEF Pay
  <2>2. orders' = [orders EXCEPT ![Asked(q)].status = "paid"] \/ orders' = orders
    BY <1>3, PayStep
  <2>3. orders'[i] = orders[i] \/ orders'[i] = [orders[i] EXCEPT !.status = "paid"]
    BY <1>1, <2>2
  <2> QED
    BY <2>1, <2>3 DEF Order
<1>4. CASE UNCHANGED <<orders, nextOrder>>
  BY <1>4
<1> QED
  BY <1>2, <1>3, <1>4 DEF Next, Begin, Get, Audit, Restart, vars, IInv, TypeOK

\* What a step of another request, or the last step of this one, leaves true.
LEMMA InvStable ==
  ASSUME IInv, [Next]_vars, NEW d \in Request, run' = run,
         pc'[d] = pc[d] \/ (pc[d] = "audit" /\ pc'[d] = "done"),
         ask'[d] = ask[d], answer'[d] = answer[d], servedIn'[d] = servedIn[d]
  PROVE  RequestInv(d)' /\ ConfirmInv(d)' /\ PayInv(d)'
<1> DEFINE r == ask[d].of
<1>1. RequestInv(d) /\ ConfirmInv(d) /\ PayInv(d)
  BY DEF IInv
<1>2. ask[d].kind # "confirm" => r \in Request
  BY DEF IInv, TypeOK, Ask
<1>3. pc[d] # "new" /\ ask[d].kind # "confirm" =>
        /\ pc'[r] = "done" /\ ask'[r] = ask[r] /\ answer'[r] = answer[r]
        /\ servedIn'[r] = servedIn[r]
  BY <1>1, <1>2, DoneStays DEF RequestInv, Of
<1>4. RequestInv(d)'
  BY <1>1, <1>3 DEF RequestInv
<1>5. ConfirmInv(d)'
  <2> SUFFICES ASSUME ask[d].kind = "confirm", answer[d].code = "ok", servedIn[d] = run
               PROVE  /\ answer[d].id < nextOrder'
                      /\ orders'[answer[d].id] \in Order
                      /\ orders'[answer[d].id].drink = ask[d].drink
    BY DEF ConfirmInv
  <2>1. answer[d].id \in OrderId
    BY <1>1 DEF RequestInv
  <2> QED
    BY <1>1, <2>1, OrderStays DEF ConfirmInv
<1>6. PayInv(d)'
  BY <1>1, <1>3 DEF PayInv, RequestInv
<1> QED
  BY <1>4, <1>5, <1>6

LEMMA MoverInductive ==
  ASSUME IInv, Next, NEW q \in Request,
         \/ \E a \in Ask, authorized \in BOOLEAN : Begin(q, a, authorized)
         \/ Confirm(q) \/ Pay(q) \/ Get(q) \/ Audit(q)
  PROVE  RequestInv(q)' /\ ConfirmInv(q)' /\ PayInv(q)'
<1>1. RequestInv(q) /\ run \in Nat
  BY DEF IInv, TypeOK
<1>2. ASSUME NEW a \in Ask, NEW authorized \in BOOLEAN, Begin(q, a, authorized)
      PROVE  RequestInv(q)' /\ ConfirmInv(q)' /\ PayInv(q)'
  <2>1. /\ pc[q] = "new" /\ pc'[q] \in {"store", "done"}
        /\ pc'[q] = "store" => answer'[q] = answer[q]
        /\ pc'[q] = "done" => answer'[q] = Told("denied", 0, NoOrder)
        /\ ask'[q] = a /\ servedIn'[q] = run /\ run' = run
        /\ a.kind # "confirm" => /\ pc[a.of] = "done" /\ answer[a.of].code = "ok"
                                 /\ ask[a.of].kind = "confirm"
    BY <1>2 DEF Begin, IInv, TypeOK
  <2>2. answer'[q].code \in {"none", "denied"} /\ (pc'[q] = "store" => answer'[q].code = "none")
    BY <1>1, <2>1 DEF RequestInv, Told
  <2>3. a.kind # "confirm" => a.of \in Request
    BY DEF Ask
  <2>4. a.kind # "confirm" => /\ pc'[a.of] = "done" /\ answer'[a.of].code = "ok"
                             /\ ask'[a.of].kind = "confirm"
    BY <2>1, <2>3, DoneStays DEF Of
  <2> QED
    BY <1>1, <2>1, <2>2, <2>4 DEF RequestInv, ConfirmInv, PayInv
<1>3. CASE Confirm(q)
  <2>1. /\ pc[q] = "store" /\ ask'[q].kind = "confirm" /\ ask'[q] = ask[q]
        /\ servedIn'[q] = servedIn[q] /\ run' = run
        /\ pc'[q] \in {"audit", "done"}
    BY <1>3 DEF Confirm, Answered, IInv, TypeOK
  <2>2. CASE answer'[q].code = "ok"
    <3>1. /\ nextOrder \in OrderId /\ nextOrder' = nextOrder + 1
          /\ orders'[nextOrder] = [drink |-> ask[q].drink, status |-> "pending_payment"]
          /\ ask[q].drink \in Drink
          /\ answer'[q].id = nextOrder
      BY <1>3, <2>2, ConfirmStep DEF IInv, TypeOK
    <3>2. nextOrder < nextOrder'
      BY <3>1 DEF OrderId
    <3>3. orders'[nextOrder] \in Order /\ orders'[nextOrder].drink = ask[q].drink
      BY <3>1 DEF Order
    <3> QED
      BY <1>1, <2>1, <3>1, <3>2, <3>3 DEF RequestInv, ConfirmInv, PayInv
  <2>3. CASE answer'[q].code = "unknown_drink"
    <3>1. pc'[q] = "done"
      BY <1>3, <2>3 DEF Confirm, Answered, Told, IInv, TypeOK
    <3> QED
      BY <1>1, <2>1, <2>3, <3>1 DEF RequestInv, ConfirmInv, PayInv
  <2> QED
    BY <1>3, <2>2, <2>3, ConfirmStep
<1>4. CASE Pay(q)
  <2> DEFINE r == ask[q].of
  <2>1. /\ pc[q] = "store" /\ ask[q].kind = "pay" /\ ask'[q] = ask[q]
        /\ servedIn'[q] = servedIn[q] /\ run' = run
        /\ pc'[q] \in {"audit", "done"}
    BY <1>4 DEF Pay, Answered, IInv, TypeOK
  <2>2. r \in Request /\ pc[r] = "done" /\ answer[r].code = "ok" /\ ask[r].kind = "confirm"
    BY <1>1, <2>1, AskedId DEF RequestInv
  <2>3. UNCHANGED Of(r)
    BY <2>1, <2>2, DoneStays DEF Of
  <2>4. RequestInv(q)'
    BY <1>1, <1>4, <2>1, <2>2, <2>3, PayStep DEF RequestInv, Of
  <2>5. ConfirmInv(q)'
    BY <2>1 DEF ConfirmInv
  <2>6. PayInv(q)'
    <3> SUFFICES ASSUME answer'[q].code = "ok", servedIn[q] = servedIn[r]
                 PROVE  answer'[q].order = [drink |-> ask[r].drink, status |-> "paid"]
      BY <2>1, <2>3 DEF PayInv, Of
    <3>1. servedIn[r] = run
      BY <1>1, <2>1 DEF RequestInv
    <3>2. orders[Asked(q)].drink = ask[r].drink
      BY <2>2, <3>1 DEF IInv, ConfirmInv, Asked
    <3> QED
      BY <1>4, <3>2, PayStep
  <2> QED
    BY <2>4, <2>5, <2>6
<1>5. CASE Get(q)
  <2> DEFINE r == ask[q].of
  <2>1. /\ pc[q] = "store" /\ ask[q].kind = "get" /\ ask'[q] = ask[q]
        /\ servedIn'[q] = servedIn[q] /\ run' = run
        /\ pc'[q] \in {"audit", "done"}
    BY <1>5 DEF Get, Answered, IInv, TypeOK
  <2>2. r \in Request /\ pc[r] = "done" /\ Asked(q) \in OrderId
    BY <1>1, <2>1, AskedId DEF RequestInv
  <2>3. UNCHANGED Of(r)
    BY <2>1, <2>2, DoneStays DEF Of
  <2>4. answer'[q].code = "ok" => answer'[q].id \in OrderId
    BY <1>5, <2>2 DEF Get, Answered, Told, IInv, TypeOK
  <2> QED
    BY <1>1, <2>1, <2>2, <2>3, <2>4 DEF RequestInv, ConfirmInv, PayInv, Of
<1>6. CASE Audit(q)
  BY <1>6, InvStable DEF Audit, IInv, TypeOK
<1> QED
  BY <1>2, <1>3, <1>4, <1>5, <1>6

LEMMA IInvInductive == IInv /\ [Next]_vars => IInv'
<1> SUFFICES ASSUME IInv, [Next]_vars
             PROVE  IInv'
  OBVIOUS
<1>1. ASSUME NEW d \in Request
      PROVE  RequestInv(d)' /\ ConfirmInv(d)' /\ PayInv(d)'
  <2>1. ASSUME NEW q \in Request,
               \/ \E a \in Ask, authorized \in BOOLEAN : Begin(q, a, authorized)
               \/ Confirm(q) \/ Pay(q) \/ Get(q) \/ Audit(q)
        PROVE  RequestInv(d)' /\ ConfirmInv(d)' /\ PayInv(d)'
    <3>1. CASE d = q
      <4>1. Next
        BY <2>1 DEF Next
      <4> QED
        BY <2>1, <3>1, <4>1, MoverInductive
    <3>2. CASE d # q
      <4>1. UNCHANGED <<Of(d), run>>
        BY <2>1, <3>2, OthersRest
      <4> QED
        BY <4>1, InvStable DEF Of
    <3> QED
      BY <3>1, <3>2
  <2>2. CASE Restart
    <3>1. RequestInv(d) /\ PayInv(d) /\ run \in Nat
      BY DEF IInv, TypeOK
    <3>2. /\ run' = run + 1 /\ ask' = ask /\ servedIn' = servedIn
          /\ pc'[d] = IF pc[d] = "new" THEN "new" ELSE "done"
          /\ answer'[d] = IF pc[d] \in {"store", "audit"}
                            THEN Told("lost", 0, NoOrder) ELSE answer[d]
      BY <2>2 DEF Restart
    <3>3. ask[d].kind # "confirm" => ask[d].of \in Request
      BY DEF IInv, TypeOK, Ask
    <3>4. pc[d] # "new" /\ ask[d].kind # "confirm" =>
            pc'[ask[d].of] = "done" /\ answer'[ask[d].of].code = "ok"
      BY <3>1, <3>3, DoneStays DEF RequestInv, Of
    <3>5. RequestInv(d)'
      <4>1. servedIn[d] \in Nat
        BY DEF IInv, TypeOK
      <4> QED
        BY <3>1, <3>2, <3>4, <4>1 DEF RequestInv, Told
    <3>6. servedIn'[d] # run'
      <4>1. servedIn[d] \in Nat
        BY DEF IInv, TypeOK
      <4> QED
        BY <3>1, <3>2, <4>1 DEF RequestInv
    <3>7. ConfirmInv(d)'
      BY <3>6 DEF ConfirmInv
    <3>8. PayInv(d)'
      BY <3>1, <3>2 DEF PayInv, Told
    <3> QED
      BY <3>5, <3>7, <3>8
  <2>3. CASE UNCHANGED vars
    BY <2>3, InvStable DEF vars
  <2> QED
    BY <2>1, <2>2, <2>3 DEF Next
<1> QED
  BY <1>1, TypeInductive, CounterInductive DEF IInv

LEMMA IInvHolds == Spec => []IInv
BY IInvInit, IInvInductive, PTL DEF Spec

----------------------------------------------------------------------------
(* The theorems *)

\* The store, the counter, the log and the answers keep their types; above all,
\* an order is read or paid only under an id that the store can hold.
THEOREM TypeCorrect == Spec => []TypeOK
<1>1. IInv => TypeOK
  BY DEF IInv
<1> QED
  BY <1>1, IInvHolds, PTL

\* A payment that the run of the confirm served is for the drink that was
\* confirmed.
THEOREM PaymentsAreOwn == Spec => []PaidAsConfirmed
<1>1. IInv => PaidAsConfirmed
  BY DEF IInv, PayInv, PaidAsConfirmed
<1> QED
  BY <1>1, IInvHolds, PTL

\* The store implements the order book: confirm_order fills a free id, pay_order
\* changes the status of an order and nothing else, and only a restart forgets.
THEOREM Implements == Spec => ImplementsOrderBook
<1>1. Init => Book!Init
  BY DEF Init, Book!Init, Empty
<1>2. IInv /\ [Next]_vars => [Book!Next]_orders
  <2> SUFFICES ASSUME IInv, [Next]_vars
               PROVE  [Book!Next]_orders
    OBVIOUS
  <2>1. ASSUME NEW q \in Request, Confirm(q)
        PROVE  [Book!Next]_orders
    <3>1. CASE UNCHANGED orders
      BY <3>1
    <3>2. CASE orders' # orders
      <4>1. Book!Confirm(nextOrder, ask[q].drink) /\ nextOrder \in OrderId
            /\ ask[q].drink \in Drink
        BY <2>1, <3>2, ConfirmStep DEF Book!Confirm
      <4> QED
        BY <4>1 DEF Book!Next
    <3> QED
      BY <3>1, <3>2
  <2>2. ASSUME NEW q \in Request, Pay(q)
        PROVE  [Book!Next]_orders
    <3>1. CASE UNCHANGED orders
      BY <3>1
    <3>2. CASE orders' # orders
      <4>1. Book!Pay(Asked(q)) /\ Asked(q) \in OrderId
        BY <2>2, <3>2, PayStep DEF Book!Pay
      <4> QED
        BY <4>1 DEF Book!Next
    <3> QED
      BY <3>1, <3>2
  <2>3. CASE Restart
    BY <2>3 DEF Restart, Empty, Book!Next, Book!Restart
  <2>4. CASE UNCHANGED orders
    BY <2>4
  <2> QED
    BY <2>1, <2>2, <2>3, <2>4 DEF Next, Begin, Get, Audit, vars
<1> QED
  BY <1>1, <1>2, IInvHolds, PTL DEF Spec, ImplementsOrderBook, Book!Spec

----------------------------------------------------------------------------
(* The audit log *)

\* Of the confirm that filled an id there is a record, or the one request that
\* will write it.  This counts without a cardinality, and so is inductive.
ConfirmLogged(id) ==
  LET n == audit[<<"confirm", id>>]
      left == Unrecorded("confirm", id)
  IN  IF orders[id] = NoOrder THEN n = 0 /\ left = {}
      ELSE (n = 1 /\ left = {}) \/ (n = 0 /\ \E q \in Request : left = {q})

PayLogged(id) ==
  (orders[id] # NoOrder /\ orders[id].status = "paid") <=>
    (audit[<<"pay", id>>] > 0 \/ Unrecorded("pay", id) # {})

LogInv == \A id \in OrderId : ConfirmLogged(id) /\ PayLogged(id)

\* A request that writes no record, or another one, is not among those that will
\* write this one.
LEMMA UnrecordedStable ==
  ASSUME NEW q \in Request, NEW e, NEW id,
         \A d \in Request \ {q} : UNCHANGED Of(d),
         pc[q] = "audit" => ~(ask[q].kind = e /\ answer[q].id = id),
         pc'[q] = "audit" => ~(ask'[q].kind = e /\ answer'[q].id = id)
  PROVE  Unrecorded(e, id)' = Unrecorded(e, id)
<1>1. \A d \in Request \ {q} : pc'[d] = pc[d] /\ ask'[d] = ask[d] /\ answer'[d] = answer[d]
  BY DEF Of
<1> QED
  BY <1>1 DEF Unrecorded

\* A request that is about to write this record joins those that will.
LEMMA UnrecordedJoins ==
  ASSUME NEW q \in Request, NEW e, NEW id,
         \A d \in Request \ {q} : UNCHANGED Of(d),
         pc'[q] = "audit", ask'[q].kind = e, answer'[q].id = id
  PROVE  Unrecorded(e, id)' = Unrecorded(e, id) \cup {q}
<1>1. \A d \in Request \ {q} : pc'[d] = pc[d] /\ ask'[d] = ask[d] /\ answer'[d] = answer[d]
  BY DEF Of
<1> QED
  BY <1>1 DEF Unrecorded

LEMMA LogStable ==
  ASSUME NEW id \in OrderId, ConfirmLogged(id), PayLogged(id), orders'[id] = orders[id],
         \A e \in {"confirm", "pay"} :
           audit'[<<e, id>>] = audit[<<e, id>>] /\ Unrecorded(e, id)' = Unrecorded(e, id)
  PROVE  ConfirmLogged(id)' /\ PayLogged(id)'
BY DEF ConfirmLogged, PayLogged, Unrecorded

\* confirm_order: the id was free, so nothing was recorded under it.
LEMMA ConfirmLogs ==
  ASSUME IInv, LogInv, NEW q \in Request, Confirm(q), NEW id \in OrderId
  PROVE  ConfirmLogged(id)' /\ PayLogged(id)'
<1>1. /\ pc[q] = "store" /\ ask[q].kind = "confirm" /\ ask' = ask /\ audit' = audit
      /\ ConfirmLogged(id) /\ PayLogged(id)
      /\ pc \in [Request -> {"new", "store", "audit", "done"}]
      /\ orders \in [OrderId -> Order \cup {NoOrder}]
  BY DEF Confirm, LogInv, IInv, TypeOK
<1>2. \A d \in Request \ {q} : UNCHANGED Of(d)
  BY OthersRest
<1>3. Unrecorded("pay", id)' = Unrecorded("pay", id)
  BY <1>1, <1>2, UnrecordedStable
<1>4. CASE ask[q].drink \notin Drink
  <2>1. pc'[q] = "done" /\ orders' = orders
    BY <1>1, <1>4 DEF Confirm, Answered
  <2>2. Unrecorded("confirm", id)' = Unrecorded("confirm", id)
    BY <1>1, <1>2, <2>1, UnrecordedStable
  <2> QED
    BY <1>1, <1>3, <2>1, <2>2, LogStable
<1>5. CASE ask[q].drink \in Drink
  <2> DEFINE order == [drink |-> ask[q].drink, status |-> "pending_payment"]
  <2>1. pc'[q] = "audit" /\ orders' = [orders EXCEPT ![nextOrder] = order]
        /\ answer' = [answer EXCEPT ![q] = Told("ok", nextOrder, order)]
    BY <1>1, <1>5 DEF Confirm, Answered
  <2>2. answer'[q].id = nextOrder
    BY <2>1 DEF Told, IInv, TypeOK
  <2>3. CASE id = nextOrder
    <3>1. orders[id] = NoOrder /\ orders'[id] = order
      BY <1>1, <2>1, <2>3 DEF IInv, CounterInv, OrderId
    <3>2. /\ audit[<<"confirm", id>>] = 0 /\ Unrecorded("confirm", id) = {}
          /\ ~(audit[<<"pay", id>>] > 0 \/ Unrecorded("pay", id) # {})
      BY <1>1, <3>1 DEF ConfirmLogged, PayLogged
    <3>3. Unrecorded("confirm", id)' = {q}
      <4>1. ask'[q].kind = "confirm" /\ answer'[q].id = id
        BY <1>1, <2>2, <2>3
      <4>2. Unrecorded("confirm", id)' = Unrecorded("confirm", id) \cup {q}
        BY <1>2, <2>1, <4>1, UnrecordedJoins
      <4> QED
        BY <3>2, <4>2
    <3>4. order # NoOrder /\ order.status # "paid"
      BY <1>5 DEF Order
    <3>5. ConfirmLogged(id)'
      BY <1>1, <3>1, <3>2, <3>3, <3>4 DEF ConfirmLogged, Unrecorded
    <3>6. PayLogged(id)'
      BY <1>1, <1>3, <3>1, <3>2, <3>4 DEF PayLogged, Unrecorded
    <3> QED
      BY <3>5, <3>6
  <2>4. CASE id # nextOrder
    <3>1. orders'[id] = orders[id]
      BY <1>1, <2>1, <2>4
    <3>2. Unrecorded("confirm", id)' = Unrecorded("confirm", id)
      BY <1>1, <1>2, <2>2, <2>4, UnrecordedStable
    <3> QED
      BY <1>1, <1>3, <3>1, <3>2, LogStable
  <2> QED
    BY <2>3, <2>4
<1> QED
  BY <1>4, <1>5

\* pay_order: the order becomes, or stays, a paid one, with a record on its way.
LEMMA PayLogs ==
  ASSUME IInv, LogInv, NEW q \in Request, Pay(q), NEW id \in OrderId
  PROVE  ConfirmLogged(id)' /\ PayLogged(id)'
<1>1. /\ pc[q] = "store" /\ ask[q].kind = "pay" /\ ask' = ask /\ audit' = audit
      /\ ConfirmLogged(id) /\ PayLogged(id)
      /\ pc \in [Request -> {"new", "store", "audit", "done"}]
      /\ orders \in [OrderId -> Order \cup {NoOrder}]
  BY DEF Pay, LogInv, IInv, TypeOK
<1>2. \A d \in Request \ {q} : UNCHANGED Of(d)
  BY OthersRest
<1>3. Unrecorded("confirm", id)' = Unrecorded("confirm", id)
  BY <1>1, <1>2, UnrecordedStable
<1>4. CASE orders[Asked(q)] = NoOrder
  <2>1. pc'[q] = "done" /\ orders' = orders
    BY <1>1, <1>4 DEF Pay, Answered
  <2>2. Unrecorded("pay", id)' = Unrecorded("pay", id)
    BY <1>1, <1>2, <2>1, UnrecordedStable
  <2> QED
    BY <1>1, <1>3, <2>1, <2>2, LogStable
<1>5. CASE orders[Asked(q)] # NoOrder
  <2>1. /\ pc'[q] = "audit" /\ orders' = [orders EXCEPT ![Asked(q)].status = "paid"]
        /\ answer'[q].id = Asked(q)
    BY <1>1, <1>5 DEF Pay, Answered, Told, IInv, TypeOK
  <2>2. CASE id = Asked(q)
    <3>1. orders[id] \in Order /\ orders'[id] = [orders[id] EXCEPT !.status = "paid"]
      BY <1>1, <1>5, <2>1, <2>2
    <3>2. orders'[id] \in Order /\ orders'[id].status = "paid"
      BY <3>1 DEF Order
    <3>3. orders'[id] # NoOrder
      BY <3>2
    <3>4. q \in Unrecorded("pay", id)'
      BY <1>1, <1>2, <2>1, <2>2, UnrecordedJoins
    <3>5. PayLogged(id)'
      BY <3>2, <3>3, <3>4 DEF PayLogged
    <3>6. ConfirmLogged(id)'
      BY <1>1, <1>3, <1>5, <2>2, <3>3 DEF ConfirmLogged, Unrecorded
    <3> QED
      BY <3>5, <3>6
  <2>3. CASE id # Asked(q)
    <3>1. orders'[id] = orders[id]
      BY <1>1, <2>1, <2>3
    <3>2. Unrecorded("pay", id)' = Unrecorded("pay", id)
      BY <1>1, <1>2, <2>1, <2>3, UnrecordedStable
    <3> QED
      BY <1>1, <1>3, <3>1, <3>2, LogStable
  <2> QED
    BY <2>2, <2>3
<1> QED
  BY <1>4, <1>5

\* The record takes the place of the request that has written it.
LEMMA AuditLogs ==
  ASSUME IInv, LogInv, NEW q \in Request, Audit(q), NEW id \in OrderId
  PROVE  ConfirmLogged(id)' /\ PayLogged(id)'
<1>1. /\ pc[q] = "audit" /\ pc'[q] = "done" /\ UNCHANGED <<ask, answer, orders>>
      /\ audit' = [audit EXCEPT ![EventOf(q)] = @ + 1]
      /\ audit \in [Events -> Nat] /\ ConfirmLogged(id) /\ PayLogged(id)
  BY DEF Audit, LogInv, IInv, TypeOK
<1>2. \A d \in Request \ {q} : UNCHANGED Of(d)
  BY OthersRest
<1>3. \A e \in {"confirm", "pay"} : <<e, id>> \in Events
  BY DEF Events
<1>4. ASSUME NEW e \in {"confirm", "pay"}, ~(ask[q].kind = e /\ answer[q].id = id)
      PROVE  audit'[<<e, id>>] = audit[<<e, id>>] /\ Unrecorded(e, id)' = Unrecorded(e, id)
  <2>1. EventOf(q) # <<e, id>>
    BY <1>4 DEF EventOf
  <2>2. audit'[<<e, id>>] = audit[<<e, id>>]
    BY <1>1, <1>3, <2>1
  <2>3. Unrecorded(e, id)' = Unrecorded(e, id)
    BY <1>1, <1>2, <1>4, UnrecordedStable
  <2> QED
    BY <2>2, <2>3
<1>5. ASSUME NEW e \in {"confirm", "pay"}, ask[q].kind = e, answer[q].id = id
      PROVE  /\ audit'[<<e, id>>] = audit[<<e, id>>] + 1 /\ audit[<<e, id>>] \in Nat
             /\ q \in Unrecorded(e, id) /\ Unrecorded(e, id)' = Unrecorded(e, id) \ {q}
  <2>1. EventOf(q) = <<e, id>>
    BY <1>5 DEF EventOf
  <2>2. audit'[<<e, id>>] = audit[<<e, id>>] + 1 /\ audit[<<e, id>>] \in Nat
    BY <1>1, <1>3, <2>1
  <2>3. \A d \in Request \ {q} : pc'[d] = pc[d]
    BY <1>2 DEF Of
  <2>4. q \in Unrecorded(e, id) /\ Unrecorded(e, id)' = Unrecorded(e, id) \ {q}
    BY <1>1, <1>5, <2>3 DEF Unrecorded
  <2> QED
    BY <2>2, <2>4
<1>6. CASE ask[q].kind = "confirm" /\ answer[q].id = id
  <2>1. /\ audit'[<<"confirm", id>>] = audit[<<"confirm", id>>] + 1
        /\ q \in Unrecorded("confirm", id)
        /\ Unrecorded("confirm", id)' = Unrecorded("confirm", id) \ {q}
    BY <1>5, <1>6
  <2>2. orders[id] # NoOrder /\ audit[<<"confirm", id>>] = 0 /\ Unrecorded("confirm", id) = {q}
    BY <1>1, <2>1 DEF ConfirmLogged
  <2>3. ConfirmLogged(id)'
    BY <1>1, <2>1, <2>2 DEF ConfirmLogged, Unrecorded
  <2>4. audit'[<<"pay", id>>] = audit[<<"pay", id>>] /\ Unrecorded("pay", id)' = Unrecorded("pay", id)
    BY <1>4, <1>6
  <2>5. PayLogged(id)'
    BY <1>1, <2>4 DEF PayLogged, Unrecorded
  <2> QED
    BY <2>3, <2>5
<1>7. CASE ask[q].kind = "pay" /\ answer[q].id = id
  <2>1. audit'[<<"pay", id>>] > 0 /\ Unrecorded("pay", id) # {}
    BY <1>5, <1>7
  <2>2. PayLogged(id)'
    BY <1>1, <2>1 DEF PayLogged
  <2>3. audit'[<<"confirm", id>>] = audit[<<"confirm", id>>]
        /\ Unrecorded("confirm", id)' = Unrecorded("confirm", id)
    BY <1>4, <1>7
  <2>4. ConfirmLogged(id)'
    BY <1>1, <2>3 DEF ConfirmLogged, Unrecorded
  <2> QED
    BY <2>2, <2>4
<1>8. CASE ~(ask[q].kind \in {"confirm", "pay"} /\ answer[q].id = id)
  BY <1>1, <1>4, <1>8, LogStable
<1> QED
  BY <1>6, <1>7, <1>8

LEMMA LogInductive == IInv /\ LogInv /\ [Next]_vars => LogInv'
<1> SUFFICES ASSUME IInv, LogInv, [Next]_vars, NEW id \in OrderId
             PROVE  ConfirmLogged(id)' /\ PayLogged(id)'
  BY DEF LogInv
<1>1. ConfirmLogged(id) /\ PayLogged(id) /\ pc \in [Request -> {"new", "store", "audit", "done"}]
  BY DEF LogInv, IInv, TypeOK
<1>2. ASSUME NEW q \in Request,
             \/ \E a \in Ask, authorized \in BOOLEAN : Begin(q, a, authorized)
             \/ Get(q)
      PROVE  ConfirmLogged(id)' /\ PayLogged(id)'
  <2>1. \A d \in Request \ {q} : UNCHANGED Of(d)
    BY <1>2, OthersRest
  <2>2. /\ UNCHANGED <<orders, audit>> /\ pc[q] # "audit"
        /\ pc'[q] = "audit" => ask'[q].kind = "get"
    BY <1>1, <1>2 DEF Begin, Get, Answered
  <2>3. \A e \in {"confirm", "pay"} : Unrecorded(e, id)' = Unrecorded(e, id)
    BY <2>1, <2>2, UnrecordedStable
  <2> QED
    BY <1>1, <2>2, <2>3, LogStable
<1>3. CASE Restart
  <2>1. orders'[id] = NoOrder /\ \A e \in {"confirm", "pay"} : audit'[<<e, id>>] = 0
    BY <1>3 DEF Restart, Empty, Nothing, Events
  <2>2. \A e \in {"confirm", "pay"} : Unrecorded(e, id)' = {}
    BY <1>1, <1>3 DEF Restart, Unrecorded
  <2>3. ConfirmLogged(id)'
    BY <2>1, <2>2 DEF ConfirmLogged, Unrecorded
  <2>4. PayLogged(id)'
    BY <2>1, <2>2 DEF PayLogged, Unrecorded
  <2> QED
    BY <2>3, <2>4
<1>4. CASE UNCHANGED vars
  BY <1>1, <1>4, LogStable DEF vars, Unrecorded
<1> QED
  BY <1>2, <1>3, <1>4, ConfirmLogs, PayLogs, AuditLogs DEF Next

LEMMA LogInit == Init => LogInv
<1> SUFFICES ASSUME Init, NEW id \in OrderId PROVE ConfirmLogged(id) /\ PayLogged(id)
  BY DEF LogInv
<1>1. orders[id] = NoOrder /\ \A e \in {"confirm", "pay"} : audit[<<e, id>>] = 0
  BY DEF Init, Empty, Nothing, Events
<1>2. \A e \in {"confirm", "pay"} : Unrecorded(e, id) = {}
  BY DEF Init, Unrecorded
<1> QED
  BY <1>1, <1>2 DEF ConfirmLogged, PayLogged

\* Although store and log have locks of their own, each order of the running
\* server was confirmed once in the log, and exactly the paid ones were paid there,
\* but for the requests between the two locks (routes.rs).
THEOREM LogMatchesStore == Spec => []AuditMatchesBook
<1>1. IInv /\ LogInv => AuditMatchesBook
  <2> SUFFICES ASSUME IInv, LogInv, NEW id \in OrderId
               PROVE  /\ audit[<<"confirm", id>>] + Cardinality(Unrecorded("confirm", id)) =
                           IF orders[id] = NoOrder THEN 0 ELSE 1
                      /\ PayLogged(id)
    BY DEF AuditMatchesBook, PayLogged
  <2>1. ConfirmLogged(id) /\ PayLogged(id)
    BY DEF LogInv
  <2>2. Cardinality({}) = 0 /\ \A q : Cardinality({q}) = 1
    BY FS_EmptySet, FS_Singleton
  <2> QED
    BY <2>1, <2>2 DEF ConfirmLogged
<1> QED
  BY <1>1, IInvHolds, LogInit, LogInductive, PTL DEF Spec

============================================================================
