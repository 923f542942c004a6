---------------------------- MODULE CoffeeOrders ----------------------------
(***************************************************************************)
(* The coffee business of crates/demo-server: the order store (coffee.rs)  *)
(* and the routes in front of it (routes.rs).  A request is authorized,    *)
(* works on the store under its lock, and writes its audit record under    *)
(* another one; requests overlap between these steps.  A restart loses     *)
(* store, counter and audit log, and the requests on their way; the        *)
(* clients keep what they were told.                                       *)
(*                                                                         *)
(* A client pays or reads the order that an earlier confirm gave it.       *)
(***************************************************************************)
EXTENDS Naturals, FiniteSets

CONSTANTS
  Request,      \* the requests; each is served once
  Drink,        \* the menu
  UnknownDrink,
  NoOrder,
  NoRequest,
  MaxOrder,     \* bound: order ids
  MaxRuns       \* bound: how often the server is started

Order == [drink : Drink, status : {"pending_payment", "paid"}]

ASSUME OrdersAssumption ==
  /\ MaxOrder \in Nat \ {0}
  /\ MaxRuns \in Nat \ {0}
  /\ UnknownDrink \notin Drink
  /\ NoOrder \notin Order
  /\ NoRequest \notin Request

VARIABLES
  orders,       \* CoffeeData.orders
  nextOrder,    \* CoffeeData.next_order
  audit,        \* the audit log: how often each record was written
  run,          \* which start of the server this is
  pc,           \* where each request is
  ask,          \* what it asks for
  answer,       \* what it will be, or was answered
  servedIn      \* history: the run that served it

vars == <<orders, nextOrder, audit, run, pc, ask, answer, servedIn>>

OrderId == 1 .. MaxOrder

\* What was ordered; of a pay or a get, "of" is the confirm it follows.
Ask ==
  [kind : {"confirm"}, drink : Drink \cup {UnknownDrink}, of : {NoRequest}]
    \cup [kind : {"pay", "get"}, drink : {UnknownDrink}, of : Request]

NoAsk == [kind |-> "confirm", drink |-> UnknownDrink, of |-> NoRequest]

Errors == {"unknown_drink", "unknown_order", "denied", "lost"}
Answer == [code : {"none", "ok"} \cup Errors, id : OrderId \cup {0},
           order : Order \cup {NoOrder}]

Told(code, id, order) == [code |-> code, id |-> id, order |-> order]
NoAnswer == Told("none", 0, NoOrder)

\* A read is recorded without the order's id.
Events == ({"confirm", "pay"} \X OrderId) \cup {<<"get", 0>>}

TypeOK ==
  /\ orders \in [OrderId -> Order \cup {NoOrder}]
  /\ nextOrder \in 1 .. MaxOrder + 1
  /\ audit \in [Events -> Nat]
  /\ run \in 1 .. MaxRuns
  /\ pc \in [Request -> {"new", "store", "audit", "done"}]
  /\ ask \in [Request -> Ask]
  /\ answer \in [Request -> Answer]
  /\ servedIn \in [Request -> 0 .. MaxRuns]

Empty == [id \in OrderId |-> NoOrder]
Nothing == [e \in Events |-> 0]

FirstOrder == 1

Init ==
  /\ orders = Empty
  /\ nextOrder = FirstOrder
  /\ audit = Nothing
  /\ run = 1
  /\ pc = [q \in Request |-> "new"]
  /\ ask = [q \in Request |-> NoAsk]
  /\ answer = [q \in Request |-> NoAnswer]
  /\ servedIn = [q \in Request |-> 0]

----------------------------------------------------------------------------
(* The handlers *)

\* authorize, then the JSON body; a client follows up on what it was told.
Begin(q, a, authorized) ==
  /\ pc[q] = "new"
  /\ a.kind # "confirm" => pc[a.of] = "done" /\ answer[a.of].code = "ok"
                             /\ ask[a.of].kind = "confirm"
  /\ ask' = [ask EXCEPT ![q] = a]
  /\ servedIn' = [servedIn EXCEPT ![q] = run]
  /\ IF authorized
       THEN pc' = [pc EXCEPT ![q] = "store"] /\ UNCHANGED answer
       ELSE /\ pc' = [pc EXCEPT ![q] = "done"]
            /\ answer' = [answer EXCEPT ![q] = Told("denied", 0, NoOrder)]
  /\ UNCHANGED <<orders, nextOrder, audit, run>>

Answered(q, code, id, order) ==
  /\ answer' = [answer EXCEPT ![q] = Told(code, id, order)]
  /\ pc' = [pc EXCEPT ![q] = IF code = "ok" THEN "audit" ELSE "done"]

AdvanceNot(n) == n
Advance(n) == n + 1

\* confirm_order
Confirm(q) ==
  LET order == [drink |-> ask[q].drink, status |-> "pending_payment"] IN
  /\ pc[q] = "store" /\ ask[q].kind = "confirm"
  /\ IF ask[q].drink \in Drink
       THEN /\ nextOrder <= MaxOrder
            /\ orders' = [orders EXCEPT ![nextOrder] = order]
            /\ nextOrder' = Advance(nextOrder)
            /\ Answered(q, "ok", nextOrder, order)
       ELSE /\ Answered(q, "unknown_drink", 0, NoOrder)
            /\ UNCHANGED <<orders, nextOrder>>
  /\ UNCHANGED <<audit, run, ask, servedIn>>

\* The id in the path or the body.
Asked(q) == answer[ask[q].of].id

PayUnrecorded(q) ==
  /\ pc[q] = "store" /\ ask[q].kind = "pay"
  /\ orders[Asked(q)] # NoOrder
  /\ orders' = [orders EXCEPT ![Asked(q)].status = "paid"]
  /\ answer' = [answer EXCEPT ![q] = Told("ok", Asked(q), orders'[Asked(q)])]
  /\ pc' = [pc EXCEPT ![q] = "done"]
  /\ UNCHANGED <<nextOrder, audit, run, ask, servedIn>>

\* pay_order: an order that is already paid is paid again.
Pay(q) ==
  /\ pc[q] = "store" /\ ask[q].kind = "pay"
  /\ IF orders[Asked(q)] # NoOrder
       THEN /\ orders' = [orders EXCEPT ![Asked(q)].status = "paid"]
            /\ Answered(q, "ok", Asked(q), orders'[Asked(q)])
       ELSE /\ Answered(q, "unknown_order", 0, NoOrder)
            /\ UNCHANGED orders
  /\ UNCHANGED <<nextOrder, audit, run, ask, servedIn>>

\* get_order
Get(q) ==
  /\ pc[q] = "store" /\ ask[q].kind = "get"
  /\ IF orders[Asked(q)] # NoOrder
       THEN Answered(q, "ok", Asked(q), orders[Asked(q)])
       ELSE Answered(q, "unknown_order", 0, NoOrder)
  /\ UNCHANGED <<orders, nextOrder, audit, run, ask, servedIn>>

EventOf(q) ==
  IF ask[q].kind = "get" THEN <<"get", 0>> ELSE <<ask[q].kind, answer[q].id>>

\* The audit record, then the answer.
Audit(q) ==
  /\ pc[q] = "audit"
  /\ audit' = [audit EXCEPT ![EventOf(q)] = @ + 1]
  /\ pc' = [pc EXCEPT ![q] = "done"]
  /\ UNCHANGED <<orders, nextOrder, run, ask, answer, servedIn>>

\* CoffeeStore::default; a request on its way is never answered.
Restart ==
  /\ run < MaxRuns
  /\ run' = run + 1
  /\ orders' = Empty
  /\ nextOrder' = FirstOrder
  /\ audit' = Nothing
  /\ pc' = [q \in Request |-> IF pc[q] = "new" THEN "new" ELSE "done"]
  /\ answer' = [q \in Request |-> IF pc[q] \in {"store", "audit"}
                                    THEN Told("lost", 0, NoOrder) ELSE answer[q]]
  /\ UNCHANGED <<ask, servedIn>>

Next ==
  \/ \E q \in Request :
       \/ \E a \in Ask, authorized \in BOOLEAN : Begin(q, a, authorized)
       \/ Confirm(q) \/ Pay(q) \/ Get(q) \/ Audit(q)
  \/ Restart

Spec == Init /\ [][Next]_vars

----------------------------------------------------------------------------
(* Properties *)

\* While the server runs, an id names one order for one drink that is only
\* ever paid, however the requests overlap.
Book == INSTANCE OrderBook WITH book <- orders
ImplementsOrderBook == Book!Spec

Unrecorded(event, id) ==
  {q \in Request : pc[q] = "audit" /\ ask[q].kind = event /\ answer[q].id = id}

\* The audit log and the store, each behind its own lock, tell one story: every
\* order was confirmed once, and exactly the paid ones were paid, up to the
\* requests that are about to write their record.
AuditMatchesBook ==
  \A id \in OrderId :
    /\ audit[<<"confirm", id>>] + Cardinality(Unrecorded("confirm", id)) =
         IF orders[id] = NoOrder THEN 0 ELSE 1
    /\ (orders[id] # NoOrder /\ orders[id].status = "paid") <=>
         (audit[<<"pay", id>>] > 0 \/ Unrecorded("pay", id) # {})

\* A client that pays pays what it ordered: the drink of its own confirm, as
\* long as one run of the server served both requests.
PaidAsConfirmed ==
  \A q \in Request :
    LET r == ask[q].of IN
    answer[q].code = "ok" /\ ask[q].kind = "pay" /\ servedIn[q] = servedIn[r] =>
      answer[q].order = [drink |-> ask[r].drink, status |-> "paid"]

============================================================================
