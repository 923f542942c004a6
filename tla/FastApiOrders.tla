--------------------------- MODULE FastApiOrders ---------------------------
(***************************************************************************)
(* The coffee business of examples/coffee-fastapi-server (app.py).  The    *)
(* endpoints run on a pool of threads over module-level dicts without a    *)
(* lock: one dict operation is atomic and nothing more.                    *)
(*                                                                         *)
(* An order is a dict, shared by reference: orders maps an id to it, and a *)
(* request that found it keeps hold of it.  It is named here by the        *)
(* confirm request that made it.  FastAPI turns the dict into the answer   *)
(* after the endpoint has returned.                                        *)
(***************************************************************************)
EXTENDS Naturals, FiniteSets

CONSTANTS
  Request,      \* the requests; each is served once
  NoRequest,
  MaxOrder      \* bound: order ids

ASSUME OrdersAssumption ==
  /\ MaxOrder \in Nat \ {0}
  /\ NoRequest \notin Request

VARIABLES
  orders,       \* id -> order
  paid,         \* the orders whose status is "paid"
  audit,        \* audit_records: how often each was written
  pc,           \* where each request is
  kind,         \* what it asks for
  of,           \* of a pay or a get: the confirm whose answer it follows
  id,           \* the id it made up or was given
  order,        \* the order it has hold of
  answer,       \* what it was answered
  saw           \* history: the orders a confirm counted

vars == <<orders, paid, audit, pc, kind, of, id, order, answer, saw>>

OrderId == 1 .. MaxOrder
Kinds == {"confirm", "pay", "get"}
NoAnswer == [code |-> "none", paid |-> FALSE]

TypeOK ==
  /\ orders \in [OrderId -> Request \cup {NoRequest}]
  /\ paid \subseteq Request
  /\ audit \in [Kinds \X OrderId -> Nat]
  /\ pc \in [Request -> {"new", "count", "insert", "find", "mark", "audit",
                         "serialize", "done"}]
  /\ kind \in [Request -> Kinds]
  /\ of \in [Request -> Request \cup {NoRequest}]
  /\ id \in [Request -> OrderId \cup {0}]
  /\ order \in [Request -> Request \cup {NoRequest}]
  /\ answer \in [Request -> [code : {"none", "ok", "unknown_drink", "denied",
                                     "unknown_order"}, paid : BOOLEAN]]
  /\ saw \in [Request -> SUBSET Request]

Init ==
  /\ orders = [i \in OrderId |-> NoRequest]
  /\ paid = {}
  /\ audit = [e \in Kinds \X OrderId |-> 0]
  /\ pc = [q \in Request |-> "new"]
  /\ kind = [q \in Request |-> "confirm"]
  /\ of = [q \in Request |-> NoRequest]
  /\ id = [q \in Request |-> 0]
  /\ order = [q \in Request |-> NoRequest]
  /\ answer = [q \in Request |-> NoAnswer]
  /\ saw = [q \in Request |-> {}]

Goto(q, place) == pc' = [pc EXCEPT ![q] = place]

End(q, code, isPaid) ==
  /\ Goto(q, "done")
  /\ answer' = [answer EXCEPT ![q] = [code |-> code, paid |-> isPaid]]

Used == {i \in OrderId : orders[i] # NoRequest}

----------------------------------------------------------------------------
(* The endpoints *)

\* authorize failed, or the drink is not on the menu.
Refuse(q, k, code) ==
  /\ pc[q] = "new"
  /\ code = "unknown_drink" => k = "confirm"
  /\ kind' = [kind EXCEPT ![q] = k]
  /\ End(q, code, FALSE)
  /\ UNCHANGED <<orders, paid, audit, of, id, order, saw>>

BeginConfirm(q) ==
  /\ pc[q] = "new"
  /\ kind' = [kind EXCEPT ![q] = "confirm"]
  /\ Goto(q, "count")
  /\ UNCHANGED <<orders, paid, audit, of, id, order, answer, saw>>

\* A client pays or reads the order it was told of, or one of an earlier
\* server, whose id may mean nothing to this one.
BeginFor(q, k, r, i) ==
  /\ pc[q] = "new"
  /\ k \in {"pay", "get"}
  /\ r # NoRequest => kind[r] = "confirm" /\ answer[r].code = "ok" /\ i = id[r]
  /\ kind' = [kind EXCEPT ![q] = k]
  /\ of' = [of EXCEPT ![q] = r]
  /\ id' = [id EXCEPT ![q] = i]
  /\ Goto(q, "find")
  /\ UNCHANGED <<orders, paid, audit, order, answer, saw>>

NextIdOfUnpaid == Cardinality({i \in Used : orders[i] \notin paid}) + 1
NextIdAfterNext == Cardinality(Used) + 2
NextId == Cardinality(Used) + 1

\* len(orders) + 1
Count(q) ==
  /\ pc[q] = "count"
  /\ NextId <= MaxOrder
  /\ id' = [id EXCEPT ![q] = NextId]
  /\ saw' = [saw EXCEPT ![q] = {orders[i] : i \in Used}]
  /\ Goto(q, "insert")
  /\ UNCHANGED <<orders, paid, audit, kind, of, order, answer>>

\* orders[order_id] = order
Insert(q) ==
  /\ pc[q] = "insert"
  /\ orders' = [orders EXCEPT ![id[q]] = q]
  /\ order' = [order EXCEPT ![q] = q]
  /\ Goto(q, "audit")
  /\ UNCHANGED <<paid, audit, kind, of, id, answer, saw>>

\* orders.get
Find(q) ==
  /\ pc[q] = "find"
  /\ IF orders[id[q]] = NoRequest
       THEN End(q, "unknown_order", FALSE) /\ UNCHANGED order
       ELSE /\ order' = [order EXCEPT ![q] = orders[id[q]]]
            /\ Goto(q, IF kind[q] = "pay" THEN "mark" ELSE "audit")
            /\ UNCHANGED answer
  /\ UNCHANGED <<orders, paid, audit, kind, of, id, saw>>

MarkCopy(q) ==
  /\ pc[q] = "mark"
  /\ Goto(q, "audit")
  /\ UNCHANGED <<orders, paid, audit, kind, of, id, order, answer, saw>>

\* order["status"] = "paid"
Mark(q) ==
  /\ pc[q] = "mark"
  /\ paid' = paid \cup {order[q]}
  /\ Goto(q, "audit")
  /\ UNCHANGED <<orders, audit, kind, of, id, order, answer, saw>>

\* record_audit
Audit(q) ==
  /\ pc[q] = "audit"
  /\ audit' = [audit EXCEPT ![<<kind[q], id[q]>>] = @ + 1]
  /\ Goto(q, "serialize")
  /\ UNCHANGED <<orders, paid, kind, of, id, order, answer, saw>>

Serialize(q) ==
  /\ pc[q] = "serialize"
  /\ End(q, "ok", order[q] \in paid)
  /\ UNCHANGED <<orders, paid, audit, kind, of, id, order, saw>>

Next ==
  \E q \in Request :
    \/ \E k \in Kinds, code \in {"denied", "unknown_drink"} : Refuse(q, k, code)
    \/ \E k \in Kinds, r \in Request \cup {NoRequest}, i \in OrderId :
         BeginFor(q, k, r, i)
    \/ BeginConfirm(q) \/ Count(q) \/ Insert(q)
    \/ Find(q) \/ Mark(q) \/ Audit(q) \/ Serialize(q)

Spec == Init /\ [][Next]_vars

----------------------------------------------------------------------------
(* Properties *)

Made(q) == kind[q] = "confirm" /\ order[q] = q

\* However the confirms overlap, they leave no gap: the ids in use are
\* 1 .. len(orders), so len(orders) + 1 is free at the moment it is computed.
IdsHaveNoGaps == Used = 1 .. Cardinality(Used)

\* An order gives its id to another one only if the two confirms overlapped:
\* neither had counted the order of the other.
LostOnlyByOverlap ==
  \A q, r \in Request :
    q # r /\ Made(q) /\ Made(r) /\ id[q] = id[r] => q \notin saw[r] /\ r \notin saw[q]

\* A payment that succeeded is on record and paid the order its client had
\* confirmed, or one that an overlapping confirm had put under the same id.
PaidAsConfirmed ==
  \A q \in Request :
    kind[q] = "pay" /\ answer[q].code = "ok" /\ of[q] # NoRequest =>
      /\ answer[q].paid
      /\ audit[<<"pay", id[q]>>] > 0
      /\ \/ of[q] \in paid
         \/ \E r \in Request : r # of[q] /\ Made(r) /\ id[r] = id[q] /\ r \in paid
                                 /\ of[q] \notin saw[r]

============================================================================
