------------------------ MODULE FastApiOrdersProofs ------------------------
(***************************************************************************)
(* What FastApiOrders keeps without a lock, for any number of requests.    *)
(***************************************************************************)
EXTENDS FastApiOrders, FiniteSetTheorems, TLAPS

USE OrdersAssumption

----------------------------------------------------------------------------
(* The inductive invariant *)

\* The confirm request r has put its order into the dict.
Placed(r) ==
  /\ r \in Request
  /\ kind[r] = "confirm"
  /\ pc[r] \in {"audit", "serialize", "done"}
  /\ order[r] = r

\* The dict maps an id to an order that was placed under it, and uses the ids
\* from 1 on.
DictInv ==
  /\ \A i \in Used : Placed(orders[i]) /\ id[orders[i]] = i
  /\ \E n \in Nat : Used = 1 .. n

\* A confirm has a larger id than every order it counted, and no larger one
\* than the next.
ConfirmInv(q) ==
  /\ pc[q] \in {"new", "count", "insert", "find"} => order[q] = NoRequest
  /\ pc[q] \in {"new", "count"} => saw[q] = {}
  /\ pc[q] = "new" => of[q] = NoRequest
  /\ pc[q] # "done" => answer[q].code = "none"
  /\ pc[q] \in {"count", "insert"} => kind[q] = "confirm"
  /\ pc[q] = "find" => kind[q] # "confirm"
  /\ pc[q] = "mark" => kind[q] = "pay"
  /\ pc[q] \notin {"new", "count"} /\ answer[q].code \in {"none", "ok"} => id[q] \in OrderId
  /\ pc[q] = "insert" => \A i \in OrderId : i < id[q] => i \in Used
  /\ kind[q] = "confirm" /\ (pc[q] \in {"audit", "serialize"} \/ answer[q].code = "ok")
       => Placed(q)
  /\ \A r \in saw[q] : Placed(r) /\ id[r] < id[q]

\* A payment holds an order that was placed under the id it pays.
PayInv(q) ==
  kind[q] = "pay" =>
    /\ pc[q] \in {"mark", "audit", "serialize"} \/ answer[q].code = "ok" =>
         Placed(order[q]) /\ id[order[q]] = id[q]
    /\ pc[q] \in {"audit", "serialize"} => order[q] \in paid
    /\ pc[q] = "serialize" => audit[<<"pay", id[q]>>] > 0
    /\ answer[q].code = "ok" =>
         /\ answer[q].paid /\ order[q] \in paid
         /\ audit[<<"pay", id[q]>>] > 0
    /\ pc[q] # "new" /\ of[q] # NoRequest => Placed(of[q]) /\ id[of[q]] = id[q]

IInv ==
  /\ TypeOK
  /\ DictInv
  /\ \A q \in Request : ConfirmInv(q) /\ PayInv(q)

----------------------------------------------------------------------------
(* Types *)

LEMMA UsedFinite ==
  /\ IsFiniteSet(Used)
  /\ Cardinality(Used) \in Nat
<1>1. IsFiniteSet(OrderId)
  BY FS_Interval DEF OrderId
<1>2. IsFiniteSet(Used)
  BY <1>1, FS_Subset DEF Used
<1> QED
  BY <1>2, FS_CardinalityType

LEMMA TypeInit == Init => TypeOK
BY DEF Init, TypeOK, NoAnswer, Kinds

LEMMA TypeInductive == IInv /\ [Next]_vars => TypeOK'
<1> SUFFICES ASSUME IInv, [Next]_vars
             PROVE  TypeOK'
  OBVIOUS
<1>1. ASSUME NEW q \in Request, NEW k \in Kinds,
             NEW code \in {"denied", "unknown_drink"}, Refuse(q, k, code)
      PROVE  TypeOK'
  BY <1>1 DEF Refuse, IInv, TypeOK, Goto, End
<1>2. ASSUME NEW q \in Request, NEW k \in Kinds, NEW r \in Request \cup {NoRequest},
             NEW i \in OrderId, BeginFor(q, k, r, i)
      PROVE  TypeOK'
  BY <1>2 DEF BeginFor, IInv, TypeOK, Goto, End
<1>3. ASSUME NEW q \in Request, BeginConfirm(q) PROVE TypeOK'
  BY <1>3 DEF BeginConfirm, Kinds, IInv, TypeOK, Goto
<1>4. ASSUME NEW q \in Request, Count(q) PROVE TypeOK'
  <2>1. {orders[i] : i \in Used} \subseteq Request
    BY DEF Used, IInv, TypeOK
  <2>2. NextId \in OrderId
    BY <1>4, UsedFinite DEF Count, NextId, OrderId
  <2> QED
    BY <1>4, <2>1, <2>2 DEF Count, IInv, TypeOK, Goto
<1>5. ASSUME NEW q \in Request, Insert(q) PROVE TypeOK'
  BY <1>5 DEF Insert, IInv, TypeOK, Goto, End
<1>6. ASSUME NEW q \in Request, Find(q) PROVE TypeOK'
  <2>1. id[q] \in OrderId /\ orders[id[q]] \in Request \cup {NoRequest}
    BY <1>6 DEF Find, ConfirmInv, IInv, TypeOK
  <2>2. CASE orders[id[q]] = NoRequest
    <3>1. /\ pc' = [pc EXCEPT ![q] = "done"]
          /\ answer' = [answer EXCEPT ![q] = [code |-> "unknown_order", paid |-> FALSE]]
          /\ UNCHANGED <<orders, paid, audit, kind, of, id, order, saw>>
      BY <1>6, <2>2 DEF Find, Goto, End
    <3> QED
      BY <3>1 DEF IInv, TypeOK
  <2>3. CASE orders[id[q]] # NoRequest
    <3>1. order' \in [Request -> Request \cup {NoRequest}]
      BY <1>6, <2>1, <2>3 DEF Find, IInv, TypeOK
    <3>2. pc' = [pc EXCEPT ![q] = "mark"] \/ pc' = [pc EXCEPT ![q] = "audit"]
      BY <1>6, <2>3 DEF Find, Goto
    <3> QED
      BY <1>6, <2>3, <3>1, <3>2 DEF Find, IInv, TypeOK
  <2> QED
    BY <2>2, <2>3
<1>7. ASSUME NEW q \in Request, Mark(q) PROVE TypeOK'
  <2>1. order[q] \in Request
    BY <1>7 DEF Mark, ConfirmInv, PayInv, Placed, IInv
  <2> QED
    BY <1>7, <2>1 DEF Mark, IInv, TypeOK, Goto
<1>8. ASSUME NEW q \in Request, Audit(q) PROVE TypeOK'
  <2>1. kind[q] \in Kinds /\ id[q] \in OrderId
    <3>1. answer[q].code = "none" \/ answer[q].code = "ok"
      BY <1>8 DEF Audit, ConfirmInv, IInv, TypeOK
    <3> QED
      BY <1>8, <3>1 DEF Audit, ConfirmInv, IInv, TypeOK
  <2>2. audit' \in [Kinds \X OrderId -> Nat]
    BY <1>8, <2>1 DEF Audit, IInv, TypeOK
  <2> QED
    BY <1>8, <2>2 DEF Audit, IInv, TypeOK, Goto
<1>9. ASSUME NEW q \in Request, Serialize(q) PROVE TypeOK'
  BY <1>9 DEF Serialize, IInv, TypeOK, Goto, End
<1>10. CASE UNCHANGED vars
  BY <1>10 DEF vars, IInv, TypeOK
<1> QED
  BY <1>1, <1>2, <1>3, <1>4, <1>5, <1>6, <1>7, <1>8, <1>9, <1>10 DEF Next

----------------------------------------------------------------------------
(* Every step keeps the invariant *)

\* A placed order stays placed, under its id.
LEMMA PlacedStable ==
  ASSUME IInv, [Next]_vars, NEW r, Placed(r)
  PROVE  Placed(r)' /\ id'[r] = id[r]
<1>1. ASSUME NEW q \in Request, NEW k \in Kinds, NEW code, Refuse(q, k, code)
      PROVE  Placed(r)' /\ id'[r] = id[r]
  BY <1>1 DEF Refuse, Placed, End, Goto, IInv, TypeOK
<1>2. ASSUME NEW q \in Request, NEW k \in Kinds, NEW s, NEW i, BeginFor(q, k, s, i)
      PROVE  Placed(r)' /\ id'[r] = id[r]
  BY <1>2 DEF BeginFor, Placed, Goto, IInv, TypeOK
<1>3. ASSUME NEW q \in Request, BeginConfirm(q) \/ Count(q) \/ Insert(q) \/ Mark(q)
      PROVE  Placed(r)' /\ id'[r] = id[r]
  BY <1>3 DEF BeginConfirm, Count, Insert, Mark, Placed, Goto, IInv, TypeOK
<1>4. ASSUME NEW q \in Request, Find(q)
      PROVE  Placed(r)' /\ id'[r] = id[r]
  BY <1>4 DEF Find, Placed, Goto, End, IInv, TypeOK
<1>5. ASSUME NEW q \in Request, Audit(q) \/ Serialize(q)
      PROVE  Placed(r)' /\ id'[r] = id[r]
  BY <1>5 DEF Audit, Serialize, Placed, Goto, End, IInv, TypeOK
<1>6. CASE UNCHANGED vars
  BY <1>6 DEF vars, Placed
<1> QED
  BY <1>1, <1>2, <1>3, <1>4, <1>5, <1>6 DEF Next

\* The next id is one more than the last one in use.
LEMMA NextIdIsFree ==
  ASSUME DictInv
  PROVE  /\ NextId \in Nat \ {0}
         /\ \A i \in OrderId : i < NextId <=> i \in Used
<1>1. PICK n \in Nat : Used = 1 .. n
  BY DEF DictInv
<1>2. Cardinality(Used) = n
  BY <1>1, FS_Interval
<1> QED
  BY <1>1, <1>2 DEF NextId, OrderId

LEMMA DictInductive == IInv /\ [Next]_vars => DictInv'
<1> SUFFICES ASSUME IInv, [Next]_vars
             PROVE  DictInv'
  OBVIOUS
<1>1. CASE orders' = orders
  <2>1. Used' = Used
    BY <1>1 DEF Used
  <2> QED
    BY <1>1, <2>1, PlacedStable DEF DictInv, IInv
<1>2. CASE orders' # orders
  <2>1. PICK q \in Request : Insert(q)
    BY <1>2 DEF Next, Refuse, BeginFor, BeginConfirm, Count, Insert, Find, Mark, Audit,
       Serialize, vars
  <2>2. id[q] \in OrderId /\ kind[q] = "confirm"
    BY <2>1 DEF Insert, IInv, TypeOK, ConfirmInv
  <2>3. \A i \in OrderId : i < id[q] => i \in Used
    BY <2>1 DEF Insert, IInv, ConfirmInv
  <2>4. /\ orders' = [orders EXCEPT ![id[q]] = q]
        /\ Placed(q)' /\ id' = id
    BY <2>1, <2>2 DEF Insert, Placed, Goto, IInv, TypeOK
  <2>5. Used' = Used \cup {id[q]}
    BY <2>2, <2>4 DEF Used, IInv, TypeOK
  <2>6. \A i \in Used' : Placed(orders[i])' /\ id'[orders'[i]] = i
    <3> SUFFICES ASSUME NEW i \in Used'
                 PROVE  Placed(orders[i])' /\ id'[orders'[i]] = i
      OBVIOUS
    <3>1. CASE i = id[q]
      BY <2>2, <2>4, <3>1 DEF IInv, TypeOK, Placed
    <3>2. CASE i # id[q]
      <4>1. i \in Used /\ orders'[i] = orders[i]
        BY <2>4, <2>5, <3>2 DEF Used, IInv, TypeOK
      <4>2. Placed(orders[i]) /\ id[orders[i]] = i
        BY <4>1 DEF IInv, DictInv
      <4>3. order'[orders[i]] = order[orders[i]] \/ orders[i] = q
        BY <2>1, <4>2 DEF Insert, Placed, IInv, TypeOK
      <4> QED
        BY <2>4, <4>1, <4>2, PlacedStable DEF Placed
    <3> QED
      BY <3>1, <3>2
  <2>7. \E n \in Nat : Used' = 1 .. n
    <3>1. PICK n \in Nat : Used = 1 .. n
      BY DEF IInv, DictInv
    <3>2. id[q] <= n + 1
      <4>1. n + 1 \notin Used
        BY <3>1
      <4> QED
        BY <2>2, <2>3, <4>1 DEF OrderId
    <3>3. CASE id[q] <= n
      BY <2>2, <2>5, <3>1, <3>3 DEF OrderId
    <3>4. CASE id[q] = n + 1
      <4>1. Used' = 1 .. n + 1
        BY <2>5, <3>1, <3>4
      <4> QED
        BY <4>1
    <3> QED
      BY <2>2, <3>2, <3>3, <3>4 DEF OrderId
  <2> QED
    BY <2>6, <2>7 DEF DictInv
<1> QED
  BY <1>1, <1>2

\* What a request has, and what it was answered.
Of(d) == <<pc[d], kind[d], of[d], id[d], order[d], answer[d], saw[d]>>

LEMMA NothingIsUndone ==
  ASSUME IInv, [Next]_vars
  PROVE  /\ Used \subseteq Used'
         /\ paid \subseteq paid'
         /\ \A e \in Kinds \X OrderId : audit[e] > 0 => audit'[e] > 0
<1>1. Used \subseteq Used'
  <2>1. orders' = orders \/ \E q \in Request : orders' = [orders EXCEPT ![id[q]] = q]
    BY DEF Next, Refuse, BeginFor, BeginConfirm, Count, Insert, Find, Mark, Audit,
       Serialize, vars
  <2> QED
    BY <2>1 DEF Used, IInv, TypeOK
<1>2. paid \subseteq paid'
  BY DEF Next, Refuse, BeginFor, BeginConfirm, Count, Insert, Find, Mark, Audit,
     Serialize, vars
<1>3. audit' = audit \/ \E q \in Request : Audit(q)
  BY DEF Next, Refuse, BeginFor, BeginConfirm, Count, Insert, Find, Mark, Serialize, vars
<1>4. ASSUME NEW e \in Kinds \X OrderId, audit[e] > 0
      PROVE  audit'[e] > 0
  <2>1. CASE audit' = audit
    BY <1>4, <2>1
  <2>2. ASSUME NEW q \in Request, Audit(q)
        PROVE  audit'[e] > 0
    <3>1. audit[e] \in Nat /\ audit'[e] = IF e = <<kind[q], id[q]>> THEN audit[e] + 1 ELSE audit[e]
      BY <2>2 DEF Audit, IInv, TypeOK
    <3> QED
      BY <1>4, <3>1
  <2> QED
    BY <1>3, <2>1, <2>2
<1> QED
  BY <1>1, <1>2, <1>4

\* A step of another request does not disturb this one.
LEMMA InvStable ==
  ASSUME IInv, [Next]_vars, NEW d \in Request, UNCHANGED Of(d)
  PROVE  ConfirmInv(d)' /\ PayInv(d)'
<1>1. ConfirmInv(d) /\ PayInv(d)
  BY DEF IInv
<1>2. \A r \in saw[d] : Placed(r)' /\ id'[r] < id'[d]
  <2>1. \A r \in saw[d] : Placed(r) /\ id[r] < id[d]
    BY <1>1 DEF ConfirmInv
  <2> QED
    BY <2>1, PlacedStable DEF Of
<1>3. Placed(d) => Placed(d)'
  BY PlacedStable
<1>4. ConfirmInv(d)'
  BY <1>1, <1>2, <1>3, NothingIsUndone DEF ConfirmInv, Of
<1>5. Placed(order[d]) => Placed(order[d])' /\ id'[order[d]] = id[order[d]]
  <2>1. Placed(order[d]) => /\ order'[order[d]] = order[order[d]]
                            /\ kind'[order[d]] = kind[order[d]]
                            /\ pc'[order[d]] \in {"audit", "serialize", "done"}
                            /\ id'[order[d]] = id[order[d]]
    BY PlacedStable DEF Placed, Of
  <2> QED
    BY <2>1 DEF Placed, Of
<1>6. Placed(of[d]) => Placed(of[d])' /\ id'[of[d]] = id[of[d]]
  <2>1. Placed(of[d]) => /\ order'[of[d]] = order[of[d]]
                         /\ kind'[of[d]] = kind[of[d]]
                         /\ pc'[of[d]] \in {"audit", "serialize", "done"}
                         /\ id'[of[d]] = id[of[d]]
    BY PlacedStable DEF Placed, Of
  <2> QED
    BY <2>1 DEF Placed, Of
<1>7. kind[d] = "pay" /\ (pc[d] \notin {"new", "done"} \/ answer[d].code = "ok")
        => <<"pay", id[d]>> \in Kinds \X OrderId
  BY <1>1 DEF IInv, TypeOK, ConfirmInv, Kinds
<1>8. PayInv(d)'
  BY <1>1, <1>5, <1>6, <1>7, NothingIsUndone DEF PayInv, Of
<1> QED
  BY <1>4, <1>8

\* A step of one request leaves the others as they are.
LEMMA OthersRest ==
  ASSUME IInv, NEW q \in Request,
         \/ \E k \in Kinds, code \in {"denied", "unknown_drink"} : Refuse(q, k, code)
         \/ \E k \in Kinds, r \in Request \cup {NoRequest}, i \in OrderId :
              BeginFor(q, k, r, i)
         \/ BeginConfirm(q) \/ Count(q) \/ Insert(q)
         \/ Find(q) \/ Mark(q) \/ Audit(q) \/ Serialize(q)
  PROVE  \A d \in Request \ {q} : UNCHANGED Of(d)
<1>1. ASSUME NEW k, NEW code, Refuse(q, k, code)
      PROVE  \A d \in Request \ {q} : UNCHANGED Of(d)
  BY <1>1 DEF Refuse, Of, Goto, End, IInv, TypeOK
<1>2. ASSUME NEW k, NEW r, NEW i, BeginFor(q, k, r, i)
      PROVE  \A d \in Request \ {q} : UNCHANGED Of(d)
  BY <1>2 DEF BeginFor, Of, Goto, IInv, TypeOK
<1>3. CASE BeginConfirm(q)
  BY <1>3 DEF BeginConfirm, Of, Goto, End, IInv, TypeOK
<1>4. CASE Count(q)
  BY <1>4 DEF Count, Of, Goto, End, IInv, TypeOK
<1>5. CASE Insert(q)
  BY <1>5 DEF Insert, Of, Goto, End, IInv, TypeOK
<1>6. CASE Find(q)
  BY <1>6 DEF Find, Of, Goto, End, IInv, TypeOK
<1>7. CASE Mark(q)
  BY <1>7 DEF Mark, Of, Goto, End, IInv, TypeOK
<1>8. CASE Audit(q)
  BY <1>8 DEF Audit, Of, Goto, End, IInv, TypeOK
<1>9. CASE Serialize(q)
  BY <1>9 DEF Serialize, Of, Goto, End, IInv, TypeOK
<1> QED
  BY <1>1, <1>2, <1>3, <1>4, <1>5, <1>6, <1>7, <1>8, <1>9

\* The request that moves keeps its own part of the invariant.
LEMMA MoverInductive ==
  ASSUME IInv, Next
  PROVE  \E q \in Request :
           /\ ConfirmInv(q)' /\ PayInv(q)'
           /\ \A d \in Request \ {q} : UNCHANGED Of(d)
<1>a. \A d \in Request : ConfirmInv(d) /\ PayInv(d)
  BY DEF IInv
<1>1. ASSUME NEW q \in Request, NEW k \in Kinds, NEW code \in {"denied", "unknown_drink"},
             Refuse(q, k, code)
      PROVE  ConfirmInv(q)' /\ PayInv(q)'
  <2>1. /\ pc[q] = "new" /\ pc'[q] = "done"
        /\ kind'[q] = k /\ answer'[q].code = code
        /\ UNCHANGED <<of, id, order, saw>>
    BY <1>1 DEF Refuse, Goto, End, IInv, TypeOK
  <2>2. of[q] = NoRequest /\ saw[q] = {}
    BY <1>a, <2>1 DEF ConfirmInv
  <2> QED
    BY <2>1, <2>2 DEF ConfirmInv, PayInv
<1>2. ASSUME NEW q \in Request, NEW k \in Kinds, NEW s \in Request \cup {NoRequest},
             NEW i \in OrderId, BeginFor(q, k, s, i)
      PROVE  ConfirmInv(q)' /\ PayInv(q)'
  <2>1. /\ pc[q] = "new" /\ pc'[q] = "find"
        /\ kind'[q] = k /\ k \in {"pay", "get"}
        /\ of'[q] = s /\ id'[q] = i
        /\ UNCHANGED <<order, saw, answer>>
    BY <1>2 DEF BeginFor, Goto, IInv, TypeOK
  <2>2. order[q] = NoRequest /\ saw[q] = {} /\ answer[q].code = "none"
    BY <1>a, <2>1 DEF ConfirmInv
  <2>3. s # NoRequest => Placed(s) /\ id[s] = i
    BY <1>a, <1>2 DEF BeginFor, ConfirmInv
  <2>4. s # NoRequest => Placed(s)' /\ id'[s] = i
    BY <2>3, PlacedStable
  <2>5. ConfirmInv(q)'
    BY <2>1, <2>2 DEF ConfirmInv
  <2>6. PayInv(q)'
    BY <2>1, <2>2, <2>4 DEF PayInv, Placed
  <2> QED
    BY <2>5, <2>6
<1>3. ASSUME NEW q \in Request, BeginConfirm(q)
      PROVE  ConfirmInv(q)' /\ PayInv(q)'
  <2>1. /\ pc[q] = "new" /\ pc'[q] = "count"
        /\ kind'[q] = "confirm"
        /\ UNCHANGED <<of, id, order, answer, saw>>
    BY <1>3 DEF BeginConfirm, Goto, IInv, TypeOK
  <2> QED
    BY <1>a, <2>1 DEF ConfirmInv, PayInv
<1>4. ASSUME NEW q \in Request, Count(q)
      PROVE  ConfirmInv(q)' /\ PayInv(q)'
  <2>1. /\ id'[q] = NextId /\ saw'[q] = {orders[i] : i \in Used}
        /\ pc'[q] = "insert" /\ kind'[q] = "confirm"
        /\ UNCHANGED <<kind, order, answer, orders>>
        /\ NextId <= MaxOrder
    BY <1>4 DEF Count, Goto, IInv, TypeOK, ConfirmInv
  <2>2. id'[q] \in OrderId /\ \A i \in OrderId : i < id'[q] <=> i \in Used
    BY <2>1, NextIdIsFree DEF IInv, OrderId
  <2>3. Used' = Used
    BY <2>1 DEF Used
  <2>4. \A r \in saw'[q] : Placed(r) /\ id[r] < id'[q]
    <3> SUFFICES ASSUME NEW i \in Used
                 PROVE  Placed(orders[i]) /\ id[orders[i]] < id'[q]
      BY <2>1
    <3>1. Placed(orders[i]) /\ id[orders[i]] = i /\ i \in OrderId
      BY DEF IInv, DictInv, Used
    <3> QED
      BY <2>2, <3>1
  <2>5. \A r \in saw'[q] : Placed(r)' /\ id'[r] < id'[q]
    BY <2>4, PlacedStable
  <2>6. order[q] = NoRequest /\ answer[q].code = "none"
    BY <1>4 DEF Count, IInv, ConfirmInv
  <2> QED
    BY <2>1, <2>2, <2>3, <2>5, <2>6 DEF ConfirmInv, PayInv
<1>5. ASSUME NEW q \in Request, Insert(q)
      PROVE  ConfirmInv(q)' /\ PayInv(q)'
  BY <1>5, PlacedStable DEF Insert, ConfirmInv, PayInv, Placed, Goto, End, IInv, TypeOK
<1>6. ASSUME NEW q \in Request, Find(q)
      PROVE  ConfirmInv(q)' /\ PayInv(q)'
  <2>1. /\ pc[q] = "find" /\ kind[q] # "confirm" /\ id[q] \in OrderId
        /\ order[q] = NoRequest /\ answer[q].code = "none"
        /\ UNCHANGED <<orders, paid, audit, kind, of, id, saw>>
    BY <1>a, <1>6 DEF Find, ConfirmInv
  <2>2. \A r \in saw[q] : Placed(r)' /\ id'[r] < id'[q]
    <3>1. \A r \in saw[q] : Placed(r) /\ id[r] < id[q]
      BY <1>a DEF ConfirmInv
    <3> QED
      BY <2>1, <3>1, PlacedStable
  <2>3. kind[q] = "pay" /\ of[q] # NoRequest => Placed(of[q])' /\ id'[of[q]] = id[q]
    <3>1. kind[q] = "pay" /\ of[q] # NoRequest => Placed(of[q]) /\ id[of[q]] = id[q]
      BY <1>a, <2>1 DEF PayInv
    <3> QED
      BY <2>1, <3>1, PlacedStable DEF Placed
  <2>4. CASE orders[id[q]] = NoRequest
    <3>1. /\ pc'[q] = "done" /\ answer'[q].code = "unknown_order"
          /\ UNCHANGED order
      BY <1>6, <2>4 DEF Find, Goto, End, IInv, TypeOK
    <3> QED
      BY <2>1, <2>2, <2>3, <3>1 DEF ConfirmInv, PayInv, Placed
  <2>5. CASE orders[id[q]] # NoRequest
    <3>1. /\ pc'[q] = IF kind[q] = "pay" THEN "mark" ELSE "audit"
          /\ order'[q] = orders[id[q]] /\ UNCHANGED answer
      BY <1>6, <2>5 DEF Find, Goto, IInv, TypeOK
    <3>2. Placed(orders[id[q]]) /\ id[orders[id[q]]] = id[q]
      BY <2>1, <2>5 DEF IInv, DictInv, Used
    <3>3. Placed(orders[id[q]])' /\ id'[orders[id[q]]] = id[q]
      BY <2>1, <3>2, PlacedStable
    <3>4. ConfirmInv(q)'
      <4>1. (pc'[q] = "mark" /\ kind[q] = "pay") \/ pc'[q] = "audit"
        BY <3>1
      <4>2. pc'[q] \notin {"new", "count", "insert", "find", "serialize", "done"}
        BY <4>1
      <4>3. kind'[q] # "confirm" /\ id'[q] \in OrderId /\ answer'[q].code = "none"
        BY <2>1, <3>1
      <4> QED
        BY <2>1, <2>2, <4>1, <4>2, <4>3 DEF ConfirmInv
    <3>5. PayInv(q)'
      BY <2>1, <2>3, <3>1, <3>3 DEF PayInv, Placed
    <3> QED
      BY <3>4, <3>5
  <2> QED
    BY <2>4, <2>5
<1>7. ASSUME NEW q \in Request, Mark(q)
      PROVE  ConfirmInv(q)' /\ PayInv(q)'
  BY <1>7, PlacedStable DEF Mark, ConfirmInv, PayInv, Placed, Goto, End, IInv, TypeOK
<1>8. ASSUME NEW q \in Request, Audit(q)
      PROVE  ConfirmInv(q)' /\ PayInv(q)'
  BY <1>8, PlacedStable DEF Audit, ConfirmInv, PayInv, Placed, Goto, End, IInv, TypeOK
<1>9. ASSUME NEW q \in Request, Serialize(q)
      PROVE  ConfirmInv(q)' /\ PayInv(q)'
  <2>1. /\ pc[q] = "serialize" /\ pc'[q] = "done" /\ answer[q].code = "none"
        /\ answer'[q].code = "ok" /\ (answer'[q].paid <=> order[q] \in paid)
        /\ UNCHANGED <<orders, paid, audit, kind, of, id, order, saw>>
    BY <1>a, <1>9 DEF Serialize, Goto, End, ConfirmInv, IInv, TypeOK
  <2>2. \A r : Placed(r) => Placed(r)'
    BY PlacedStable
  <2>3. ConfirmInv(q)'
    BY <1>a, <2>1, <2>2 DEF ConfirmInv
  <2>4. PayInv(q)'
    BY <1>a, <2>1, <2>2 DEF PayInv, Placed
  <2> QED
    BY <2>3, <2>4
<1>10. PICK q \in Request :
         \/ \E k \in Kinds, code \in {"denied", "unknown_drink"} : Refuse(q, k, code)
         \/ \E k \in Kinds, r \in Request \cup {NoRequest}, i \in OrderId :
              BeginFor(q, k, r, i)
         \/ BeginConfirm(q) \/ Count(q) \/ Insert(q)
         \/ Find(q) \/ Mark(q) \/ Audit(q) \/ Serialize(q)
  BY DEF Next
<1>11. ConfirmInv(q)' /\ PayInv(q)'
  BY <1>1, <1>2, <1>3, <1>4, <1>5, <1>6, <1>7, <1>8, <1>9, <1>10
<1>12. \A d \in Request \ {q} : UNCHANGED Of(d)
  BY <1>10, OthersRest
<1> QED
  BY <1>11, <1>12

LEMMA IInvInit == Init => IInv
<1> SUFFICES ASSUME Init PROVE IInv
  OBVIOUS
<1>1. Used = 1 .. 0
  BY DEF Init, Used
<1>2. DictInv
  BY <1>1 DEF DictInv
<1>3. \A q \in Request : ConfirmInv(q) /\ PayInv(q)
  BY DEF Init, NoAnswer, ConfirmInv, PayInv
<1> QED
  BY <1>2, <1>3, TypeInit DEF IInv

LEMMA IInvInductive == IInv /\ [Next]_vars => IInv'
<1> SUFFICES ASSUME IInv, [Next]_vars
             PROVE  IInv'
  OBVIOUS
<1>1. \A d \in Request : UNCHANGED Of(d) => ConfirmInv(d)' /\ PayInv(d)'
  BY InvStable
<1>2. \A d \in Request : ConfirmInv(d)' /\ PayInv(d)'
  <2>1. CASE Next
    BY <1>1, <2>1, MoverInductive
  <2>2. CASE UNCHANGED vars
    <3>1. \A d \in Request : UNCHANGED Of(d)
      BY <2>2 DEF vars, Of
    <3> QED
      BY <1>1, <3>1
  <2> QED
    BY <2>1, <2>2
<1> QED
  BY <1>2, TypeInductive, DictInductive DEF IInv

LEMMA IInvHolds == Spec => []IInv
BY IInvInit, IInvInductive, PTL DEF Spec

----------------------------------------------------------------------------
(* The theorems *)

\* The state keeps its types: a thread only puts, marks and audits an order it
\* has hold of, under an id that it made up or was given.
THEOREM TypeCorrect == Spec => []TypeOK
<1>1. IInv => TypeOK
  BY DEF IInv
<1> QED
  BY <1>1, IInvHolds, PTL

\* The ids in use are 1 .. len(orders) however the confirms overlap, so
\* len(orders) + 1 is free when it is computed.
THEOREM NoGaps == Spec => []IdsHaveNoGaps
<1>1. IInv => IdsHaveNoGaps
  <2> SUFFICES ASSUME IInv PROVE IdsHaveNoGaps
    OBVIOUS
  <2>1. PICK n \in Nat : Used = 1 .. n
    BY DEF IInv, DictInv
  <2>2. Cardinality(Used) = n
    BY <2>1, FS_Interval
  <2> QED
    BY <2>1, <2>2 DEF IdsHaveNoGaps
<1> QED
  BY <1>1, IInvHolds, PTL

\* A confirm that had counted an order never takes its id: without a lock, an
\* order is lost to an overlapping confirm only.
THEOREM OnlyOverlapLoses == Spec => []LostOnlyByOverlap
<1>1. IInv => LostOnlyByOverlap
  <2> SUFFICES ASSUME IInv, NEW q \in Request, NEW r \in Request,
                      Made(q), Made(r), id[q] = id[r]
               PROVE  q \notin saw[r] /\ r \notin saw[q]
    BY DEF LostOnlyByOverlap
  <2>1. id[q] \in Nat
    BY DEF IInv, TypeOK, OrderId
  <2> QED
    BY <2>1 DEF IInv, ConfirmInv
<1> QED
  BY <1>1, IInvHolds, PTL

\* A payment that succeeded is on record and paid the order that its client had
\* confirmed, or one that an overlapping confirm had put under its id.
THEOREM PaymentsAreTrue == Spec => []PaidAsConfirmed
<1>1. IInv => PaidAsConfirmed
  <2> SUFFICES ASSUME IInv, NEW q \in Request,
                      kind[q] = "pay", answer[q].code = "ok", of[q] # NoRequest
               PROVE  /\ answer[q].paid /\ audit[<<"pay", id[q]>>] > 0
                      /\ \/ of[q] \in paid
                         \/ \E r \in Request : /\ r # of[q] /\ Made(r) /\ id[r] = id[q]
                                               /\ r \in paid /\ of[q] \notin saw[r]
    BY DEF PaidAsConfirmed
  <2>1. ConfirmInv(q) /\ PayInv(q)
    BY DEF IInv
  <2>2. /\ answer[q].paid /\ audit[<<"pay", id[q]>>] > 0 /\ order[q] \in paid
        /\ Placed(order[q]) /\ id[order[q]] = id[q]
    BY <2>1 DEF PayInv
  <2>3. Placed(of[q]) /\ id[of[q]] = id[q]
    BY <2>1 DEF PayInv, ConfirmInv
  <2>4. of[q] \notin saw[order[q]]
    <3>1. \A r \in saw[order[q]] : id[r] < id[order[q]]
      BY <2>2 DEF Placed, IInv, ConfirmInv
    <3>2. id[q] \in Nat
      BY DEF IInv, TypeOK, OrderId
    <3> QED
      BY <2>2, <2>3, <3>1, <3>2
  <2> QED
    BY <2>2, <2>3, <2>4 DEF Placed, Made
<1> QED
  BY <1>1, IInvHolds, PTL

============================================================================
