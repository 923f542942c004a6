----------------------------- MODULE OrderBook -----------------------------
(***************************************************************************)
(* What a merchant's order book promises while its server runs: an order   *)
(* id names one order for one drink, and an order is only ever paid.       *)
(* Nothing survives the server.                                            *)
(***************************************************************************)
CONSTANTS OrderId, Drink, NoOrder

VARIABLE book

Order == [drink : Drink, status : {"pending_payment", "paid"}]

Init == book = [id \in OrderId |-> NoOrder]

Confirm(id, d) ==
  /\ book[id] = NoOrder
  /\ book' = [book EXCEPT ![id] = [drink |-> d, status |-> "pending_payment"]]

Pay(id) ==
  /\ book[id] # NoOrder
  /\ book' = [book EXCEPT ![id] = [@ EXCEPT !.status = "paid"]]

Restart == book' = [id \in OrderId |-> NoOrder]

Next ==
  \/ \E id \in OrderId : Pay(id) \/ \E d \in Drink : Confirm(id, d)
  \/ Restart

Spec == Init /\ [][Next]_book

============================================================================
