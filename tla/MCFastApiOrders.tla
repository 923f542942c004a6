-------------------------- MODULE MCFastApiOrders --------------------------
(***************************************************************************)
(* FastApiOrders for TLC: the requests differ only in what they ask.       *)
(***************************************************************************)
EXTENDS FastApiOrders, TLC

Interchangeable == Permutations(Request)

============================================================================
