--------------------------- MODULE MCCoffeeOrders ---------------------------
(***************************************************************************)
(* CoffeeOrders for TLC.  The requests differ only in what they ask, and   *)
(* the drinks only in their names.                                         *)
(***************************************************************************)
EXTENDS CoffeeOrders, TLC

Interchangeable == Permutations(Request) \cup Permutations(Drink)

============================================================================
