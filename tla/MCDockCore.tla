---------------------------- MODULE MCDockCore ----------------------------
(***************************************************************************)
(* Three overlapping calls of a Skill with the APIs the policy tells       *)
(* apart: a query, a payment labelled L3, an address book labelled by its  *)
(* words only (and a query by them too), and a transaction labelled L1.    *)
(***************************************************************************)
EXTENDS DockCore, TLC

CONSTANTS search, pay, address, label1

MCDeclared ==
  search :> [label |-> NoLabel, topics |-> {"read"}, component |-> TRUE] @@
  pay :> [label |-> 3, topics |-> {"trade"}, component |-> TRUE] @@
  address :> [label |-> NoLabel, topics |-> {"privacy", "read"},
              component |-> FALSE] @@
  label1 :> [label |-> 1, topics |-> {"trade", "read"}, component |-> FALSE]

MCSymmetry == Permutations(Call)

============================================================================
