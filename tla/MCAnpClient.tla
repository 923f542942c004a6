---------------------------- MODULE MCAnpClient ----------------------------
(***************************************************************************)
(* AnpClient for TLC: the requests are alike.                              *)
(***************************************************************************)
EXTENDS AnpClient, TLC

Interchangeable == Permutations(Request)

============================================================================
