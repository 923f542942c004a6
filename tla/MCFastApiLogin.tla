-------------------------- MODULE MCFastApiLogin --------------------------
(***************************************************************************)
(* A small FastAPI service.  It trusts the one DID of its DID document, or *)
(* none when the file cannot be read, and its token secret always has a    *)
(* value.                                                                  *)
(***************************************************************************)
EXTENDS FastApiLogin, MCLoginData

MCFastApiConfigs ==
  {[issuer |-> TRUE, trusted |-> {aliceDid}],
   [issuer |-> TRUE, trusted |-> {}]}

============================================================================
