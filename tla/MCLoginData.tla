---------------------------- MODULE MCLoginData ----------------------------
(***************************************************************************)
(* Values for the constants of LoginData: two challenges and two           *)
(* identities of different users.  The requests are one of each kind a     *)
(* login handler tells apart; all of them name challenge c1, which is      *)
(* minted for either identity, while c2 is the source of a proof for       *)
(* another nonce.                                                          *)
(***************************************************************************)
EXTENDS LoginData

CONSTANTS c1, c2, alice, bob, aliceDid, bobDid

MCUserOf == [i \in {alice, bob} |-> IF i = alice THEN aliceDid ELSE bobDid]

ProofBy(c, i, did, verifies) ==
  [challenge |-> c, identity |-> i, keyDid |-> did, verifies |-> verifies]

LoginWith(c, i, proof) ==
  [merchant |-> TRUE, challenge |-> c, identity |-> i, proof |-> proof]

Genuine(c, i) == LoginWith(c, i, ProofBy(c, i, MCUserOf[i], TRUE))

MCRequests ==
  {Genuine(c1, alice),
   Genuine(c1, bob),
   LoginWith(c1, alice, ProofBy(c1, alice, aliceDid, FALSE)),
   LoginWith(c1, alice, ProofBy(c1, alice, bobDid, TRUE)),
   LoginWith(c1, alice, ProofBy(c2, alice, aliceDid, TRUE)),
   LoginWith(c1, alice, Malformed),
   [Genuine(c1, alice) EXCEPT !.merchant = FALSE]}

MCConfigs ==
  {[issuer |-> TRUE, trusted |-> {aliceDid, bobDid}],
   [issuer |-> TRUE, trusted |-> {bobDid}],
   [issuer |-> FALSE, trusted |-> {aliceDid, bobDid}]}

============================================================================
