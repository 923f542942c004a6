--------------------------- MODULE OneTimeLogin ---------------------------
(***************************************************************************)
(* What a merchant's challenge/login endpoint promises its clients, with   *)
(* no handlers, locks, clocks or audit: a challenge is bound to one        *)
(* identity when it is minted and buys at most one capability token, for   *)
(* that identity.  It may also be lost (a restart, a missing issuer), and  *)
(* then buys none.                                                         *)
(*                                                                         *)
(* DemoAuth (the Rust demo-server) is shown to implement this module;      *)
(* FastApiLogin (the Python service) is not.                               *)
(***************************************************************************)
CONSTANTS
  Challenge,   \* challenge ids
  Identity,    \* (session, Skill, user DID, agent DID) tuples
  Nobody       \* the binding of a challenge that was never minted

VARIABLES
  bound,       \* the identity each challenge was minted for
  open,        \* the challenges that can still buy a token
  tokens       \* the capability tokens handed out so far

vars == <<bound, open, tokens>>

\* A token is a record with a challenge, an identity and a jti, which tells two
\* tokens of one challenge apart.
Init ==
  /\ bound = [c \in Challenge |-> Nobody]
  /\ open = {}
  /\ tokens = {}

Mint(c, i) ==
  /\ bound[c] = Nobody
  /\ bound' = [bound EXCEPT ![c] = i]
  /\ open' = open \cup {c}
  /\ UNCHANGED tokens

Grant(c) ==
  /\ c \in open
  /\ open' = open \ {c}
  /\ \E t \in tokens' \ tokens :
       /\ tokens' = tokens \cup {t}
       /\ t.challenge = c
       /\ t.identity = bound[c]
  /\ UNCHANGED bound

Lose(lost) ==
  /\ open' = open \ lost
  /\ UNCHANGED <<bound, tokens>>

Next ==
  \/ \E c \in Challenge, i \in Identity : Mint(c, i)
  \/ \E c \in Challenge : Grant(c)
  \/ \E lost \in SUBSET open : Lose(lost)

Spec == Init /\ [][Next]_vars

============================================================================
