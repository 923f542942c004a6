-------------------------- MODULE CapabilityToken --------------------------
(***************************************************************************)
(* The capability tokens of crates/anp-adapter (token.rs): when a token is *)
(* issued, when a server accepts it and when a client thinks it expired.   *)
(* Clocks count milliseconds in a machine word; the claims of a token      *)
(* count whole seconds.                                                    *)
(*                                                                         *)
(* A token stands for its claims and for the secret that signed them: the  *)
(* signature verifies under that secret and under no other.                *)
(***************************************************************************)
EXTENDS Naturals

CONSTANTS
  MaxWord,      \* the largest u64
  TokenTtl,     \* ttl_ms of the issuer
  Subject,      \* (merchant, user, agent, Skill, session): whom a token is for
  NoToken

ASSUME TokenAssumption ==
  /\ MaxWord \in Nat
  /\ TokenTtl \in Nat \ {0}    \* CapabilityTokenIssuerConfig::validate

Second == 1000

\* saturating_add, saturating_mul: nothing wraps around.
Saturate(n) == IF n <= MaxWord THEN n ELSE MaxWord

Floor(ms) == ms \div Second
Ceil(ms) == (ms + (Second - 1)) \div Second

Token == [subject : Subject, iat : Nat, exp : Nat, secret : Nat]

ASSUME NoTokenAssumption == NoToken \notin Token

\* issue_at: nbf = iat, both rounded down; exp is rounded up.
Expiry(t) == Ceil(Saturate(t + TokenTtl))

Issue(s, t, secret) ==
  [subject |-> s, iat |-> Floor(t), exp |-> Expiry(t), secret |-> secret]

\* expires_at_ms, as the client is told.
ExpiresAtMs(token) == Saturate(token.exp * Second)

\* CapabilityToken::is_expired_at, and the host's cache with its margin.
ExpiredFor(token, t, margin) == ExpiresAtMs(token) <= Saturate(t + margin)

\* verify_at, as far as the outcomes differ: signature, then time.
Verify(token, secret, t) ==
  IF token.secret # secret THEN "InvalidSignature"
  ELSE IF token.exp <= Floor(t) THEN "Expired"
  ELSE IF token.iat > Floor(t) THEN "NotYetValid"
  ELSE "ok"

============================================================================
