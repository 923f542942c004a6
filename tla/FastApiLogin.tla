--------------------------- MODULE FastApiLogin ---------------------------
(***************************************************************************)
(* Challenge and login of examples/coffee-fastapi-server (app.py and the   *)
(* proof check of auth.py).                                                *)
(*                                                                         *)
(* The endpoints are plain def functions, which FastAPI runs on a pool of  *)
(* threads.  They share module-level dicts and take no lock; the           *)
(* interpreter makes one dict operation atomic and nothing more, so every  *)
(* dict operation and every reading of the clock is an action of its own.  *)
(* Unlike the Rust server, a login issues its token first and then pops    *)
(* the challenge, without looking whether it was still there.              *)
(***************************************************************************)
EXTENDS LoginData

CONSTANTS
  Thread,       \* the pool's threads
  MaxTime,      \* bound: the clock stops here
  MaxLogins     \* bound: logins received

ASSUME BoundsAssumption == MaxTime \in Nat /\ MaxLogins \in Nat

VARIABLES
  now,          \* the clock, in ticks
  config,       \* AUTH_CONFIG, read once at start
  minted,       \* every challenge ever handed out: its identity and expiry
  challenges,   \* the keys of the challenges dict
  pc,           \* where each thread is
  req,          \* the login request a thread serves
  outcome,      \* what the thread will answer
  acceptedAt,   \* when the thread accepted the proof
  late,         \* history: the request came after its challenge's token was sent
  sent,         \* history: the challenges whose token was sent to a client
  tokens,       \* history: the capability tokens issued
  audit,        \* audit_records: how many of each kind
  received      \* how many logins were received

vars == <<now, config, minted, challenges, pc, req, outcome, acceptedAt, late,
          sent, tokens, audit, received>>

Errors == {"unknown_challenge", "expired_challenge", "scope_mismatch",
           "invalid_signature", "unknown_did"}

Outcomes == {"none", "challenge", "ok"} \cup Errors

Steps == {"idle", "lookup", "check", "verify", "issue", "pop", "audit"}

Token == [jti : Nat, challenge : Challenge, identity : Identity,
          keyDid : User, acceptedAt : Nat, late : BOOLEAN]

AuditKinds == {"challenge", "ok", "denied"}

TypeOK ==
  /\ now \in Nat
  /\ config \in Config
  /\ minted \in [Challenge -> MintedRecord]
  /\ challenges \subseteq Challenge
  /\ pc \in [Thread -> Steps]
  /\ req \in [Thread -> Request \cup {NoRequest}]
  /\ outcome \in [Thread -> Outcomes]
  /\ acceptedAt \in [Thread -> Nat]
  /\ late \in [Thread -> BOOLEAN]
  /\ sent \subseteq Challenge
  /\ tokens \subseteq Token
  /\ audit \in [AuditKinds -> Nat]
  /\ received \in Nat

Init ==
  /\ now = 0
  /\ config \in Configs
  /\ minted = [c \in Challenge |-> NotMinted]
  /\ challenges = {}
  /\ pc = [h \in Thread |-> "idle"]
  /\ req = [h \in Thread |-> NoRequest]
  /\ outcome = [h \in Thread |-> "none"]
  /\ acceptedAt = [h \in Thread |-> 0]
  /\ late = [h \in Thread |-> FALSE]
  /\ sent = {}
  /\ tokens = {}
  /\ audit = [k \in AuditKinds |-> 0]
  /\ received = 0

Proceed(h, result, step) ==
  IF result = "ok"
    THEN pc' = [pc EXCEPT ![h] = step] /\ UNCHANGED outcome
    ELSE pc' = [pc EXCEPT ![h] = "audit"] /\ outcome' = [outcome EXCEPT ![h] = result]

Expired(c, t) == minted[c].expires <= t

----------------------------------------------------------------------------
(* auth_challenge *)

ExpiresAt(t) == t + Ttl

ServeChallenge(h, c, i) ==
  /\ pc[h] = "idle"
  /\ minted[c] = NotMinted
  /\ minted' = [minted EXCEPT ![c] = [identity |-> i, expires |-> ExpiresAt(now)]]
  /\ challenges' = challenges \cup {c}
  /\ Proceed(h, "challenge", "audit")
  /\ UNCHANGED <<now, config, req, acceptedAt, late, sent, tokens, audit, received>>

----------------------------------------------------------------------------
(* auth_login *)

\* A proof covers the nonce of its challenge, so it cannot exist before it.
Sendable(r) == r.proof # Malformed => minted[r.proof.challenge] # NotMinted

ReceiveLogin(h, r) ==
  /\ pc[h] = "idle"
  /\ received < MaxLogins
  /\ Sendable(r)
  /\ req' = [req EXCEPT ![h] = r]
  /\ late' = [late EXCEPT ![h] = r.challenge \in sent]
  /\ received' = received + 1
  /\ Proceed(h, "ok", "lookup")
  /\ UNCHANGED <<now, config, minted, challenges, acceptedAt, sent, tokens, audit>>

\* challenges.get
Lookup(h) ==
  /\ pc[h] = "lookup"
  /\ Proceed(h, IF req[h].challenge \in challenges THEN "ok"
                                                   ELSE "unknown_challenge",
             "check")
  /\ UNCHANGED <<now, config, minted, challenges, req, acceptedAt, late, sent,
                 tokens, audit, received>>

RecordResultAnyOwner(r, t) ==
  IF Expired(r.challenge, t) THEN "expired_challenge"
  ELSE IF ~r.merchant THEN "scope_mismatch"
  ELSE IF UserOf[r.identity] \notin config.trusted THEN "unknown_did"
  ELSE "ok"

RecordResult(r, t) ==
  IF Expired(r.challenge, t) THEN "expired_challenge"
  ELSE IF ~r.merchant \/ minted[r.challenge].identity # r.identity
         THEN "scope_mismatch"
  ELSE IF UserOf[r.identity] \notin config.trusted THEN "unknown_did"
  ELSE "ok"

CheckRecordPurging(h) ==
  /\ pc[h] = "check"
  /\ Proceed(h, RecordResult(req[h], now), "verify")
  /\ challenges' = {c \in challenges : ~Expired(c, now)}
  /\ UNCHANGED <<now, config, minted, req, acceptedAt, late, sent, tokens, audit,
                 received>>

CheckRecord(h) ==
  /\ pc[h] = "check"
  /\ Proceed(h, RecordResult(req[h], now), "verify")
  /\ UNCHANGED <<now, config, minted, challenges, req, acceptedAt, late, sent,
                 tokens, audit, received>>

\* verify_dock_did_challenge_proof reads the clock again.
ProofResultAnyTime(r, t) ==
  LET p == r.proof IN
  IF p = Malformed THEN "invalid_signature"
  ELSE IF p.challenge # r.challenge \/ p.identity # r.identity THEN "scope_mismatch"
  ELSE IF p.keyDid # UserOf[r.identity] THEN "scope_mismatch"
  ELSE IF ~p.verifies THEN "invalid_signature"
  ELSE "ok"

ProofResult(r, t) ==
  LET p == r.proof IN
  IF p = Malformed THEN "invalid_signature"
  ELSE IF p.challenge # r.challenge \/ p.identity # r.identity THEN "scope_mismatch"
  ELSE IF Expired(r.challenge, t) THEN "expired_challenge"
  ELSE IF p.keyDid # UserOf[r.identity] THEN "scope_mismatch"
  ELSE IF ~p.verifies THEN "invalid_signature"
  ELSE "ok"

VerifyProof(h) ==
  /\ pc[h] = "verify"
  /\ Proceed(h, ProofResult(req[h], now), "issue")
  /\ acceptedAt' = [acceptedAt EXCEPT ![h] = now]
  /\ UNCHANGED <<now, config, minted, challenges, req, late, sent, tokens, audit,
                 received>>

NewToken(h) ==
  [jti |-> Cardinality(tokens) + 1, challenge |-> req[h].challenge,
   identity |-> req[h].identity, keyDid |-> req[h].proof.keyDid,
   acceptedAt |-> acceptedAt[h], late |-> late[h]]

\* issue_capability_token: a local computation.
IssueToken(h) ==
  /\ pc[h] = "issue"
  /\ tokens' = tokens \cup {NewToken(h)}
  /\ Proceed(h, "ok", "pop")
  /\ UNCHANGED <<now, config, minted, challenges, req, acceptedAt, late, sent,
                 audit, received>>

\* challenges.pop(id, None): no error when another thread has popped it already.
PopNothing(h) ==
  /\ pc[h] = "pop"
  /\ pc' = [pc EXCEPT ![h] = "audit"]
  /\ outcome' = [outcome EXCEPT ![h] = "ok"]
  /\ UNCHANGED <<now, config, minted, challenges, req, acceptedAt, late, sent,
                 tokens, audit, received>>

Pop(h) ==
  /\ pc[h] = "pop"
  /\ challenges' = challenges \ {req[h].challenge}
  /\ pc' = [pc EXCEPT ![h] = "audit"]
  /\ outcome' = [outcome EXCEPT ![h] = "ok"]
  /\ UNCHANGED <<now, config, minted, req, acceptedAt, late, sent, tokens, audit,
                 received>>

----------------------------------------------------------------------------
(* record_audit, after which the thread answers and is free again. *)

AuditKindSwapped(result) == IF result \in Errors THEN "ok" ELSE result

AuditKind(result) == IF result \in Errors THEN "denied" ELSE result

WriteAudit(h) ==
  /\ pc[h] = "audit"
  /\ audit' = [audit EXCEPT ![AuditKind(outcome[h])] = @ + 1]
  /\ sent' = sent \cup {c \in Challenge : outcome[h] = "ok" /\ req[h].challenge = c}
  /\ pc' = [pc EXCEPT ![h] = "idle"]
  /\ req' = [req EXCEPT ![h] = NoRequest]
  /\ outcome' = [outcome EXCEPT ![h] = "none"]
  /\ acceptedAt' = [acceptedAt EXCEPT ![h] = 0]
  /\ late' = [late EXCEPT ![h] = FALSE]
  /\ UNCHANGED <<now, config, minted, challenges, tokens, received>>

Tick ==
  /\ now < MaxTime
  /\ now' = now + 1
  /\ UNCHANGED <<config, minted, challenges, pc, req, outcome, acceptedAt, late,
                 sent, tokens, audit, received>>

Next ==
  \/ \E h \in Thread, c \in Challenge, i \in Identity : ServeChallenge(h, c, i)
  \/ \E h \in Thread, r \in Requests : ReceiveLogin(h, r)
  \/ \E h \in Thread :
       \/ Lookup(h)
       \/ CheckRecord(h)
       \/ VerifyProof(h)
       \/ IssueToken(h)
       \/ Pop(h)
       \/ WriteAudit(h)
  \/ Tick

Spec == Init /\ [][Next]_vars

----------------------------------------------------------------------------
(* Properties *)

\* A token goes to the identity its challenge was minted for, on a proof by that
\* identity's own DID, accepted before the challenge expired.
TokensProven ==
  \A t \in tokens :
    /\ minted[t.challenge].identity = t.identity
    /\ t.keyDid = UserOf[t.identity]
    /\ t.acceptedAt < minted[t.challenge].expires

\* Once a client has its token, the same proof buys no other: only logins that
\* overlap can share a challenge.
SentTokenIsLast == \A t \in tokens : ~t.late

\* A challenge leaves the dict only after a token was issued for it: no refused
\* login burns it, not even an expired or malformed one.
OnlyTokensConsume ==
  [][challenges \ challenges' \subseteq {t.challenge : t \in tokens}]_vars

\* The audit list has an ok record for every token, but for the threads on their
\* way to record_audit, and no ok record for a login that was refused.
AuditMatchesTokens ==
  audit["ok"] + Cardinality({h \in Thread :
                               pc[h] = "pop" \/ (pc[h] = "audit" /\ outcome[h] = "ok")})
    = Cardinality(tokens)

\* "successful login consumes the challenge so the same proof cannot be
\* replayed" (docs/runbook/security.md).
AtMostOneToken ==
  \A t, u \in tokens : t.challenge = u.challenge => t = u

============================================================================
