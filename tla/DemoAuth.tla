----------------------------- MODULE DemoAuth -----------------------------
(***************************************************************************)
(* Challenge and login of crates/demo-server (auth.rs, the two handlers of *)
(* routes.rs, and the proof check of crates/anp-adapter challenge.rs).     *)
(*                                                                         *)
(* Requests are served by axum tasks that run concurrently and share the   *)
(* challenge map and the audit log, each behind its own mutex.  A login    *)
(* takes the map's lock twice: once to clone the challenge record, once to *)
(* remove it, and verifies the proof in between with no lock held.  Every  *)
(* lock section and every reading of the clock is an action of its own.    *)
(*                                                                         *)
(* A record never changes while it is in the map, so the clone a handler   *)
(* works on is minted[c], whatever happened to the map in the meantime.    *)
(***************************************************************************)
EXTENDS LoginData

CONSTANTS
  Handler,      \* the tasks that serve requests
  MaxTime,      \* bound: the clock stops here
  MaxLogins,    \* bound: logins received
  MaxRestarts   \* bound: restarts

ASSUME BoundsAssumption ==
  MaxTime \in Nat /\ MaxLogins \in Nat /\ MaxRestarts \in Nat

VARIABLES
  now,          \* the clock, in ticks
  boots,        \* how often the server was restarted
  config,       \* ServerAuthConfig of the running server
  minted,       \* every challenge ever handed out: its identity and expiry
  challenges,   \* AuthStore.challenges: the ids in the map
  pc,           \* where each task is
  req,          \* the login request a task serves
  outcome,      \* what the task will answer
  acceptedAt,   \* when the task accepted the proof
  tokens,       \* history: the capability tokens issued
  lastJti,      \* history: the last jti used
  audit,        \* AuditLog: how many records of each kind
  received      \* how many logins were received

vars == <<now, boots, config, minted, challenges, pc, req, outcome,
          acceptedAt, tokens, lastJti, audit, received>>

Errors == {"UnknownChallenge", "ExpiredChallenge", "ScopeMismatch",
           "InvalidSignature", "UnknownDid", "TokenIssuerUnavailable"}

Outcomes == {"none", "challenge", "ok"} \cup Errors

Steps == {"idle", "lookup", "check", "verify", "consume", "issue", "audit"}

Token == [jti : Nat, challenge : Challenge, identity : Identity,
          keyDid : User, acceptedAt : Nat, boot : Nat]

AuditKinds == {"challenge", "ok", "denied"}

TypeOK ==
  /\ now \in Nat
  /\ boots \in Nat
  /\ config \in Config
  /\ minted \in [Challenge -> MintedRecord]
  /\ challenges \subseteq Challenge
  /\ pc \in [Handler -> Steps]
  /\ req \in [Handler -> Request \cup {NoRequest}]
  /\ outcome \in [Handler -> Outcomes]
  /\ acceptedAt \in [Handler -> Nat]
  /\ tokens \subseteq Token
  /\ lastJti \in Nat
  /\ audit \in [AuditKinds -> Nat]
  /\ received \in Nat

Init ==
  /\ now = 0
  /\ boots = 0
  /\ config \in Configs
  /\ minted = [c \in Challenge |-> NotMinted]
  /\ challenges = {}
  /\ pc = [h \in Handler |-> "idle"]
  /\ req = [h \in Handler |-> NoRequest]
  /\ outcome = [h \in Handler |-> "none"]
  /\ acceptedAt = [h \in Handler |-> 0]
  /\ tokens = {}
  /\ lastJti = 0
  /\ audit = [k \in AuditKinds |-> 0]
  /\ received = 0

----------------------------------------------------------------------------
(* Moving a task on, and ending its login with an error. *)

Goto(h, step) ==
  /\ pc' = [pc EXCEPT ![h] = step]
  /\ UNCHANGED outcome

Answer(h, result) ==
  /\ pc' = [pc EXCEPT ![h] = "audit"]
  /\ outcome' = [outcome EXCEPT ![h] = result]

Proceed(h, result, step) ==
  IF result = "ok" THEN Goto(h, step) ELSE Answer(h, result)

Expired(c, t) == minted[c].expires <= t

----------------------------------------------------------------------------
(* POST auth/challenge: a fresh record goes into the map. *)

ExpiresAt(t) == t + Ttl

ServeChallenge(h, c, i) ==
  /\ pc[h] = "idle"
  /\ minted[c] = NotMinted
  /\ minted' = [minted EXCEPT ![c] = [identity |-> i, expires |-> ExpiresAt(now)]]
  /\ challenges' = challenges \cup {c}
  /\ Answer(h, "challenge")
  /\ UNCHANGED <<now, boots, config, req, acceptedAt, tokens, lastJti, audit,
                 received>>

----------------------------------------------------------------------------
(* POST auth/login, lock section by lock section. *)

\* A proof covers the nonce of its challenge, so it cannot exist before it.
Sendable(r) == r.proof # Malformed => minted[r.proof.challenge] # NotMinted

ReceiveLogin(h, r) ==
  /\ pc[h] = "idle"
  /\ received < MaxLogins
  /\ Sendable(r)
  /\ req' = [req EXCEPT ![h] = r]
  /\ received' = received + 1
  /\ Proceed(h, IF r.merchant THEN "ok" ELSE "ScopeMismatch", "lookup")
  /\ UNCHANGED <<now, boots, config, minted, challenges, acceptedAt, tokens,
                 lastJti, audit>>

\* challenge_record: lock, clone, unlock.
Lookup(h) ==
  /\ pc[h] = "lookup"
  /\ Proceed(h, IF req[h].challenge \in challenges THEN "ok"
                                                   ELSE "UnknownChallenge",
             "check")
  /\ UNCHANGED <<now, boots, config, minted, challenges, req, acceptedAt,
                 tokens, lastJti, audit, received>>

\* The early returns on the cloned record, in the order of the code.
RecordResultAnyOwner(r, t) ==
  IF Expired(r.challenge, t) THEN "ExpiredChallenge"
  ELSE IF r.proof = Malformed THEN "InvalidSignature"
  ELSE IF UserOf[r.identity] \notin config.trusted THEN "UnknownDid"
  ELSE "ok"

RecordResult(r, t) ==
  IF Expired(r.challenge, t) THEN "ExpiredChallenge"
  ELSE IF minted[r.challenge].identity # r.identity THEN "ScopeMismatch"
  ELSE IF r.proof = Malformed THEN "InvalidSignature"
  ELSE IF UserOf[r.identity] \notin config.trusted THEN "UnknownDid"
  ELSE "ok"

CheckRecord(h) ==
  /\ pc[h] = "check"
  /\ Proceed(h, RecordResult(req[h], now), "verify")
  /\ UNCHANGED <<now, boots, config, minted, challenges, req, acceptedAt,
                 tokens, lastJti, audit, received>>

\* verify_challenge_proof_at reads the clock again: time has passed.
ProofResultAnyTime(r, t) ==
  LET p == r.proof IN
  IF p.challenge # r.challenge \/ p.identity # r.identity THEN "ScopeMismatch"
  ELSE IF p.keyDid # UserOf[r.identity] THEN "ScopeMismatch"
  ELSE IF ~p.verifies THEN "InvalidSignature"
  ELSE "ok"

ProofResultUnsigned(r, t) ==
  LET p == r.proof IN
  IF p.challenge # r.challenge \/ p.identity # r.identity THEN "ScopeMismatch"
  ELSE IF Expired(r.challenge, t) THEN "ExpiredChallenge"
  ELSE "ok"

ProofResult(r, t) ==
  LET p == r.proof IN
  IF p.challenge # r.challenge \/ p.identity # r.identity THEN "ScopeMismatch"
  ELSE IF Expired(r.challenge, t) THEN "ExpiredChallenge"
  ELSE IF p.keyDid # UserOf[r.identity] THEN "ScopeMismatch"
  ELSE IF ~p.verifies THEN "InvalidSignature"
  ELSE "ok"

VerifyProof(h) ==
  /\ pc[h] = "verify"
  /\ Proceed(h, ProofResult(req[h], now), "consume")
  /\ acceptedAt' = [acceptedAt EXCEPT ![h] = now]
  /\ UNCHANGED <<now, boots, config, minted, challenges, req, tokens, lastJti,
                 audit, received>>

\* remove_challenge: of the tasks that verified a proof of this challenge, the
\* one that finds it still in the map goes on.
RemovedAnyway(h) == TRUE
RemovedInverted(h) == req[h].challenge \notin challenges

Removed(h) == req[h].challenge \in challenges

Consume(h) ==
  /\ pc[h] = "consume"
  /\ challenges' = challenges \ {req[h].challenge}
  /\ Proceed(h, IF Removed(h) THEN "ok" ELSE "UnknownChallenge", "issue")
  /\ UNCHANGED <<now, boots, config, minted, req, acceptedAt, tokens, lastJti,
                 audit, received>>

NewToken(h) ==
  [jti |-> lastJti + 1, challenge |-> req[h].challenge,
   identity |-> req[h].identity, keyDid |-> req[h].proof.keyDid,
   acceptedAt |-> acceptedAt[h], boot |-> boots]

\* The issuer is looked up only now, after the challenge is gone.
IssueToken(h) ==
  /\ pc[h] = "issue"
  /\ IF config.issuer
       THEN /\ Answer(h, "ok")
            /\ tokens' = tokens \cup {NewToken(h)}
            /\ lastJti' = lastJti + 1
       ELSE /\ Answer(h, "TokenIssuerUnavailable")
            /\ UNCHANGED <<tokens, lastJti>>
  /\ UNCHANGED <<now, boots, config, minted, challenges, req, acceptedAt, audit,
                 received>>

----------------------------------------------------------------------------
(* Both handlers end by taking the audit log's lock, and then answer. *)

AuditKindSwapped(result) == IF result \in Errors THEN "ok" ELSE result

AuditKind(result) == IF result \in Errors THEN "denied" ELSE result

WriteAudit(h) ==
  /\ pc[h] = "audit"
  /\ audit' = [audit EXCEPT ![AuditKind(outcome[h])] = @ + 1]
  /\ pc' = [pc EXCEPT ![h] = "idle"]
  /\ req' = [req EXCEPT ![h] = NoRequest]
  /\ outcome' = [outcome EXCEPT ![h] = "none"]
  /\ acceptedAt' = [acceptedAt EXCEPT ![h] = 0]
  /\ UNCHANGED <<now, boots, config, minted, challenges, tokens, lastJti,
                 received>>

----------------------------------------------------------------------------
(* The environment: time, and a restart that loses everything in memory. *)

Tick ==
  /\ now < MaxTime
  /\ now' = now + 1
  /\ UNCHANGED <<boots, config, minted, challenges, pc, req, outcome,
                 acceptedAt, tokens, lastJti, audit, received>>

Restart ==
  /\ boots < MaxRestarts
  /\ boots' = boots + 1
  /\ config' \in Configs
  /\ challenges' = {}
  /\ pc' = [h \in Handler |-> "idle"]
  /\ req' = [h \in Handler |-> NoRequest]
  /\ outcome' = [h \in Handler |-> "none"]
  /\ acceptedAt' = [h \in Handler |-> 0]
  /\ audit' = [k \in AuditKinds |-> 0]
  /\ UNCHANGED <<now, minted, tokens, lastJti, received>>

HandlerStep(h) ==
  \/ Lookup(h)
  \/ CheckRecord(h)
  \/ VerifyProof(h)
  \/ Consume(h)
  \/ IssueToken(h)
  \/ WriteAudit(h)

Next ==
  \/ \E h \in Handler, c \in Challenge, i \in Identity : ServeChallenge(h, c, i)
  \/ \E h \in Handler, r \in Requests : ReceiveLogin(h, r)
  \/ \E h \in Handler : HandlerStep(h)
  \/ Tick
  \/ Restart

Spec == Init /\ [][Next]_vars

\* A task that was started runs to its end: tokio polls it again and no lock is
\* held across a step.  Clients, the clock and restarts owe nothing.
FairSpec == Spec /\ \A h \in Handler : WF_vars(HandlerStep(h))

----------------------------------------------------------------------------
(* Properties *)

\* One challenge, one token: however the logins that carry the same proof
\* overlap, and across restarts (auth.rs: remove_challenge decides the race).
AtMostOneToken ==
  \A t, u \in tokens : t.challenge = u.challenge => t = u

\* A token goes to the identity its challenge was minted for, on a proof by that
\* identity's own DID, accepted before the challenge expired (the record is
\* checked, and the proof verified, at two different times and with no lock).
TokensProven ==
  \A t \in tokens :
    /\ minted[t.challenge].identity = t.identity
    /\ t.keyDid = UserOf[t.identity]
    /\ t.acceptedAt < minted[t.challenge].expires

\* The audit log has an ok record for each token of this boot, but for the tasks
\* that have yet to take the log's lock, and none for a login that was refused.
AuditMatchesTokens ==
  audit["ok"] + Cardinality({h \in Handler : pc[h] = "audit" /\ outcome[h] = "ok"})
    = Cardinality({t \in tokens : t.boot = boots})

\* Nobody's refused login burns a challenge: only a task that holds a verified
\* proof of the challenge's own identity takes it out of the map.
OnlyProofsConsume ==
  [][\A c \in challenges \ challenges' :
       \/ boots' # boots
       \/ \E h \in Handler :
            /\ pc[h] = "consume"
            /\ req[h].challenge = c
            /\ req[h].identity = minted[c].identity
            /\ req[h].proof.verifies]_vars

\* Of the logins that race for a challenge one gets its token: a proof that was
\* accepted leads to a token of its challenge, unless the server has no issuer
\* or restarts.
AcceptedProofYieldsToken ==
  \A c \in Challenge, b \in 0..MaxRestarts :
    (boots = b /\ config.issuer /\ \E h \in Handler : pc[h] = "consume" /\ req[h].challenge = c)
      ~> (boots # b \/ \E t \in tokens : t.challenge = c)

\* The login endpoint implements one-time challenges.  A challenge that a task
\* has removed and not yet exchanged still counts as open: the token is its own.
OneTime == INSTANCE OneTimeLogin WITH
  bound <- [c \in Challenge |-> minted[c].identity],
  open <- challenges \cup
            {req[h].challenge : h \in {g \in Handler : pc[g] = "issue"}},
  tokens <- {[jti |-> t.jti, challenge |-> t.challenge,
              identity |-> t.identity] : t \in tokens}

ImplementsOneTimeLogin == OneTime!Spec

============================================================================
