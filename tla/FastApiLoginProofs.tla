------------------------ MODULE FastApiLoginProofs ------------------------
(***************************************************************************)
(* The safety of the Python server's login for any number of threads,      *)
(* challenges, identities and requests: everything but that a challenge    *)
(* buys one token only, which it does not promise.                         *)
(***************************************************************************)
EXTENDS FastApiLogin, FiniteSetTheorems, TLAPS

USE LoginDataAssumption DEF LoginDataAssumption

----------------------------------------------------------------------------
(* The inductive invariant *)

\* A thread in the middle of a login has its request, and from the proof check
\* on one with a proof that deserialized.
HoldsRequest(h) ==
  /\ pc[h] \in Steps \ {"idle", "audit"} => req[h] \in Request
  /\ pc[h] \in {"issue", "pop"} => req[h].proof \in Proof

TypeInv == TypeOK /\ IsFiniteSet(tokens) /\ \A h \in Thread : HoldsRequest(h)

IsMinted(c) == minted[c] # NotMinted

\* Who is in the dict was minted; who bought a token that was sent has left it.
DictInv ==
  /\ \A c \in challenges : IsMinted(c)
  /\ \A c \in sent : IsMinted(c) /\ c \notin challenges

\* What a thread has checked stays true while others run.
LoginInv(h) ==
  LET c == req[h].challenge IN
  /\ pc[h] = "lookup" /\ late[h] => c \in sent
  /\ pc[h] \in {"check", "verify", "issue", "pop"} => IsMinted(c) /\ ~late[h]
  /\ pc[h] \in {"verify", "issue"} => minted[c].identity = req[h].identity
  /\ pc[h] = "issue" => /\ req[h].proof.keyDid = UserOf[req[h].identity]
                        /\ acceptedAt[h] < minted[c].expires
  /\ pc[h] = "pop" => \E t \in tokens : t.challenge = c
  /\ pc[h] = "audit" /\ outcome[h] = "ok" => c \in Challenge /\ IsMinted(c) /\ c \notin challenges

IInv ==
  /\ TypeInv
  /\ DictInv
  /\ \A h \in Thread : LoginInv(h)
  /\ TokensProven
  /\ SentTokenIsLast

----------------------------------------------------------------------------
(* Type correctness *)

LEMMA ResultTypes ==
  ASSUME NEW r, NEW t
  PROVE  /\ RecordResult(r, t) \in Errors \cup {"ok"}
         /\ ProofResult(r, t) \in Errors \cup {"ok"}
BY DEF RecordResult, ProofResult, Errors

\* A thread goes on or answers.
LEMMA ProceedTypes ==
  ASSUME TypeOK, NEW h \in Thread, NEW result \in Outcomes, NEW step \in Steps,
         Proceed(h, result, step)
  PROVE  /\ pc' \in [Thread -> Steps] /\ outcome' \in [Thread -> Outcomes]
         /\ \A g \in Thread : g # h => pc'[g] = pc[g] /\ outcome'[g] = outcome[g]
         /\ result = "ok" => pc'[h] = step
         /\ result # "ok" => pc'[h] = "audit" /\ outcome'[h] = result
BY DEF TypeOK, Proceed, Steps

\* A step that only moves a thread on keeps the types.
LEMMA MoveKeepsTypes ==
  ASSUME TypeInv, NEW h \in Thread, NEW result \in Outcomes, NEW step \in Steps \ {"idle"},
         Proceed(h, result, step), pc[h] # "idle" /\ pc[h] # "audit",
         step \in {"issue", "pop"} /\ result = "ok" => req[h].proof \in Proof,
         UNCHANGED <<now, config, minted, challenges, req, late, sent, tokens, audit, received>>,
         acceptedAt' \in [Thread -> Nat]
  PROVE  TypeInv'
<1>1. /\ pc' \in [Thread -> Steps] /\ outcome' \in [Thread -> Outcomes]
      /\ \A g \in Thread : g # h => pc'[g] = pc[g]
      /\ result = "ok" => pc'[h] = step
      /\ result # "ok" => pc'[h] = "audit"
  BY ProceedTypes DEF TypeInv
<1>2. TypeOK'
  BY <1>1 DEF TypeInv, TypeOK
<1>3. ASSUME NEW g \in Thread PROVE HoldsRequest(g)'
  <2>1. CASE g = h
    BY <1>1, <2>1 DEF TypeInv, TypeOK, HoldsRequest, Steps
  <2>2. CASE g # h
    BY <1>1, <2>2 DEF TypeInv, HoldsRequest
  <2> QED BY <2>1, <2>2
<1> QED BY <1>2, <1>3 DEF TypeInv

LEMMA TypeInductive == TypeInv /\ [Next]_vars => TypeInv'
<1> SUFFICES ASSUME TypeInv, [Next]_vars PROVE TypeInv'
  OBVIOUS
<1>1. ASSUME NEW h \in Thread, NEW c \in Challenge, NEW i \in Identity, ServeChallenge(h, c, i)
      PROVE  TypeInv'
  <2>1. /\ pc' \in [Thread -> Steps] /\ outcome' \in [Thread -> Outcomes]
        /\ \A g \in Thread : g # h => pc'[g] = pc[g]
        /\ pc'[h] = "audit"
    BY <1>1, ProceedTypes DEF ServeChallenge, TypeInv, Outcomes, Steps
  <2>2. minted' \in [Challenge -> MintedRecord]
    BY <1>1 DEF ServeChallenge, TypeInv, TypeOK, MintedRecord, ExpiresAt
  <2>3. TypeOK'
    BY <1>1, <2>1, <2>2 DEF ServeChallenge, TypeInv, TypeOK
  <2>4. ASSUME NEW g \in Thread PROVE HoldsRequest(g)'
    BY <1>1, <2>1 DEF ServeChallenge, TypeInv, HoldsRequest, Steps
  <2> QED BY <1>1, <2>3, <2>4 DEF ServeChallenge, TypeInv
<1>2. ASSUME NEW h \in Thread, NEW r \in Requests, ReceiveLogin(h, r)
      PROVE  TypeInv'
  <2>1. /\ pc' \in [Thread -> Steps] /\ outcome' \in [Thread -> Outcomes]
        /\ \A g \in Thread : g # h => pc'[g] = pc[g]
        /\ pc'[h] = "lookup"
    BY <1>2, ProceedTypes DEF ReceiveLogin, TypeInv, Outcomes, Steps
  <2>2. TypeOK'
    <3>1. late' \in [Thread -> BOOLEAN]
      BY <1>2 DEF ReceiveLogin, TypeInv, TypeOK
    <3>2. req' \in [Thread -> Request \cup {NoRequest}] /\ received' \in Nat
      BY <1>2 DEF ReceiveLogin, TypeInv, TypeOK
    <3> QED BY <1>2, <2>1, <3>1, <3>2 DEF ReceiveLogin, TypeInv, TypeOK
  <2>3. ASSUME NEW g \in Thread PROVE HoldsRequest(g)'
    <3>1. CASE g = h
      BY <1>2, <2>1, <3>1 DEF ReceiveLogin, TypeInv, TypeOK, HoldsRequest, Steps
    <3>2. CASE g # h
      BY <1>2, <2>1, <3>2 DEF ReceiveLogin, TypeInv, TypeOK, HoldsRequest
    <3> QED BY <3>1, <3>2
  <2> QED BY <1>2, <2>2, <2>3 DEF ReceiveLogin, TypeInv
<1>3. ASSUME NEW h \in Thread, Lookup(h) PROVE TypeInv'
  <2>1. (IF req[h].challenge \in challenges THEN "ok" ELSE "unknown_challenge") \in Outcomes
    BY DEF Outcomes, Errors
  <2>2. acceptedAt' \in [Thread -> Nat]
    BY <1>3 DEF Lookup, TypeInv, TypeOK
  <2> QED BY <1>3, <2>1, <2>2, MoveKeepsTypes DEF Lookup, Steps
<1>4. ASSUME NEW h \in Thread, CheckRecord(h) PROVE TypeInv'
  <2>1. RecordResult(req[h], now) \in Outcomes
    BY ResultTypes DEF Outcomes
  <2> QED BY <1>4, <2>1, MoveKeepsTypes DEF CheckRecord, TypeInv, TypeOK, Steps
<1>5. ASSUME NEW h \in Thread, VerifyProof(h) PROVE TypeInv'
  <2>1. ProofResult(req[h], now) \in Outcomes
    BY ResultTypes DEF Outcomes
  <2>2. req[h] \in Request
    BY <1>5 DEF VerifyProof, TypeInv, HoldsRequest, Steps
  <2>3. ProofResult(req[h], now) = "ok" => req[h].proof \in Proof
    BY <2>2 DEF ProofResult, Request
  <2>4. acceptedAt' \in [Thread -> Nat]
    BY <1>5 DEF VerifyProof, TypeInv, TypeOK
  <2>5. pc[h] = "verify" /\ Proceed(h, ProofResult(req[h], now), "issue")
        /\ UNCHANGED <<now, config, minted, challenges, req, late, sent, tokens, audit, received>>
    BY <1>5 DEF VerifyProof
  <2> QED BY <2>1, <2>3, <2>4, <2>5, MoveKeepsTypes DEF Steps
<1>6. ASSUME NEW h \in Thread, IssueToken(h) PROVE TypeInv'
  <2>1. /\ pc' \in [Thread -> Steps] /\ outcome' \in [Thread -> Outcomes]
        /\ \A g \in Thread : g # h => pc'[g] = pc[g]
        /\ pc'[h] = "pop"
    BY <1>6, ProceedTypes DEF IssueToken, TypeInv, Outcomes, Steps
  <2>2. Cardinality(tokens) \in Nat /\ IsFiniteSet(tokens \cup {NewToken(h)})
    BY FS_CardinalityType, FS_AddElement DEF TypeInv
  <2>3. req[h] \in Request /\ req[h].proof \in Proof
    BY <1>6 DEF IssueToken, TypeInv, HoldsRequest, Steps
  <2>4. NewToken(h) \in Token
    BY <2>2, <2>3 DEF NewToken, Token, Request, Proof, TypeInv, TypeOK
  <2>5. TypeOK'
    BY <1>6, <2>1, <2>4 DEF IssueToken, TypeInv, TypeOK
  <2>6. ASSUME NEW g \in Thread PROVE HoldsRequest(g)'
    BY <1>6, <2>1, <2>3 DEF IssueToken, TypeInv, HoldsRequest
  <2> QED BY <1>6, <2>2, <2>5, <2>6 DEF IssueToken, TypeInv
<1>7. ASSUME NEW h \in Thread, Pop(h) PROVE TypeInv'
  <2>1. TypeOK'
    BY <1>7 DEF Pop, TypeInv, TypeOK, Steps, Outcomes
  <2>2. ASSUME NEW g \in Thread PROVE HoldsRequest(g)'
    BY <1>7 DEF Pop, TypeInv, TypeOK, HoldsRequest
  <2> QED BY <1>7, <2>1, <2>2 DEF Pop, TypeInv
<1>8. ASSUME NEW h \in Thread, WriteAudit(h) PROVE TypeInv'
  <2>1. audit' \in [AuditKinds -> Nat]
    <3> DEFINE kind == AuditKind(outcome[h])
    <3>1. audit' = [audit EXCEPT ![kind] = audit[kind] + 1] /\ audit \in [AuditKinds -> Nat]
      BY <1>8 DEF WriteAudit, TypeInv, TypeOK
    <3> HIDE DEF kind
    <3>2. \A k \in AuditKinds : audit'[k] \in Nat
      BY <3>1
    <3>3. audit' = [k \in AuditKinds |-> audit'[k]]
      BY <3>1
    <3> QED BY <3>2, <3>3
  <2>2. TypeOK'
    BY <1>8, <2>1 DEF WriteAudit, TypeInv, TypeOK, Steps, Outcomes
  <2>3. ASSUME NEW g \in Thread PROVE HoldsRequest(g)'
    BY <1>8 DEF WriteAudit, TypeInv, TypeOK, HoldsRequest
  <2> QED BY <1>8, <2>2, <2>3 DEF WriteAudit, TypeInv
<1>9. CASE Tick
  BY <1>9 DEF Tick, TypeInv, TypeOK, HoldsRequest
<1>10. CASE UNCHANGED vars
  BY <1>10 DEF vars, TypeInv, TypeOK, HoldsRequest
<1> QED BY <1>1, <1>2, <1>3, <1>4, <1>5, <1>6, <1>7, <1>8, <1>9, <1>10 DEF Next

LEMMA TypeInit == Init => TypeInv
<1> SUFFICES ASSUME Init PROVE TypeInv
  OBVIOUS
<1>1. TypeOK
  BY DEF Init, TypeOK, MintedRecord, Steps, Outcomes
<1> QED BY <1>1, FS_EmptySet DEF Init, TypeInv, HoldsRequest

\* The state of the Python server stays typed, whatever its threads interleave.
THEOREM TypeCorrect == Spec => []TypeOK
<1>1. Spec => []TypeInv
  BY TypeInit, TypeInductive, PTL DEF Spec
<1>2. TypeInv => TypeOK
  BY DEF TypeInv
<1> QED BY <1>1, <1>2, PTL

----------------------------------------------------------------------------
(* Safety *)

\* A minted challenge keeps its identity and expiry, a token and a sent one stay.
LEMMA Stable ==
  ASSUME TypeInv, [Next]_vars
  PROVE  /\ \A c \in Challenge : IsMinted(c) => minted'[c] = minted[c]
         /\ tokens \subseteq tokens' /\ sent \subseteq sent'
<1>1. ASSUME NEW h \in Thread, NEW c \in Challenge, NEW i \in Identity, ServeChallenge(h, c, i)
      PROVE  /\ \A d \in Challenge : IsMinted(d) => minted'[d] = minted[d]
             /\ tokens' = tokens /\ sent' = sent
  BY <1>1 DEF ServeChallenge, TypeInv, TypeOK, IsMinted
<1> QED
  BY <1>1 DEF Next, vars, ReceiveLogin, Lookup, CheckRecord, VerifyProof, IssueToken,
     Pop, WriteAudit, Tick

\* Threads that do not move keep what they have established, when the dict only
\* loses challenges or gets new ones.
LEMMA OthersKeep ==
  ASSUME TypeInv, [Next]_vars, NEW g \in Thread, LoginInv(g),
         UNCHANGED <<pc[g], req[g], outcome[g], acceptedAt[g], late[g]>>,
         \A c \in challenges' \ challenges : ~IsMinted(c)
  PROVE  LoginInv(g)'
<1>1. pc[g] \in Steps \ {"idle", "audit"} => req[g].challenge \in Challenge
  BY DEF TypeInv, HoldsRequest, Request
<1> QED
  BY <1>1, Stable DEF LoginInv, IsMinted, Steps

LEMMA SafetyInductive == IInv /\ [Next]_vars => IInv'
<1> SUFFICES ASSUME IInv, [Next]_vars PROVE IInv'
  OBVIOUS
<1> USE DEF IInv
<1>0. TypeInv'
  BY TypeInductive
<1>a. ASSUME NEW t \in tokens PROVE t.challenge \in Challenge /\ IsMinted(t.challenge)
  BY DEF TypeInv, TypeOK, Token, TokensProven, IsMinted, NotMinted
<1>b. tokens' = tokens => TokensProven' /\ SentTokenIsLast'
  BY <1>a, Stable DEF TokensProven, SentTokenIsLast
<1>1. ASSUME NEW h \in Thread, NEW c \in Challenge, NEW i \in Identity, ServeChallenge(h, c, i)
      PROVE  IInv'
  <2>1. minted'[c] # NotMinted /\ ~IsMinted(c)
    BY <1>1 DEF ServeChallenge, TypeInv, TypeOK, NotMinted, IsMinted
  <2>2. DictInv'
    BY <1>1, <2>1, Stable DEF ServeChallenge, DictInv, IsMinted, TypeInv, TypeOK
  <2>3. /\ \A g \in Thread : g # h => pc'[g] = pc[g] /\ outcome'[g] = outcome[g]
        /\ pc'[h] = "audit" /\ outcome'[h] = "challenge"
    BY <1>1, ProceedTypes DEF ServeChallenge, TypeInv, Outcomes, Steps
  <2>4. ASSUME NEW g \in Thread PROVE LoginInv(g)'
    <3>1. CASE g = h
      BY <2>3, <3>1 DEF LoginInv
    <3>2. CASE g # h
      BY <1>1, <2>1, <2>3, <3>2, OthersKeep DEF ServeChallenge
    <3> QED BY <3>1, <3>2
  <2> QED BY <1>0, <1>1, <1>b, <2>2, <2>4 DEF ServeChallenge
<1>2. ASSUME NEW h \in Thread, NEW r \in Requests, ReceiveLogin(h, r) PROVE IInv'
  <2>1. /\ \A g \in Thread : g # h => pc'[g] = pc[g] /\ outcome'[g] = outcome[g]
        /\ pc'[h] = "lookup"
    BY <1>2, ProceedTypes DEF ReceiveLogin, TypeInv, Outcomes, Steps
  <2>2. ASSUME NEW g \in Thread PROVE LoginInv(g)'
    <3>1. CASE g = h
      BY <1>2, <2>1, <3>1 DEF ReceiveLogin, LoginInv, TypeInv, TypeOK
    <3>2. CASE g # h
      BY <1>2, <2>1, <3>2, OthersKeep DEF ReceiveLogin, TypeInv, TypeOK
    <3> QED BY <3>1, <3>2
  <2>3. DictInv'
    BY <1>2 DEF ReceiveLogin, DictInv, IsMinted
  <2> QED BY <1>0, <1>2, <1>b, <2>2, <2>3 DEF ReceiveLogin
<1>3. ASSUME NEW h \in Thread, Lookup(h) PROVE IInv'
  <2> DEFINE result == IF req[h].challenge \in challenges THEN "ok" ELSE "unknown_challenge"
  <2>1. result \in Outcomes
    BY DEF Outcomes, Errors
  <2>2. /\ \A g \in Thread : g # h => pc'[g] = pc[g] /\ outcome'[g] = outcome[g]
        /\ result = "ok" => pc'[h] = "check"
        /\ result # "ok" => pc'[h] = "audit" /\ outcome'[h] = result
    BY <1>3, <2>1, ProceedTypes DEF Lookup, TypeInv, Steps
  <2>3. ASSUME NEW g \in Thread PROVE LoginInv(g)'
    <3>1. CASE g = h
      BY <1>3, <2>2, <3>1 DEF Lookup, LoginInv, DictInv, IsMinted
    <3>2. CASE g # h
      BY <1>3, <2>2, <3>2, OthersKeep DEF Lookup
    <3> QED BY <3>1, <3>2
  <2>4. DictInv'
    BY <1>3 DEF Lookup, DictInv, IsMinted
  <2> QED BY <1>0, <1>3, <1>b, <2>3, <2>4 DEF Lookup
<1>4. ASSUME NEW h \in Thread, CheckRecord(h) PROVE IInv'
  <2> DEFINE result == RecordResult(req[h], now)
  <2>1. result \in Outcomes
    BY ResultTypes DEF Outcomes
  <2>2. /\ \A g \in Thread : g # h => pc'[g] = pc[g] /\ outcome'[g] = outcome[g]
        /\ result = "ok" => pc'[h] = "verify"
        /\ result # "ok" => pc'[h] = "audit" /\ outcome'[h] = result
    BY <1>4, <2>1, ProceedTypes DEF CheckRecord, TypeInv, Steps
  <2>3. result = "ok" => minted[req[h].challenge].identity = req[h].identity
    BY DEF RecordResult
  <2>4. ASSUME NEW g \in Thread PROVE LoginInv(g)'
    <3>1. CASE g = h
      BY <1>4, <2>2, <2>3, <3>1 DEF CheckRecord, LoginInv, IsMinted
    <3>2. CASE g # h
      BY <1>4, <2>2, <3>2, OthersKeep DEF CheckRecord
    <3> QED BY <3>1, <3>2
  <2>5. DictInv'
    BY <1>4 DEF CheckRecord, DictInv, IsMinted
  <2> QED BY <1>0, <1>4, <1>b, <2>4, <2>5 DEF CheckRecord
<1>5. ASSUME NEW h \in Thread, VerifyProof(h) PROVE IInv'
  <2> DEFINE result == ProofResult(req[h], now)
  <2>1. result \in Outcomes
    BY ResultTypes DEF Outcomes
  <2>2. /\ \A g \in Thread : g # h => pc'[g] = pc[g] /\ outcome'[g] = outcome[g]
        /\ result = "ok" => pc'[h] = "issue"
        /\ result # "ok" => pc'[h] = "audit" /\ outcome'[h] = result
    BY <1>5, <2>1, ProceedTypes DEF VerifyProof, TypeInv, Steps
  <2>3. req[h].challenge \in Challenge /\ IsMinted(req[h].challenge) /\ ~late[h]
        /\ minted[req[h].challenge].identity = req[h].identity
    BY <1>5 DEF VerifyProof, TypeInv, HoldsRequest, Steps, Request, LoginInv
  <2>4. minted[req[h].challenge].expires \in Nat /\ now \in Nat
    BY <2>3 DEF TypeInv, TypeOK, MintedRecord, IsMinted
  <2>5. result = "ok" => /\ req[h].proof.keyDid = UserOf[req[h].identity]
                         /\ now < minted[req[h].challenge].expires
    BY <2>4 DEF ProofResult, Expired
  <2>6. acceptedAt'[h] = now /\ \A g \in Thread : g # h => acceptedAt'[g] = acceptedAt[g]
    BY <1>5 DEF VerifyProof, TypeInv, TypeOK
  <2>7. ASSUME NEW g \in Thread PROVE LoginInv(g)'
    <3>1. CASE g = h
      BY <1>5, <2>2, <2>3, <2>5, <2>6, <3>1 DEF VerifyProof, LoginInv, IsMinted
    <3>2. CASE g # h
      BY <1>5, <2>2, <2>6, <3>2, OthersKeep DEF VerifyProof
    <3> QED BY <3>1, <3>2
  <2>8. DictInv'
    BY <1>5 DEF VerifyProof, DictInv, IsMinted
  <2> QED BY <1>0, <1>5, <1>b, <2>7, <2>8 DEF VerifyProof
<1>6. ASSUME NEW h \in Thread, IssueToken(h) PROVE IInv'
  <2>1. /\ \A g \in Thread : g # h => pc'[g] = pc[g] /\ outcome'[g] = outcome[g]
        /\ pc'[h] = "pop"
    BY <1>6, ProceedTypes DEF IssueToken, TypeInv, Outcomes, Steps
  <2>2. NewToken(h).challenge = req[h].challenge /\ NewToken(h) \in tokens'
    BY <1>6 DEF IssueToken, NewToken
  <2>3. ASSUME NEW g \in Thread PROVE LoginInv(g)'
    <3>1. CASE g = h
      BY <1>6, <2>1, <2>2, <3>1 DEF IssueToken, LoginInv, IsMinted
    <3>2. CASE g # h
      BY <1>6, <2>1, <3>2, OthersKeep DEF IssueToken
    <3> QED BY <3>1, <3>2
  <2>4. DictInv'
    BY <1>6 DEF IssueToken, DictInv, IsMinted
  <2>5. TokensProven' /\ SentTokenIsLast'
    BY <1>6 DEF IssueToken, TokensProven, SentTokenIsLast, NewToken, LoginInv
  <2> QED BY <1>0, <2>3, <2>4, <2>5
<1>7. ASSUME NEW h \in Thread, Pop(h) PROVE IInv'
  <2>1. req[h].challenge \in Challenge
    BY <1>7 DEF Pop, TypeInv, HoldsRequest, Steps, Request
  <2>2. /\ \A g \in Thread : g # h => pc'[g] = pc[g] /\ outcome'[g] = outcome[g]
        /\ pc'[h] = "audit"
    BY <1>7 DEF Pop, TypeInv, TypeOK
  <2>3. ASSUME NEW g \in Thread PROVE LoginInv(g)'
    <3>1. CASE g = h
      BY <1>7, <2>1, <2>2, <3>1 DEF Pop, LoginInv, IsMinted
    <3>2. CASE g # h
      BY <1>7, <2>2, <3>2, OthersKeep DEF Pop
    <3> QED BY <3>1, <3>2
  <2>4. DictInv'
    BY <1>7 DEF Pop, DictInv, IsMinted
  <2> QED BY <1>0, <1>7, <1>b, <2>3, <2>4 DEF Pop
<1>8. ASSUME NEW h \in Thread, WriteAudit(h) PROVE IInv'
  <2>1. /\ \A g \in Thread : g # h => UNCHANGED <<pc[g], req[g], outcome[g], acceptedAt[g], late[g]>>
        /\ pc'[h] = "idle"
    BY <1>8 DEF WriteAudit, TypeInv, TypeOK
  <2>2. ASSUME NEW g \in Thread PROVE LoginInv(g)'
    <3>1. CASE g = h
      BY <2>1, <3>1 DEF LoginInv
    <3>2. CASE g # h
      BY <1>8, <2>1, <3>2, OthersKeep DEF WriteAudit
    <3> QED BY <3>1, <3>2
  <2>3. DictInv'
    BY <1>8 DEF WriteAudit, DictInv, LoginInv, IsMinted
  <2> QED BY <1>0, <1>8, <1>b, <2>2, <2>3 DEF WriteAudit
<1>9. CASE Tick
  BY <1>0, <1>9, <1>b DEF Tick, DictInv, LoginInv, IsMinted
<1>10. CASE UNCHANGED vars
  BY <1>0, <1>10, <1>b DEF vars, DictInv, LoginInv, IsMinted
<1> QED BY <1>1, <1>2, <1>3, <1>4, <1>5, <1>6, <1>7, <1>8, <1>9, <1>10 DEF Next

LEMMA Safety == Spec => []IInv
<1>1. Init => IInv
  BY TypeInit DEF Init, IInv, DictInv, LoginInv, TokensProven, SentTokenIsLast
<1> QED BY <1>1, SafetyInductive, PTL DEF Spec

\* A token of the Python server has gone to the identity of its challenge, on a
\* proof by that identity's DID from before the expiry, although any thread may
\* have popped the challenge in between (auth_login, app.py).
THEOREM TokensAreProven == Spec => []TokensProven
<1>1. IInv => TokensProven
  BY DEF IInv
<1> QED BY <1>1, Safety, PTL

\* After a token was sent, no login received later gets another one for its
\* challenge: only logins that overlap do.
THEOREM SentIsLast == Spec => []SentTokenIsLast
<1>1. IInv => SentTokenIsLast
  BY DEF IInv
<1> QED BY <1>1, Safety, PTL

\* A refused login leaves the dict as it was: what leaves it has bought a token.
THEOREM RefusalsKeepChallenges == Spec => OnlyTokensConsume
<1>1. ASSUME IInv, [Next]_vars
      PROVE  [challenges \ challenges' \subseteq {t.challenge : t \in tokens}]_vars
  <2>1. ASSUME NEW h \in Thread, Pop(h)
        PROVE  challenges \ challenges' \subseteq {t.challenge : t \in tokens}
    BY <1>1, <2>1 DEF IInv, Pop, LoginInv
  <2> QED
    BY <1>1, <2>1 DEF Next, vars, ServeChallenge, ReceiveLogin, Lookup, CheckRecord,
       VerifyProof, IssueToken, WriteAudit, Tick
<1> QED BY <1>1, Safety, PTL DEF Spec, OnlyTokensConsume

----------------------------------------------------------------------------
(* The audit list *)

\* The threads that have a token and are to write its record.
Passed == {h \in Thread : pc[h] = "pop" \/ (pc[h] = "audit" /\ outcome[h] = "ok")}

\* A jti is the number of its token, so that the next one is another.
AuditInv ==
  /\ \A t \in tokens : t.jti <= Cardinality(tokens)
  /\ IsFiniteSet(Passed)
  /\ AuditMatchesTokens

LEMMA AuditStable ==
  ASSUME AuditInv, Passed' = Passed, tokens' = tokens, audit'["ok"] = audit["ok"]
  PROVE  AuditInv'
BY DEF AuditInv, AuditMatchesTokens, Passed

\* A thread that goes on, or answers with an error, counts neither before nor after.
LEMMA PassedStable ==
  ASSUME TypeOK, NEW h \in Thread, NEW result \in Outcomes, NEW step \in Steps,
         Proceed(h, result, step), pc[h] \notin {"pop", "audit"},
         step # "pop", step = "audit" => result # "ok"
  PROVE  Passed' = Passed
<1>1. /\ \A g \in Thread : g # h => pc'[g] = pc[g] /\ outcome'[g] = outcome[g]
      /\ result = "ok" => pc'[h] = step
      /\ result # "ok" => pc'[h] = "audit" /\ outcome'[h] = result
  BY ProceedTypes
<1>2. ~(pc'[h] = "pop" \/ (pc'[h] = "audit" /\ outcome'[h] = "ok"))
  BY <1>1
<1> QED BY <1>1, <1>2 DEF Passed

\* Every step keeps AuditInv: the token and its thread are counted together, and
\* the record takes the place of the thread.
LEMMA AuditInductive == TypeInv /\ AuditInv /\ [Next]_vars => AuditInv'
<1> SUFFICES ASSUME TypeInv, AuditInv, [Next]_vars PROVE AuditInv'
  OBVIOUS
<1>0. TypeOK /\ IsFiniteSet(tokens)
  BY DEF TypeInv
<1>1. ASSUME NEW h \in Thread, NEW c \in Challenge, NEW i \in Identity, ServeChallenge(h, c, i)
      PROVE  AuditInv'
  <2>1. Passed' = Passed
    BY <1>0, <1>1, PassedStable DEF ServeChallenge, Outcomes, Steps
  <2> QED BY <1>1, <2>1, AuditStable DEF ServeChallenge
<1>2. ASSUME NEW h \in Thread, NEW r \in Requests, ReceiveLogin(h, r) PROVE AuditInv'
  <2>1. Passed' = Passed
    BY <1>0, <1>2, PassedStable DEF ReceiveLogin, Outcomes, Steps
  <2> QED BY <1>2, <2>1, AuditStable DEF ReceiveLogin
<1>3. ASSUME NEW h \in Thread, Lookup(h) PROVE AuditInv'
  <2>1. (IF req[h].challenge \in challenges THEN "ok" ELSE "unknown_challenge") \in Outcomes
    BY DEF Outcomes, Errors
  <2>2. Passed' = Passed
    BY <1>0, <1>3, <2>1, PassedStable DEF Lookup, Steps
  <2> QED BY <1>3, <2>2, AuditStable DEF Lookup
<1>4. ASSUME NEW h \in Thread, CheckRecord(h) PROVE AuditInv'
  <2>1. RecordResult(req[h], now) \in Outcomes
    BY ResultTypes DEF Outcomes
  <2>2. Passed' = Passed
    BY <1>0, <1>4, <2>1, PassedStable DEF CheckRecord, Steps
  <2> QED BY <1>4, <2>2, AuditStable DEF CheckRecord
<1>5. ASSUME NEW h \in Thread, VerifyProof(h) PROVE AuditInv'
  <2>1. ProofResult(req[h], now) \in Outcomes
    BY ResultTypes DEF Outcomes
  <2>2. Passed' = Passed
    BY <1>0, <1>5, <2>1, PassedStable DEF VerifyProof, Steps
  <2> QED BY <1>5, <2>2, AuditStable DEF VerifyProof
<1>6. ASSUME NEW h \in Thread, IssueToken(h) PROVE AuditInv'
  <2>1. /\ pc[h] = "issue" /\ pc'[h] = "pop"
        /\ \A g \in Thread : g # h => pc'[g] = pc[g] /\ outcome'[g] = outcome[g]
    BY <1>0, <1>6, ProceedTypes DEF IssueToken, Outcomes, Steps
  <2>2. h \notin Passed /\ Passed' = Passed \cup {h}
    BY <2>1 DEF Passed
  <2>3. Cardinality(tokens) \in Nat /\ \A t \in tokens : t.jti \in Nat
    BY <1>0, FS_CardinalityType DEF TypeOK, Token
  <2>4. NewToken(h).jti = Cardinality(tokens) + 1
    BY DEF NewToken
  <2>5. NewToken(h) \notin tokens
    BY <2>3, <2>4 DEF AuditInv
  <2>6. tokens' = tokens \cup {NewToken(h)} /\ audit' = audit
    BY <1>6 DEF IssueToken
  <2>7. /\ Cardinality(tokens') = Cardinality(tokens) + 1
        /\ IsFiniteSet(Passed') /\ Cardinality(Passed') = Cardinality(Passed) + 1
    BY <1>0, <2>2, <2>5, <2>6, FS_AddElement DEF AuditInv
  <2>8. Cardinality(Passed) \in Nat /\ audit["ok"] \in Nat
    BY <1>0, FS_CardinalityType DEF AuditInv, TypeOK, AuditKinds
  <2>9. AuditMatchesTokens'
    BY <2>3, <2>6, <2>7, <2>8 DEF AuditInv, AuditMatchesTokens, Passed
  <2>10. \A t \in tokens' : t.jti <= Cardinality(tokens')
    BY <2>3, <2>4, <2>6, <2>7 DEF AuditInv
  <2> QED BY <2>7, <2>9, <2>10 DEF AuditInv
<1>7. ASSUME NEW h \in Thread, Pop(h) PROVE AuditInv'
  <2>1. Passed' = Passed
    BY <1>0, <1>7 DEF Pop, Passed, TypeOK
  <2> QED BY <1>7, <2>1, AuditStable DEF Pop
<1>8. ASSUME NEW h \in Thread, WriteAudit(h) PROVE AuditInv'
  <2>1. /\ pc[h] = "audit" /\ audit' = [audit EXCEPT ![AuditKind(outcome[h])] = @ + 1]
        /\ tokens' = tokens
    BY <1>8 DEF WriteAudit
  <2>2. Passed' = Passed \ {h}
    BY <1>0, <1>8 DEF WriteAudit, Passed, TypeOK
  <2>3. CASE outcome[h] = "ok"
    <3>1. h \in Passed
      BY <2>1, <2>3 DEF Passed
    <3>2. audit'["ok"] = audit["ok"] + 1 /\ audit["ok"] \in Nat
      BY <1>0, <2>1, <2>3 DEF AuditKind, Errors, TypeOK, AuditKinds
    <3>3. IsFiniteSet(Passed') /\ Cardinality(Passed') = Cardinality(Passed) - 1
      BY <2>2, <3>1, FS_RemoveElement DEF AuditInv
    <3>4. Cardinality(Passed) \in Nat
      BY FS_CardinalityType DEF AuditInv
    <3>5. AuditMatchesTokens'
      BY <2>1, <3>2, <3>3, <3>4 DEF AuditInv, AuditMatchesTokens, Passed
    <3> QED BY <2>1, <3>3, <3>5 DEF AuditInv
  <2>4. CASE outcome[h] # "ok"
    <3>1. Passed' = Passed
      BY <2>1, <2>2, <2>4 DEF Passed
    <3>2. AuditKind(outcome[h]) # "ok"
      BY <2>4 DEF AuditKind
    <3>3. audit'["ok"] = audit["ok"]
      BY <1>0, <2>1, <3>2 DEF TypeOK, AuditKinds
    <3> QED BY <2>1, <3>1, <3>3, AuditStable
  <2> QED BY <2>3, <2>4
<1>9. CASE Tick
  BY <1>9, AuditStable DEF Tick, Passed
<1>10. CASE UNCHANGED vars
  BY <1>10, AuditStable DEF vars, Passed
<1> QED BY <1>1, <1>2, <1>3, <1>4, <1>5, <1>6, <1>7, <1>8, <1>9, <1>10 DEF Next

LEMMA AuditInit == Init => AuditInv
<1> SUFFICES ASSUME Init PROVE AuditInv
  OBVIOUS
<1>1. Passed = {} /\ tokens = {} /\ audit["ok"] = 0
  BY DEF Init, Passed, AuditKinds
<1> QED BY <1>1, FS_EmptySet DEF AuditInv, AuditMatchesTokens, Passed

\* However the threads overlap, also where two of them share a challenge, the list
\* has one ok record per token, or the thread that will write it (record_audit).
THEOREM AuditIsComplete == Spec => []AuditMatchesTokens
<1>1. AuditInv => AuditMatchesTokens
  BY DEF AuditInv
<1>2. Spec => [](TypeInv /\ AuditInv)
  BY TypeInit, TypeInductive, AuditInit, AuditInductive, PTL DEF Spec
<1> QED BY <1>1, <1>2, PTL

============================================================================
