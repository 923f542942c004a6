-------------------------- MODULE DemoAuthProofs --------------------------
(***************************************************************************)
(* Theorems about DemoAuth for every number of tasks, challenges,          *)
(* identities, requests and restarts: type correctness, the safety of the  *)
(* login endpoint and that it implements OneTimeLogin.                     *)
(***************************************************************************)
EXTENDS DemoAuth, FiniteSetTheorems, TLAPS

----------------------------------------------------------------------------
(* Type correctness *)

\* A handler's verdicts are outcomes.
LEMMA ResultTypes ==
  ASSUME NEW r, NEW t
  PROVE  /\ RecordResult(r, t) \in Errors \cup {"ok"}
         /\ ProofResult(r, t) \in Errors \cup {"ok"}
BY DEF RecordResult, ProofResult, Errors

\* Moving a task on keeps pc and outcome typed.
LEMMA ProceedTypes ==
  ASSUME TypeOK, NEW h \in Handler, NEW result \in Outcomes,
         NEW step \in Steps, Proceed(h, result, step)
  PROVE  pc' \in [Handler -> Steps] /\ outcome' \in [Handler -> Outcomes]
BY DEF TypeOK, Proceed, Goto, Answer, Steps

\* What a task holds at each step: past the idle and audit steps it has a
\* request, past the record check a proof that deserialized.
HoldsRequest ==
  \A h \in Handler :
    /\ pc[h] \in Steps \ {"idle", "audit"} => req[h] \in Request
    /\ pc[h] \in {"verify", "consume", "issue"} => req[h].proof \in Proof

\* Every step keeps the variables typed and the tasks' requests at hand.  TypeOK
\* alone is not inductive: the key DID of a token is read from the request.
LEMMA TypeOKInductive ==
  TypeOK /\ HoldsRequest /\ [Next]_vars => TypeOK' /\ HoldsRequest'
<1> SUFFICES ASSUME TypeOK, HoldsRequest, [Next]_vars
             PROVE  TypeOK' /\ HoldsRequest'
  OBVIOUS
<1> USE LoginDataAssumption DEF LoginDataAssumption
<1>1. ASSUME NEW h \in Handler, NEW c \in Challenge, NEW i \in Identity,
             ServeChallenge(h, c, i)
      PROVE  TypeOK' /\ HoldsRequest'
  <2>1. TypeOK'
    BY <1>1 DEF TypeOK, ServeChallenge, Answer, MintedRecord, ExpiresAt, Steps,
       Outcomes
  <2>2. HoldsRequest'
    BY <1>1 DEF TypeOK, HoldsRequest, ServeChallenge, Answer
  <2> QED BY <2>1, <2>2
<1>2. ASSUME NEW h \in Handler, NEW r \in Requests, ReceiveLogin(h, r)
      PROVE  TypeOK' /\ HoldsRequest'
  <2>1. (IF r.merchant THEN "ok" ELSE "ScopeMismatch") \in Outcomes
    BY DEF Outcomes, Errors
  <2>2. pc' \in [Handler -> Steps] /\ outcome' \in [Handler -> Outcomes]
    BY <1>2, <2>1, ProceedTypes DEF ReceiveLogin, Steps
  <2>3. TypeOK'
    <3>1. req' \in [Handler -> Request \cup {NoRequest}]
      BY <1>2 DEF TypeOK, ReceiveLogin
    <3>2. received' \in Nat
      BY <1>2 DEF TypeOK, ReceiveLogin
    <3> QED BY <1>2, <2>2, <3>1, <3>2 DEF TypeOK, ReceiveLogin
  <2>4. HoldsRequest'
    BY <1>2 DEF TypeOK, HoldsRequest, ReceiveLogin, Proceed, Goto, Answer
  <2> QED BY <2>3, <2>4
<1>3. ASSUME NEW h \in Handler, Lookup(h) PROVE TypeOK' /\ HoldsRequest'
  <2>1. (IF req[h].challenge \in challenges THEN "ok" ELSE "UnknownChallenge")
           \in Outcomes
    BY DEF Outcomes, Errors
  <2>2. pc' \in [Handler -> Steps] /\ outcome' \in [Handler -> Outcomes]
    BY <1>3, <2>1, ProceedTypes DEF Lookup, Steps
  <2>3. TypeOK'
    BY <1>3, <2>2 DEF TypeOK, Lookup
  <2>4. HoldsRequest'
    BY <1>3 DEF TypeOK, HoldsRequest, Lookup, Proceed, Goto, Answer, Steps
  <2> QED BY <2>3, <2>4
<1>4. ASSUME NEW h \in Handler, CheckRecord(h) PROVE TypeOK' /\ HoldsRequest'
  <2>1. RecordResult(req[h], now) \in Outcomes
    BY ResultTypes DEF Outcomes
  <2>2. pc' \in [Handler -> Steps] /\ outcome' \in [Handler -> Outcomes]
    BY <1>4, <2>1, ProceedTypes DEF CheckRecord, Steps
  <2>3. TypeOK'
    BY <1>4, <2>2 DEF TypeOK, CheckRecord
  <2>4. RecordResult(req[h], now) = "ok" => req[h].proof # Malformed
    BY DEF RecordResult
  <2>5. HoldsRequest'
    BY <1>4, <2>4 DEF TypeOK, HoldsRequest, CheckRecord, Proceed, Goto, Answer,
       Steps, Request
  <2> QED BY <2>3, <2>5
<1>5. ASSUME NEW h \in Handler, VerifyProof(h) PROVE TypeOK' /\ HoldsRequest'
  <2>1. ProofResult(req[h], now) \in Outcomes
    BY ResultTypes DEF Outcomes
  <2>2. pc' \in [Handler -> Steps] /\ outcome' \in [Handler -> Outcomes]
    BY <1>5, <2>1, ProceedTypes DEF VerifyProof, Steps
  <2>3. TypeOK'
    BY <1>5, <2>2 DEF TypeOK, VerifyProof
  <2>4. HoldsRequest'
    BY <1>5 DEF TypeOK, HoldsRequest, VerifyProof, Proceed, Goto, Answer, Steps
  <2> QED BY <2>3, <2>4
<1>6. ASSUME NEW h \in Handler, Consume(h) PROVE TypeOK' /\ HoldsRequest'
  <2>1. (IF Removed(h) THEN "ok" ELSE "UnknownChallenge") \in Outcomes
    BY DEF Outcomes, Errors
  <2>2. pc' \in [Handler -> Steps] /\ outcome' \in [Handler -> Outcomes]
    BY <1>6, <2>1, ProceedTypes DEF Consume, Steps
  <2>3. TypeOK'
    BY <1>6, <2>2 DEF TypeOK, Consume
  <2>4. HoldsRequest'
    BY <1>6 DEF TypeOK, HoldsRequest, Consume, Proceed, Goto, Answer, Steps
  <2> QED BY <2>3, <2>4
<1>7. ASSUME NEW h \in Handler, IssueToken(h) PROVE TypeOK' /\ HoldsRequest'
  <2>1. NewToken(h) \in Token
    BY <1>7 DEF TypeOK, HoldsRequest, IssueToken, NewToken, Token, Steps,
       Request, Proof
  <2>2. TypeOK'
    BY <1>7, <2>1 DEF TypeOK, IssueToken, Answer, Steps, Outcomes, Errors
  <2>3. HoldsRequest'
    BY <1>7 DEF TypeOK, HoldsRequest, IssueToken, Answer
  <2> QED BY <2>2, <2>3
<1>8. ASSUME NEW h \in Handler, WriteAudit(h) PROVE TypeOK' /\ HoldsRequest'
  <2>1. audit' \in [AuditKinds -> Nat]
    <3> DEFINE kind == AuditKind(outcome[h])
    <3>1. audit' = [audit EXCEPT ![kind] = audit[kind] + 1]
      BY <1>8 DEF WriteAudit
    <3>2. audit \in [AuditKinds -> Nat]
      BY DEF TypeOK
    <3> HIDE DEF kind
    <3>3. \A k \in AuditKinds : audit'[k] \in Nat
      BY <3>1, <3>2
    <3>4. audit' = [k \in AuditKinds |-> audit'[k]]
      BY <3>1, <3>2
    <3> QED BY <3>3, <3>4
  <2>2. TypeOK'
    BY <1>8, <2>1 DEF TypeOK, WriteAudit, Steps, Outcomes
  <2>3. HoldsRequest'
    BY <1>8 DEF TypeOK, HoldsRequest, WriteAudit
  <2> QED BY <2>2, <2>3
<1>9. CASE Tick
  BY <1>9 DEF TypeOK, HoldsRequest, Tick
<1>10. CASE Restart
  BY <1>10 DEF TypeOK, HoldsRequest, Restart, Steps, Outcomes, AuditKinds
<1>11. CASE UNCHANGED vars
  BY <1>11 DEF TypeOK, HoldsRequest, vars
<1> QED
  BY <1>1, <1>2, <1>3, <1>4, <1>5, <1>6, <1>7, <1>8, <1>9, <1>10, <1>11
     DEF Next, HandlerStep

\* Initially everything is typed and no task holds a request.
LEMMA TypeOKInit == Init => TypeOK /\ HoldsRequest
<1> SUFFICES ASSUME Init PROVE TypeOK /\ HoldsRequest
  OBVIOUS
<1>1. TypeOK
  BY LoginDataAssumption DEF Init, TypeOK, LoginDataAssumption, MintedRecord,
     Steps, Outcomes
<1>2. HoldsRequest
  BY DEF Init, HoldsRequest
<1> QED BY <1>1, <1>2

\* The server's state stays typed, whatever clients send and whenever it
\* restarts.
THEOREM TypeCorrect == Spec => []TypeOK
<1>1. Spec => [](TypeOK /\ HoldsRequest)
  BY TypeOKInit, TypeOKInductive, PTL DEF Spec
<1> QED BY <1>1, PTL

----------------------------------------------------------------------------
(* What a task has established by the time it reaches a step *)

\* A minted challenge keeps its identity and expiry for good.
LEMMA MintedStable ==
  ASSUME TypeOK, [Next]_vars, NEW c \in Challenge, minted[c] # NotMinted
  PROVE  minted'[c] = minted[c]
<1>1. ASSUME NEW h \in Handler, NEW d \in Challenge, NEW i \in Identity,
             ServeChallenge(h, d, i)
      PROVE  minted'[c] = minted[c]
  BY <1>1 DEF TypeOK, ServeChallenge
<1>2. (\A h \in Handler, d \in Challenge, i \in Identity :
         ~ServeChallenge(h, d, i)) => minted' = minted
  BY DEF Next, ReceiveLogin, HandlerStep, Lookup, CheckRecord, VerifyProof,
     Consume, IssueToken, WriteAudit, Tick, Restart, vars
<1> QED BY <1>1, <1>2

\* The record was in the map, it is the requester's, and the requester's own DID
\* signed a proof of it before it expired: each from the step after the check.
Established(h) ==
  LET r == req[h] IN
  /\ pc[h] \in {"check", "verify", "consume", "issue"} =>
       minted[r.challenge] # NotMinted
  /\ pc[h] \in {"verify", "consume", "issue"} =>
       minted[r.challenge].identity = r.identity
  /\ pc[h] \in {"consume", "issue"} =>
       /\ r.proof.keyDid = UserOf[r.identity]
       /\ r.proof.verifies
       /\ acceptedAt[h] < minted[r.challenge].expires

MapMinted == \A c \in challenges : minted[c] # NotMinted

TokensMinted == \A t \in tokens : minted[t.challenge] # NotMinted

ProofInv ==
  /\ TypeOK
  /\ HoldsRequest
  /\ \A h \in Handler : Established(h)
  /\ MapMinted
  /\ TokensMinted
  /\ TokensProven

\* A task that does not move keeps what it has established.
LEMMA EstablishedStable ==
  ASSUME ProofInv, [Next]_vars, NEW h \in Handler,
         pc'[h] = pc[h], req'[h] = req[h], acceptedAt'[h] = acceptedAt[h]
  PROVE  Established(h)'
<1>1. CASE pc[h] \in {"check", "verify", "consume", "issue"}
  <2>1. req[h].challenge \in Challenge
    BY <1>1 DEF ProofInv, HoldsRequest, Steps, Request
  <2>2. minted[req[h].challenge] # NotMinted
    BY <1>1 DEF ProofInv, Established
  <2>3. minted'[req[h].challenge] = minted[req[h].challenge]
    BY <2>1, <2>2, MintedStable DEF ProofInv
  <2> QED BY <1>1, <2>3 DEF ProofInv, Established
<1>2. CASE pc[h] \notin {"check", "verify", "consume", "issue"}
  BY <1>2 DEF Established
<1> QED BY <1>1, <1>2

\* Tokens keep their proof: the record they were issued for does not change.
LEMMA TokensStable ==
  ASSUME ProofInv, [Next]_vars, tokens' = tokens
  PROVE  TokensMinted' /\ TokensProven'
<1> SUFFICES ASSUME NEW t \in tokens
             PROVE  minted'[t.challenge] = minted[t.challenge]
  BY DEF ProofInv, TokensMinted, TokensProven
<1>1. t.challenge \in Challenge
  BY DEF ProofInv, TypeOK, Token
<1> QED BY <1>1, MintedStable DEF ProofInv, TokensMinted

\* Every step keeps ProofInv: each check is made on the record the handler
\* cloned, which no other task can change.
LEMMA ProofInvInductive == ProofInv /\ [Next]_vars => ProofInv'
<1> SUFFICES ASSUME ProofInv, [Next]_vars
             PROVE  ProofInv'
  OBVIOUS
<1> USE LoginDataAssumption DEF LoginDataAssumption
<1>1. TypeOK' /\ HoldsRequest'
  BY TypeOKInductive DEF ProofInv
<1>2. ASSUME NEW h \in Handler, NEW c \in Challenge, NEW i \in Identity,
             ServeChallenge(h, c, i)
      PROVE  ProofInv'
  <2>1. ASSUME NEW g \in Handler PROVE Established(g)'
    <3>1. CASE g = h
      BY <1>2, <3>1 DEF ProofInv, TypeOK, ServeChallenge, Answer, Established
    <3>2. CASE g # h
      BY <1>2, <3>2, EstablishedStable DEF ServeChallenge, Answer, ProofInv, TypeOK
    <3> QED BY <3>1, <3>2
  <2>2. MapMinted'
    BY <1>2 DEF ProofInv, TypeOK, ServeChallenge, MapMinted, NotMinted, ExpiresAt
  <2>3. TokensMinted' /\ TokensProven'
    BY <1>2, TokensStable DEF ServeChallenge
  <2> QED BY <1>1, <2>1, <2>2, <2>3 DEF ProofInv
<1>3. ASSUME NEW h \in Handler, NEW r \in Requests, ReceiveLogin(h, r)
      PROVE  ProofInv'
  <2>1. ASSUME NEW g \in Handler PROVE Established(g)'
    <3>1. CASE g = h
      BY <1>3, <3>1 DEF ProofInv, TypeOK, ReceiveLogin, Proceed, Goto, Answer,
         Established
    <3>2. CASE g # h
      BY <1>3, <3>2, EstablishedStable
         DEF ReceiveLogin, Proceed, Goto, Answer, ProofInv, TypeOK
    <3> QED BY <3>1, <3>2
  <2>2. MapMinted'
    BY <1>3 DEF ProofInv, ReceiveLogin, MapMinted
  <2>3. TokensMinted' /\ TokensProven'
    BY <1>3, TokensStable DEF ReceiveLogin
  <2> QED BY <1>1, <2>1, <2>2, <2>3 DEF ProofInv
<1>4. ASSUME NEW h \in Handler, Lookup(h) PROVE ProofInv'
  <2>1. ASSUME NEW g \in Handler PROVE Established(g)'
    <3>1. CASE g = h
      BY <1>4, <3>1 DEF ProofInv, TypeOK, Lookup, Proceed, Goto, Answer,
         Established, MapMinted
    <3>2. CASE g # h
      BY <1>4, <3>2, EstablishedStable
         DEF Lookup, Proceed, Goto, Answer, ProofInv, TypeOK
    <3> QED BY <3>1, <3>2
  <2>2. MapMinted'
    BY <1>4 DEF ProofInv, Lookup, MapMinted
  <2>3. TokensMinted' /\ TokensProven'
    BY <1>4, TokensStable DEF Lookup
  <2> QED BY <1>1, <2>1, <2>2, <2>3 DEF ProofInv
<1>5. ASSUME NEW h \in Handler, CheckRecord(h) PROVE ProofInv'
  <2>1. ASSUME NEW g \in Handler PROVE Established(g)'
    <3>1. CASE g = h
      <4>1. RecordResult(req[h], now) = "ok" =>
              minted[req[h].challenge].identity = req[h].identity
        BY DEF RecordResult
      <4> QED BY <1>5, <3>1, <4>1 DEF ProofInv, TypeOK, CheckRecord, Proceed,
             Goto, Answer, Established
    <3>2. CASE g # h
      BY <1>5, <3>2, EstablishedStable
         DEF CheckRecord, Proceed, Goto, Answer, ProofInv, TypeOK
    <3> QED BY <3>1, <3>2
  <2>2. MapMinted'
    BY <1>5 DEF ProofInv, CheckRecord, MapMinted
  <2>3. TokensMinted' /\ TokensProven'
    BY <1>5, TokensStable DEF CheckRecord
  <2> QED BY <1>1, <2>1, <2>2, <2>3 DEF ProofInv
<1>6. ASSUME NEW h \in Handler, VerifyProof(h) PROVE ProofInv'
  <2>1. ASSUME NEW g \in Handler PROVE Established(g)'
    <3>1. CASE g = h
      <4>1. req[h].challenge \in Challenge
        BY <1>6 DEF VerifyProof, ProofInv, HoldsRequest, Steps, Request
      <4>2. minted[req[h].challenge].expires \in Nat
        BY <4>1 DEF ProofInv, TypeOK, MintedRecord, NotMinted
      <4>3. ProofResult(req[h], now) = "ok" =>
              /\ req[h].proof.keyDid = UserOf[req[h].identity]
              /\ req[h].proof.verifies
              /\ now < minted[req[h].challenge].expires
        BY <4>2 DEF ProofResult, Expired, ProofInv, TypeOK
      <4> QED BY <1>6, <3>1, <4>3 DEF ProofInv, TypeOK, VerifyProof, Proceed,
             Goto, Answer, Established
    <3>2. CASE g # h
      BY <1>6, <3>2, EstablishedStable
         DEF VerifyProof, Proceed, Goto, Answer, ProofInv, TypeOK
    <3> QED BY <3>1, <3>2
  <2>2. MapMinted'
    BY <1>6 DEF ProofInv, VerifyProof, MapMinted
  <2>3. TokensMinted' /\ TokensProven'
    BY <1>6, TokensStable DEF VerifyProof
  <2> QED BY <1>1, <2>1, <2>2, <2>3 DEF ProofInv
<1>7. ASSUME NEW h \in Handler, Consume(h) PROVE ProofInv'
  <2>1. ASSUME NEW g \in Handler PROVE Established(g)'
    <3>1. CASE g = h
      BY <1>7, <3>1 DEF ProofInv, TypeOK, Consume, Proceed, Goto, Answer,
         Established
    <3>2. CASE g # h
      BY <1>7, <3>2, EstablishedStable
         DEF Consume, Proceed, Goto, Answer, ProofInv, TypeOK
    <3> QED BY <3>1, <3>2
  <2>2. MapMinted'
    BY <1>7 DEF ProofInv, Consume, MapMinted
  <2>3. TokensMinted' /\ TokensProven'
    BY <1>7, TokensStable DEF Consume
  <2> QED BY <1>1, <2>1, <2>2, <2>3 DEF ProofInv
<1>8. ASSUME NEW h \in Handler, IssueToken(h) PROVE ProofInv'
  <2>1. ASSUME NEW g \in Handler PROVE Established(g)'
    <3>1. CASE g = h
      BY <1>8, <3>1 DEF ProofInv, TypeOK, IssueToken, Answer, Established
    <3>2. CASE g # h
      BY <1>8, <3>2, EstablishedStable DEF IssueToken, Answer, ProofInv, TypeOK
    <3> QED BY <3>1, <3>2
  <2>2. MapMinted'
    BY <1>8 DEF ProofInv, IssueToken, MapMinted
  <2>3. TokensMinted' /\ TokensProven'
    <3>1. minted' = minted /\ tokens' \subseteq tokens \cup {NewToken(h)}
      BY <1>8 DEF IssueToken
    <3>2. /\ minted[NewToken(h).challenge] # NotMinted
          /\ minted[NewToken(h).challenge].identity = NewToken(h).identity
          /\ NewToken(h).keyDid = UserOf[NewToken(h).identity]
          /\ NewToken(h).acceptedAt < minted[NewToken(h).challenge].expires
      BY <1>8 DEF IssueToken, NewToken, ProofInv, Established
    <3> QED BY <3>1, <3>2 DEF ProofInv, TokensMinted, TokensProven
  <2> QED BY <1>1, <2>1, <2>2, <2>3 DEF ProofInv
<1>9. ASSUME NEW h \in Handler, WriteAudit(h) PROVE ProofInv'
  <2>1. ASSUME NEW g \in Handler PROVE Established(g)'
    <3>1. CASE g = h
      BY <1>9, <3>1 DEF ProofInv, TypeOK, WriteAudit, Established
    <3>2. CASE g # h
      BY <1>9, <3>2, EstablishedStable DEF WriteAudit, ProofInv, TypeOK
    <3> QED BY <3>1, <3>2
  <2>2. MapMinted'
    BY <1>9 DEF ProofInv, WriteAudit, MapMinted
  <2>3. TokensMinted' /\ TokensProven'
    BY <1>9, TokensStable DEF WriteAudit
  <2> QED BY <1>1, <2>1, <2>2, <2>3 DEF ProofInv
<1>10. CASE Tick
  BY <1>1, <1>10 DEF ProofInv, Tick, Established, MapMinted, TokensMinted,
     TokensProven
<1>11. CASE Restart
  BY <1>1, <1>11 DEF ProofInv, Restart, Established, MapMinted, TokensMinted,
     TokensProven
<1>12. CASE UNCHANGED vars
  BY <1>1, <1>12 DEF ProofInv, vars, Established, MapMinted, TokensMinted,
     TokensProven
<1> QED
  BY <1>2, <1>3, <1>4, <1>5, <1>6, <1>7, <1>8, <1>9, <1>10, <1>11, <1>12
     DEF Next, HandlerStep

\* Initially nothing is minted and nothing issued.
LEMMA ProofInvInit == Init => ProofInv
<1> SUFFICES ASSUME Init PROVE ProofInv
  OBVIOUS
<1>1. TypeOK /\ HoldsRequest
  BY TypeOKInit
<1>2. \A h \in Handler : Established(h)
  BY DEF Init, Established
<1>3. MapMinted /\ TokensMinted /\ TokensProven
  BY DEF Init, MapMinted, TokensMinted, TokensProven
<1> QED BY <1>1, <1>2, <1>3 DEF ProofInv

\* Every token was bought with a proof by its identity's own DID, of a challenge
\* minted for that identity, accepted before that challenge expired.
THEOREM TokensAreProven == Spec => []TokensProven
<1>1. Spec => []ProofInv
  BY ProofInvInit, ProofInvInductive, PTL DEF Spec
<1>2. ProofInv => TokensProven
  BY DEF ProofInv
<1> QED BY <1>1, <1>2, PTL

----------------------------------------------------------------------------
(* One challenge, one token *)

\* A challenge is in the map, or held by the one task that removed it, or spent
\* on the one token that task issued: never two of these at once.
HolderInv ==
  /\ \A h \in Handler : pc[h] = "issue" => req[h].challenge \notin challenges
  /\ \A g, h \in Handler :
       pc[g] = "issue" /\ pc[h] = "issue" /\ req[g].challenge = req[h].challenge
         => g = h
  /\ \A t \in tokens : t.challenge \notin challenges
  /\ \A t \in tokens, h \in Handler :
       pc[h] = "issue" => req[h].challenge # t.challenge
  /\ AtMostOneToken

\* A step that adds no challenge, no token and no task about to issue one keeps
\* HolderInv.
LEMMA HolderStable ==
  ASSUME HolderInv, challenges' \subseteq challenges, tokens' = tokens,
         \A h \in Handler :
           pc'[h] = "issue" => pc[h] = "issue" /\ req'[h] = req[h]
  PROVE  HolderInv'
BY DEF HolderInv, AtMostOneToken

\* Every step keeps HolderInv; remove_challenge is where it is decided.
LEMMA HolderInvInductive == ProofInv /\ HolderInv /\ [Next]_vars => HolderInv'
<1> SUFFICES ASSUME ProofInv, HolderInv, [Next]_vars
             PROVE  HolderInv'
  OBVIOUS
<1>0. TypeOK
  BY DEF ProofInv
<1>1. ASSUME NEW h \in Handler, NEW c \in Challenge, NEW i \in Identity,
             ServeChallenge(h, c, i)
      PROVE  HolderInv'
  <2>1. \A t \in tokens : t.challenge # c
    BY <1>1 DEF ServeChallenge, ProofInv, TokensMinted
  <2>2. \A g \in Handler : pc[g] = "issue" => req[g].challenge # c
    BY <1>1 DEF ServeChallenge, ProofInv, Established
  <2>3. \A g \in Handler : pc'[g] = "issue" => pc[g] = "issue"
    BY <1>0, <1>1 DEF TypeOK, ServeChallenge, Answer
  <2> QED BY <1>1, <2>1, <2>2, <2>3
          DEF ServeChallenge, HolderInv, AtMostOneToken
<1>2. ASSUME NEW h \in Handler, NEW r \in Requests, ReceiveLogin(h, r)
      PROVE  HolderInv'
  BY <1>0, <1>2, HolderStable DEF TypeOK, ReceiveLogin, Proceed, Goto, Answer
<1>3. ASSUME NEW h \in Handler, Lookup(h) PROVE HolderInv'
  BY <1>0, <1>3, HolderStable DEF TypeOK, Lookup, Proceed, Goto, Answer
<1>4. ASSUME NEW h \in Handler, CheckRecord(h) PROVE HolderInv'
  BY <1>0, <1>4, HolderStable DEF TypeOK, CheckRecord, Proceed, Goto, Answer
<1>5. ASSUME NEW h \in Handler, VerifyProof(h) PROVE HolderInv'
  BY <1>0, <1>5, HolderStable DEF TypeOK, VerifyProof, Proceed, Goto, Answer
<1>6. ASSUME NEW h \in Handler, Consume(h) PROVE HolderInv'
  <2>1. CASE Removed(h)
    <3>1. /\ pc' = [pc EXCEPT ![h] = "issue"]
          /\ challenges' = challenges \ {req[h].challenge}
          /\ UNCHANGED <<req, tokens>>
      BY <1>6, <2>1 DEF Consume, Proceed, Goto
    <3>2. /\ \A g \in Handler :
               pc[g] = "issue" => req[g].challenge # req[h].challenge
          /\ \A t \in tokens : t.challenge # req[h].challenge
      BY <2>1 DEF Removed, HolderInv
    <3>3. \A g \in Handler : pc'[g] = "issue" => g = h \/ pc[g] = "issue"
      BY <1>0, <3>1 DEF TypeOK
    <3> QED BY <3>1, <3>2, <3>3 DEF HolderInv, AtMostOneToken
  <2>2. CASE ~Removed(h)
    BY <1>0, <1>6, <2>2, HolderStable DEF TypeOK, Consume, Proceed, Answer
  <2> QED BY <2>1, <2>2
<1>7. ASSUME NEW h \in Handler, IssueToken(h) PROVE HolderInv'
  <2>1. CASE config.issuer
    <3>1. /\ pc[h] = "issue"
          /\ pc' = [pc EXCEPT ![h] = "audit"]
          /\ tokens' = tokens \cup {NewToken(h)}
          /\ UNCHANGED <<challenges, req>>
      BY <1>7, <2>1 DEF IssueToken, Answer
    <3>2. NewToken(h).challenge = req[h].challenge
      BY DEF NewToken
    <3>3. \A g \in Handler : pc'[g] = "issue" => g # h /\ pc[g] = "issue"
      BY <1>0, <3>1 DEF TypeOK
    <3>4. AtMostOneToken'
      BY <3>1, <3>2 DEF HolderInv, AtMostOneToken
    <3> QED BY <3>1, <3>2, <3>3, <3>4 DEF HolderInv
  <2>2. CASE ~config.issuer
    BY <1>0, <1>7, <2>2, HolderStable DEF TypeOK, IssueToken, Answer
  <2> QED BY <2>1, <2>2
<1>8. ASSUME NEW h \in Handler, WriteAudit(h) PROVE HolderInv'
  BY <1>0, <1>8, HolderStable DEF TypeOK, WriteAudit
<1>9. CASE Tick
  BY <1>9, HolderStable DEF Tick
<1>10. CASE Restart
  BY <1>10, HolderStable DEF Restart
<1>11. CASE UNCHANGED vars
  BY <1>11, HolderStable DEF vars
<1> QED
  BY <1>1, <1>2, <1>3, <1>4, <1>5, <1>6, <1>7, <1>8, <1>9, <1>10, <1>11
     DEF Next, HandlerStep

\* The two invariants together hold of every behaviour.
LEMMA SpecInvariants == Spec => [](ProofInv /\ HolderInv)
<1>1. Init => HolderInv
  BY DEF Init, HolderInv, AtMostOneToken
<1> QED BY <1>1, ProofInvInit, ProofInvInductive, HolderInvInductive, PTL DEF Spec

\* However many logins carry a proof of the same challenge, and however they
\* overlap, at most one of them is given a token.
THEOREM OneTokenPerChallenge == Spec => []AtMostOneToken
<1>1. ProofInv /\ HolderInv => AtMostOneToken
  BY DEF HolderInv
<1> QED BY <1>1, SpecInvariants, PTL

\* A refused login leaves the challenge to its owner: what leaves the map, but
\* for a restart, is taken by a task that holds a verified proof of its identity.
THEOREM RefusalsKeepChallenges == Spec => OnlyProofsConsume
<1> DEFINE A ==
      \A c \in challenges \ challenges' :
        \/ boots' # boots
        \/ \E h \in Handler :
             /\ pc[h] = "consume"
             /\ req[h].challenge = c
             /\ req[h].identity = minted[c].identity
             /\ req[h].proof.verifies
<1>1. ProofInv /\ [Next]_vars => [A]_vars
  <2> SUFFICES ASSUME ProofInv, Next, NEW c \in challenges \ challenges',
                      boots' = boots
               PROVE  \E h \in Handler :
                        /\ pc[h] = "consume"
                        /\ req[h].challenge = c
                        /\ req[h].identity = minted[c].identity
                        /\ req[h].proof.verifies
    OBVIOUS
  <2>1. boots \in Nat
    BY DEF ProofInv, TypeOK
  <2>2. ~Restart
    BY <2>1 DEF Restart
  <2>3. PICK h \in Handler : Consume(h)
    BY <2>2 DEF Next, ServeChallenge, ReceiveLogin, HandlerStep, Lookup,
       CheckRecord, VerifyProof, IssueToken, WriteAudit, Tick
  <2>4. pc[h] = "consume" /\ req[h].challenge = c
    BY <2>3 DEF Consume
  <2>5. Established(h)
    BY DEF ProofInv
  <2> QED BY <2>4, <2>5 DEF Established
<1> QED BY <1>1, SpecInvariants, PTL DEF Spec, OnlyProofsConsume

----------------------------------------------------------------------------
(* The login endpoint implements one-time challenges *)

\* The abstract state: what is open is in the map or held by a task.
Bound == [c \in Challenge |-> minted[c].identity]

Held == {req[h].challenge : h \in {g \in Handler : pc[g] = "issue"}}

Open == challenges \cup Held

Plain(t) == [jti |-> t.jti, challenge |-> t.challenge, identity |-> t.identity]

Granted == {Plain(t) : t \in tokens}

\* Every step mints a challenge, grants a token, loses challenges, or changes
\* nothing that a client of OneTimeLogin sees.
LEMMA StepSimulation ==
  ProofInv /\ HolderInv /\ [Next]_vars => [OneTime!Next]_OneTime!vars
<1> SUFFICES ASSUME ProofInv, HolderInv, [Next]_vars
             PROVE  [OneTime!Next]_OneTime!vars
  OBVIOUS
<1> DEFINE Same == Bound' = Bound /\ Open' = Open /\ Granted' = Granted
<1>0. TypeOK
  BY DEF ProofInv
<1>stutter. Same => [OneTime!Next]_OneTime!vars
  BY DEF OneTime!vars, Bound, Open, Held, Granted, Plain
<1>lose. ASSUME NEW lost \in SUBSET Open,
                Bound' = Bound, Open' = Open \ lost, Granted' = Granted
         PROVE  OneTime!Next
  BY <1>lose DEF OneTime!Next, OneTime!Lose, Bound, Open, Held, Granted, Plain
<1>1. ASSUME NEW h \in Handler, NEW c \in Challenge, NEW i \in Identity,
             ServeChallenge(h, c, i)
      PROVE  OneTime!Next
  <2>1. Bound[c] = Nobody /\ Bound' = [Bound EXCEPT ![c] = i]
    <3>1. Bound[c] = Nobody
      BY <1>1 DEF ServeChallenge, Bound, NotMinted
    <3>2. minted' = [minted EXCEPT ![c] = [identity |-> i,
                                           expires |-> ExpiresAt(now)]]
      BY <1>1 DEF ServeChallenge
    <3>3. minted'[c].identity = i
      BY <1>0, <3>2 DEF TypeOK
    <3>4. \A d \in Challenge \ {c} : minted'[d] = minted[d]
      BY <1>0, <3>2 DEF TypeOK
    <3> QED BY <3>1, <3>3, <3>4 DEF Bound
  <2>2. Held' = Held
    BY <1>0, <1>1 DEF ServeChallenge, Answer, Held, TypeOK
  <2>3. Open' = Open \cup {c} /\ Granted' = Granted
    BY <1>1, <2>2 DEF ServeChallenge, Open, Granted
  <2>4. OneTime!Mint(c, i)
    BY <2>1, <2>3 DEF OneTime!Mint, Bound, Open, Held, Granted, Plain
  <2> QED BY <2>4 DEF OneTime!Next
<1>2. ASSUME UNCHANGED <<minted, challenges, tokens>>,
             \A h \in Handler : pc'[h] = "issue" <=> pc[h] = "issue",
             \A h \in Handler : pc[h] = "issue" => req'[h] = req[h]
      PROVE  Same
  <2>1. Held' = Held
    BY <1>2 DEF Held
  <2> QED BY <1>2, <2>1 DEF Bound, Open, Granted
<1>3. ASSUME NEW h \in Handler, NEW r \in Requests, ReceiveLogin(h, r)
      PROVE  Same
  BY <1>0, <1>2, <1>3 DEF TypeOK, ReceiveLogin, Proceed, Goto, Answer
<1>4. ASSUME NEW h \in Handler, Lookup(h) PROVE Same
  BY <1>0, <1>2, <1>4 DEF TypeOK, Lookup, Proceed, Goto, Answer
<1>5. ASSUME NEW h \in Handler, CheckRecord(h) PROVE Same
  BY <1>0, <1>2, <1>5 DEF TypeOK, CheckRecord, Proceed, Goto, Answer
<1>6. ASSUME NEW h \in Handler, VerifyProof(h) PROVE Same
  BY <1>0, <1>2, <1>6 DEF TypeOK, VerifyProof, Proceed, Goto, Answer
<1>7. ASSUME NEW h \in Handler, Consume(h) PROVE Same
  <2>1. CASE Removed(h)
    <3>1. Held' = Held \cup {req[h].challenge}
      BY <1>0, <1>7, <2>1 DEF Consume, Proceed, Goto, Held, TypeOK
    <3>2. Open' = Open
      BY <1>7, <2>1, <3>1 DEF Consume, Removed, Open
    <3> QED BY <1>7, <3>2 DEF Consume, Bound, Granted
  <2>2. CASE ~Removed(h)
    <3>1. challenges' = challenges
      BY <1>7, <2>2 DEF Consume, Removed
    <3> QED BY <1>0, <1>2, <1>7, <2>2, <3>1 DEF Consume, Proceed, Answer, TypeOK
  <2> QED BY <2>1, <2>2
<1>8. ASSUME NEW h \in Handler, IssueToken(h) PROVE OneTime!Next
  <2>1. pc[h] = "issue" /\ pc' = [pc EXCEPT ![h] = "audit"]
    BY <1>8 DEF IssueToken, Answer
  <2>2. PICK c \in Challenge : c = req[h].challenge
    BY <2>1 DEF ProofInv, HoldsRequest, Steps, Request
  <2>3. c \in Open
    BY <2>1, <2>2 DEF Open, Held
  <2>4. Held' = Held \ {c}
    <3>1. \A g \in Handler :
            pc'[g] = "issue" <=> pc[g] = "issue" /\ req[g].challenge # c
      BY <1>0, <2>1, <2>2 DEF HolderInv, TypeOK
    <3>2. req' = req
      BY <1>8 DEF IssueToken
    <3> QED BY <3>1, <3>2 DEF Held
  <2>5. Open' = Open \ {c} /\ Bound' = Bound
    BY <1>8, <2>1, <2>2, <2>4 DEF HolderInv, IssueToken, Open, Bound
  <2>6. CASE config.issuer
    <3> DEFINE t == Plain(NewToken(h))
    <3>1. Granted' = Granted \cup {t}
      BY <1>8, <2>6 DEF IssueToken, Granted
    <3>2. t.challenge = c /\ t.identity = Bound[c]
      BY <2>1, <2>2 DEF Plain, NewToken, Bound, ProofInv, Established
    <3>3. t \notin Granted
      <4>1. \A u \in tokens : u.challenge # c
        BY <2>1, <2>2 DEF HolderInv
      <4> QED BY <3>2, <4>1 DEF Granted, Plain
    <3>4. OneTime!Grant(c)
      <4> HIDE DEF t
      <4>1. t \in Granted' \ Granted
        BY <3>1, <3>3
      <4> QED BY <2>3, <2>5, <3>1, <3>2, <4>1
              DEF OneTime!Grant, Bound, Open, Held, Granted, Plain
    <3> QED BY <2>2, <3>4 DEF OneTime!Next
  <2>7. CASE ~config.issuer
    <3>1. Granted' = Granted
      BY <1>8, <2>7 DEF IssueToken, Granted
    <3> QED BY <1>lose, <2>3, <2>5, <3>1
  <2> QED BY <2>6, <2>7
<1>9. ASSUME NEW h \in Handler, WriteAudit(h) PROVE Same
  BY <1>0, <1>2, <1>9 DEF TypeOK, WriteAudit
<1>10. ASSUME Tick PROVE Same
  BY <1>2, <1>10 DEF Tick
<1>11. CASE Restart
  <2>1. Open' = {} /\ Bound' = Bound /\ Granted' = Granted
    BY <1>11 DEF Restart, Open, Held, Bound, Granted
  <2> QED BY <1>lose, <2>1
<1>12. ASSUME UNCHANGED vars PROVE Same
  BY <1>2, <1>12 DEF vars
<1> QED
  BY <1>stutter, <1>1, <1>3, <1>4, <1>5, <1>6, <1>7, <1>8, <1>9, <1>10, <1>11,
     <1>12 DEF Next, HandlerStep

\* The Rust login endpoint implements one-time challenges, under any number of
\* overlapping requests, restarts and configurations.
THEOREM Implements == Spec => ImplementsOneTimeLogin
<1>1. Init => OneTime!Init
  BY DEF Init, OneTime!Init, NotMinted
<1>2. Spec => OneTime!Spec
  BY <1>1, StepSimulation, SpecInvariants, PTL DEF Spec, OneTime!Spec
<1> QED BY <1>2 DEF ImplementsOneTimeLogin

----------------------------------------------------------------------------
(* The audit log *)

\* The tasks that are about to write an ok record, and the tokens of this boot.
Passed == {h \in Handler : pc[h] = "audit" /\ outcome[h] = "ok"}

OfThisBoot == {t \in tokens : t.boot = boots}

\* A jti is larger than all before, so that a token is another one than those
\* that are counted already; and none is from a boot yet to come.
AuditInv ==
  /\ \A t \in tokens : t.jti <= lastJti /\ t.boot <= boots
  /\ IsFiniteSet(Passed) /\ IsFiniteSet(OfThisBoot)
  /\ AuditMatchesTokens

\* A task that goes on and does not pass counts neither before nor after.
LEMMA PassedStable ==
  ASSUME TypeOK, NEW h \in Handler, NEW result, NEW step, step # "audit",
         pc[h] # "audit", Proceed(h, result, step)
  PROVE  Passed' = Passed
BY DEF TypeOK, Proceed, Goto, Answer, Passed

LEMMA AuditStable ==
  ASSUME AuditInv, Passed' = Passed, UNCHANGED <<tokens, boots, lastJti>>,
         audit'["ok"] = audit["ok"]
  PROVE  AuditInv'
BY DEF AuditInv, AuditMatchesTokens, Passed, OfThisBoot

\* Every step keeps AuditInv: a token and the task that has just issued it are
\* counted together, and the record takes the task's place.
LEMMA AuditInvInductive == TypeOK /\ AuditInv /\ [Next]_vars => AuditInv'
<1> SUFFICES ASSUME TypeOK, AuditInv, [Next]_vars
             PROVE  AuditInv'
  OBVIOUS
<1>1. ASSUME NEW h \in Handler, NEW c \in Challenge, NEW i \in Identity,
             ServeChallenge(h, c, i)
      PROVE  AuditInv'
  <2>1. Passed' = Passed
    BY <1>1 DEF ServeChallenge, Answer, Passed, TypeOK
  <2> QED BY <1>1, <2>1, AuditStable DEF ServeChallenge
<1>2. ASSUME NEW h \in Handler, NEW r \in Requests, ReceiveLogin(h, r)
      PROVE  AuditInv'
  BY <1>2, PassedStable, AuditStable DEF ReceiveLogin
<1>3. ASSUME NEW h \in Handler, Lookup(h) PROVE AuditInv'
  BY <1>3, PassedStable, AuditStable DEF Lookup
<1>4. ASSUME NEW h \in Handler, CheckRecord(h) PROVE AuditInv'
  BY <1>4, PassedStable, AuditStable DEF CheckRecord
<1>5. ASSUME NEW h \in Handler, VerifyProof(h) PROVE AuditInv'
  BY <1>5, PassedStable, AuditStable DEF VerifyProof
<1>6. ASSUME NEW h \in Handler, Consume(h) PROVE AuditInv'
  BY <1>6, PassedStable, AuditStable DEF Consume
<1>7. ASSUME NEW h \in Handler, IssueToken(h) PROVE AuditInv'
  <2>1. CASE config.issuer
    <3>1. /\ pc[h] = "issue" /\ Answer(h, "ok")
          /\ tokens' = tokens \cup {NewToken(h)} /\ lastJti' = lastJti + 1
          /\ UNCHANGED <<boots, audit>>
      BY <1>7, <2>1 DEF IssueToken
    <3>2. h \notin Passed /\ Passed' = Passed \cup {h}
      BY <3>1 DEF Answer, Passed, TypeOK
    <3>3. NewToken(h).jti = lastJti + 1 /\ NewToken(h).boot = boots
      BY DEF NewToken
    <3>4. lastJti \in Nat /\ boots \in Nat /\ \A t \in tokens : t.jti \in Nat
      BY DEF TypeOK, Token
    <3>5. NewToken(h) \notin tokens
      BY <3>3, <3>4 DEF AuditInv
    <3>6. NewToken(h) \notin OfThisBoot /\ OfThisBoot' = OfThisBoot \cup {NewToken(h)}
      BY <3>1, <3>3, <3>5 DEF OfThisBoot
    <3>7. /\ IsFiniteSet(Passed') /\ Cardinality(Passed') = Cardinality(Passed) + 1
          /\ IsFiniteSet(OfThisBoot') /\ Cardinality(OfThisBoot') = Cardinality(OfThisBoot) + 1
      BY <3>2, <3>6, FS_AddElement DEF AuditInv
    <3>8. /\ Cardinality(Passed) \in Nat /\ Cardinality(OfThisBoot) \in Nat /\ audit["ok"] \in Nat
      BY FS_CardinalityType DEF AuditInv, TypeOK, AuditKinds
    <3>9. AuditMatchesTokens'
      BY <3>1, <3>7, <3>8 DEF AuditInv, AuditMatchesTokens, Passed, OfThisBoot
    <3>10. \A t \in tokens' : t.jti <= lastJti' /\ t.boot <= boots'
      BY <3>1, <3>3, <3>4 DEF AuditInv
    <3> QED BY <3>7, <3>9, <3>10 DEF AuditInv
  <2>2. CASE ~config.issuer
    <3>1. Passed' = Passed
      BY <1>7, <2>2 DEF IssueToken, Answer, Passed, TypeOK
    <3> QED BY <1>7, <2>2, <3>1, AuditStable DEF IssueToken
  <2> QED BY <2>1, <2>2
<1>8. ASSUME NEW h \in Handler, WriteAudit(h) PROVE AuditInv'
  <2>1. /\ pc[h] = "audit" /\ audit' = [audit EXCEPT ![AuditKind(outcome[h])] = @ + 1]
        /\ UNCHANGED <<tokens, boots, lastJti>>
    BY <1>8 DEF WriteAudit
  <2>2. Passed' = Passed \ {h}
    BY <1>8 DEF WriteAudit, Passed, TypeOK
  <2>3. CASE outcome[h] = "ok"
    <3>1. h \in Passed
      BY <2>1, <2>3 DEF Passed
    <3>2. audit'["ok"] = audit["ok"] + 1 /\ audit["ok"] \in Nat
      BY <2>1, <2>3 DEF AuditKind, Errors, TypeOK, AuditKinds
    <3>3. IsFiniteSet(Passed') /\ Cardinality(Passed') = Cardinality(Passed) - 1
      BY <2>2, <3>1, FS_RemoveElement DEF AuditInv
    <3>4. Cardinality(Passed) \in Nat
      BY FS_CardinalityType DEF AuditInv
    <3>5. AuditMatchesTokens'
      BY <2>1, <3>2, <3>3, <3>4 DEF AuditInv, AuditMatchesTokens, Passed, OfThisBoot
    <3> QED BY <2>1, <3>3, <3>5 DEF AuditInv, OfThisBoot
  <2>4. CASE outcome[h] # "ok"
    <3>1. Passed' = Passed
      BY <2>2, <2>4 DEF Passed
    <3>2. AuditKind(outcome[h]) # "ok"
      BY <2>4 DEF AuditKind
    <3>3. audit'["ok"] = audit["ok"]
      BY <2>1, <3>2 DEF TypeOK, AuditKinds
    <3> QED BY <2>1, <3>1, <3>3, AuditStable
  <2> QED BY <2>3, <2>4
<1>9. CASE Tick
  BY <1>9, AuditStable DEF Tick, Passed
<1>10. CASE Restart
  <2>1. /\ boots \in Nat /\ boots' = boots + 1 /\ UNCHANGED <<tokens, lastJti>>
        /\ audit'["ok"] = 0
    BY <1>10 DEF Restart, TypeOK, AuditKinds
  <2>2. Passed' = {}
    BY <1>10 DEF Restart, Passed
  <2>3. \A t \in tokens : t.boot \in Nat /\ t.boot <= boots
    BY DEF AuditInv, TypeOK, Token
  <2>4. OfThisBoot' = {} /\ \A t \in tokens : t.boot <= boots'
    BY <2>1, <2>3 DEF OfThisBoot
  <2>5. AuditMatchesTokens'
    BY <2>1, <2>2, <2>4, FS_EmptySet DEF AuditMatchesTokens, Passed, OfThisBoot
  <2> QED BY <2>1, <2>2, <2>4, <2>5, FS_EmptySet DEF AuditInv
<1>11. CASE UNCHANGED vars
  BY <1>11, AuditStable DEF vars, Passed
<1> QED
  BY <1>1, <1>2, <1>3, <1>4, <1>5, <1>6, <1>7, <1>8, <1>9, <1>10, <1>11
     DEF Next, HandlerStep

LEMMA AuditInvInit == Init => AuditInv
<1> SUFFICES ASSUME Init PROVE AuditInv
  OBVIOUS
<1>1. Passed = {} /\ OfThisBoot = {} /\ audit["ok"] = 0
  BY DEF Init, Passed, OfThisBoot, AuditKinds
<1> QED BY <1>1, FS_EmptySet DEF Init, AuditInv, AuditMatchesTokens, Passed, OfThisBoot

\* The log never lacks an ok record, or has one too many, but for the tasks that
\* wait for its lock: whatever a restart cuts off (routes.rs, audit.record).
THEOREM AuditIsComplete == Spec => []AuditMatchesTokens
<1>1. AuditInv => AuditMatchesTokens
  BY DEF AuditInv
<1>2. Spec => [](TypeOK /\ AuditInv)
  BY TypeCorrect, AuditInvInit, AuditInvInductive, PTL DEF Spec
<1> QED BY <1>1, <1>2, PTL

----------------------------------------------------------------------------
(* No proof is lost: the safety half of AcceptedProofYieldsToken *)

\* A challenge was taken out of the map by a task that is about to issue its token,
\* or that did.
Taken(c) ==
  \/ \E g \in Handler : pc[g] = "issue" /\ req[g].challenge = c
  \/ \E t \in tokens : t.challenge = c

\* While a login works on its clone of the record, the challenge is there for it, or
\* it yields a token for another login.
NoProofIsLost ==
  config.issuer =>
    \A h \in Handler :
      pc[h] \in {"check", "verify", "consume"} =>
        req[h].challenge \in challenges \/ Taken(req[h].challenge)

\* A step that takes no challenge away, and no task from issue, loses no proof of a
\* task that was at work before.
LEMMA ProofsKept ==
  ASSUME NoProofIsLost, challenges \subseteq challenges', tokens' = tokens, config' = config,
         \A g \in Handler :
           /\ pc[g] = "issue" => pc'[g] = "issue" /\ req'[g] = req[g]
           /\ pc'[g] \in {"check", "verify", "consume"} =>
                /\ req'[g] = req[g]
                /\ pc[g] \in {"check", "verify", "consume"} \/ req[g].challenge \in challenges
  PROVE  NoProofIsLost'
<1>1. \A c : Taken(c) => Taken(c)'
  BY DEF Taken
<1>2. ASSUME config.issuer, NEW h \in Handler, pc'[h] \in {"check", "verify", "consume"}
      PROVE  /\ req'[h] = req[h]
             /\ req[h].challenge \in challenges \/ Taken(req[h].challenge)
  BY <1>2 DEF NoProofIsLost
<1>3. ASSUME config.issuer, NEW h \in Handler, pc'[h] \in {"check", "verify", "consume"}
      PROVE  (req[h].challenge \in challenges \/ Taken(req[h].challenge))'
  <2> DEFINE c == req[h].challenge
  <2>1. c' = c /\ (c \in challenges \/ Taken(c))
    BY <1>2, <1>3
  <2> QED BY <1>1, <2>1
<1> QED BY <1>3 DEF NoProofIsLost

LEMMA NoProofIsLostInductive == TypeOK /\ NoProofIsLost /\ [Next]_vars => NoProofIsLost'
<1> SUFFICES ASSUME TypeOK, NoProofIsLost, [Next]_vars
             PROVE  NoProofIsLost'
  OBVIOUS
<1>1. ASSUME NEW h \in Handler, NEW c \in Challenge, NEW i \in Identity,
             ServeChallenge(h, c, i)
      PROVE  NoProofIsLost'
  BY <1>1, ProofsKept DEF TypeOK, ServeChallenge, Answer
<1>2. ASSUME NEW h \in Handler, NEW r \in Requests, ReceiveLogin(h, r)
      PROVE  NoProofIsLost'
  BY <1>2, ProofsKept DEF TypeOK, ReceiveLogin, Proceed, Goto, Answer
<1>3. ASSUME NEW h \in Handler, Lookup(h) PROVE NoProofIsLost'
  BY <1>3, ProofsKept DEF TypeOK, Lookup, Proceed, Goto, Answer
<1>4. ASSUME NEW h \in Handler, CheckRecord(h) PROVE NoProofIsLost'
  BY <1>4, ProofsKept DEF TypeOK, CheckRecord, Proceed, Goto, Answer
<1>5. ASSUME NEW h \in Handler, VerifyProof(h) PROVE NoProofIsLost'
  BY <1>5, ProofsKept DEF TypeOK, VerifyProof, Proceed, Goto, Answer
<1>6. ASSUME NEW h \in Handler, Consume(h) PROVE NoProofIsLost'
  <2>1. CASE Removed(h)
    <3>1. /\ pc[h] = "consume" /\ pc' = [pc EXCEPT ![h] = "issue"]
          /\ challenges' = challenges \ {req[h].challenge}
          /\ UNCHANGED <<config, req, tokens>>
      BY <1>6, <2>1 DEF Consume, Proceed, Goto
    <3>2. Taken(req[h].challenge)'
      <4>1. pc'[h] = "issue" /\ req' = req
        BY <3>1 DEF TypeOK
      <4> QED BY <4>1 DEF Taken
    <3>3. \A c : Taken(c) => Taken(c)'
      BY <3>1 DEF TypeOK, Taken
    <3>4. \A g \in Handler : pc'[g] \in {"check", "verify", "consume"} =>
                              pc[g] \in {"check", "verify", "consume"}
      BY <3>1 DEF TypeOK
    <3> QED BY <3>1, <3>2, <3>3, <3>4 DEF NoProofIsLost
  <2>2. CASE ~Removed(h)
    <3>1. /\ pc[h] = "consume" /\ pc' = [pc EXCEPT ![h] = "audit"]
          /\ challenges' = challenges
          /\ UNCHANGED <<config, req, tokens>>
      BY <1>6, <2>2 DEF Consume, Proceed, Answer, Removed
    <3> QED BY <3>1, ProofsKept DEF TypeOK
  <2> QED BY <2>1, <2>2
<1>7. ASSUME NEW h \in Handler, IssueToken(h) PROVE NoProofIsLost'
  <2>1. CASE config.issuer
    <3>1. /\ pc[h] = "issue" /\ pc' = [pc EXCEPT ![h] = "audit"]
          /\ tokens' = tokens \cup {NewToken(h)} /\ NewToken(h).challenge = req[h].challenge
          /\ UNCHANGED <<challenges, config, req>>
      BY <1>7, <2>1 DEF IssueToken, Answer, NewToken
    <3>2. \A c : Taken(c) => Taken(c)'
      BY <3>1 DEF TypeOK, Taken
    <3>3. \A g \in Handler : pc'[g] \in {"check", "verify", "consume"} =>
                              pc[g] \in {"check", "verify", "consume"}
      BY <3>1 DEF TypeOK
    <3> QED BY <3>1, <3>2, <3>3 DEF NoProofIsLost
  <2>2. CASE ~config.issuer
    BY <1>7, <2>2 DEF IssueToken, NoProofIsLost
  <2> QED BY <2>1, <2>2
<1>8. ASSUME NEW h \in Handler, WriteAudit(h) PROVE NoProofIsLost'
  BY <1>8, ProofsKept DEF TypeOK, WriteAudit
<1>9. CASE Tick
  BY <1>9, ProofsKept DEF Tick
<1>10. CASE Restart
  BY <1>10 DEF Restart, NoProofIsLost
<1>11. CASE UNCHANGED vars
  BY <1>11, ProofsKept DEF vars
<1> QED
  BY <1>1, <1>2, <1>3, <1>4, <1>5, <1>6, <1>7, <1>8, <1>9, <1>10, <1>11
     DEF Next, HandlerStep

\* On a server with an issuer no verified proof is refused without cause: of the
\* logins that found the challenge in the map one takes it and gets its token, however
\* their lock sections overlap.
THEOREM ProofsAreNotLost == Spec => []NoProofIsLost
<1>1. Init => NoProofIsLost
  BY DEF Init, NoProofIsLost
<1> QED BY <1>1, TypeCorrect, NoProofIsLostInductive, PTL DEF Spec

============================================================================
