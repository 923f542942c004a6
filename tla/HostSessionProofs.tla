------------------------- MODULE HostSessionProofs -------------------------
(***************************************************************************)
(* What the two roundings of token.rs amount to, for every clock reading   *)
(* and every lifetime; and the safety of HostSession for any number of     *)
(* calls and sessions, any lifetime of the tokens, any number of restarts. *)
(***************************************************************************)
EXTENDS HostSession, TLAPS

USE TokenAssumption, SessionAssumption

----------------------------------------------------------------------------
(* The roundings *)

\* A clock reading is a word.
Word == 0..MaxWord

\* Rounding down and up, and comparing with whole seconds.
LEMMA FloorCeil ==
  ASSUME NEW m \in Nat
  PROVE  /\ Floor(m) \in Nat
         /\ Ceil(m) \in Nat
         /\ Floor(m) * Second <= m /\ m < Floor(m) * Second + Second
         /\ m <= Ceil(m) * Second /\ Ceil(m) * Second < m + Second
BY DEF Floor, Ceil, Second

LEMMA FloorMonotone ==
  ASSUME NEW m \in Nat, NEW n \in Nat, m <= n
  PROVE  Floor(m) <= Floor(n)
BY DEF Floor, Second

LEMMA SaturateWord ==
  ASSUME NEW n \in Nat
  PROVE  /\ Saturate(n) \in Word
         /\ Saturate(n) <= n
BY DEF Saturate, Word

\* An issued token is a token.
LEMMA IssueType ==
  ASSUME NEW s \in Subject, NEW t \in Nat, NEW k \in Nat
  PROVE  Issue(s, t, k) \in Token
<1>1. t + TokenTtl \in Nat
  OBVIOUS
<1>2. Saturate(t + TokenTtl) \in Nat
  BY <1>1, SaturateWord DEF Word
<1>3. Floor(t) \in Nat /\ Expiry(t) \in Nat
  BY <1>2, FloorCeil DEF Expiry
<1> QED
  BY <1>3 DEF Issue, Token

\* The server's comparison of whole seconds is a comparison with exp * 1000.
LEMMA SecondsSplit ==
  ASSUME NEW e \in Nat, NEW u \in Nat
  PROVE  e <= Floor(u) <=> e * Second <= u
<1>1. Floor(u) \in Nat /\ Floor(u) * Second <= u /\ u < Floor(u) * Second + Second
  BY FloorCeil
<1> QED
  BY <1>1 DEF Second

\* verify_at accepts a token its own issuer signed from the moment it was issued
\* until its lifetime is over: the roundings take nothing away from it.
THEOREM AcceptedForItsLifetime ==
  ASSUME NEW s \in Subject, NEW k \in Nat, NEW t \in Nat, NEW u \in Nat,
         t <= u, u < t + TokenTtl, u < MaxWord
  PROVE  Verify(Issue(s, t, k), k, u) = "ok"
<1> DEFINE e == Saturate(t + TokenTtl)
<1>1. e \in Nat /\ u < e
  BY DEF Saturate
<1>2. Ceil(e) \in Nat /\ e <= Ceil(e) * Second
  BY <1>1, FloorCeil
<1>3. ~(Ceil(e) * Second <= u)
  BY <1>1, <1>2 DEF Second
<1>4. ~(Ceil(e) <= Floor(u))
  BY <1>2, <1>3, SecondsSplit
<1>5. Floor(t) <= Floor(u) /\ Floor(t) \in Nat /\ Floor(u) \in Nat
  BY FloorMonotone, FloorCeil
<1>6. Expiry(t) = Ceil(e)
  BY DEF Expiry
<1> QED
  BY <1>4, <1>5, <1>6 DEF Verify, Issue

\* It refuses the token no later than a second after its lifetime.
THEOREM RefusedAfterItsLifetime ==
  ASSUME NEW s \in Subject, NEW k \in Nat, NEW t \in Nat, NEW u \in Nat,
         t + TokenTtl + Second <= u
  PROVE  Verify(Issue(s, t, k), k, u) = "Expired"
<1> DEFINE e == Saturate(t + TokenTtl)
<1>1. e \in Nat /\ e <= t + TokenTtl
  BY SaturateWord DEF Word
<1>2. Ceil(e) \in Nat /\ Ceil(e) * Second < e + Second
  BY <1>1, FloorCeil
<1>3. Ceil(e) * Second <= u
  BY <1>1, <1>2 DEF Second
<1>4. Ceil(e) <= Floor(u)
  BY <1>2, <1>3, SecondsSplit
<1>5. Expiry(t) = Ceil(e)
  BY DEF Expiry
<1> QED
  BY <1>4, <1>5 DEF Verify, Issue

\* Client and server agree on expiry at every moment short of the last word: the
\* client compares milliseconds, the server seconds.
THEOREM ClientAgrees ==
  ASSUME NEW token \in Token, NEW u \in Nat, u < MaxWord
  PROVE  ExpiredFor(token, u, 0) <=> Verify(token, token.secret, u) = "Expired"
<1>1. token.exp \in Nat /\ token.exp * Second \in Nat
  BY DEF Token, Second
<1>2. token.exp <= Floor(u) <=> token.exp * Second <= u
  BY <1>1, SecondsSplit
<1>3. Saturate(u + 0) = u
  BY DEF Saturate
<1>4. Saturate(token.exp * Second) <= u <=> token.exp * Second <= u
  BY <1>1 DEF Saturate
<1>5. Verify(token, token.secret, u) = "Expired" <=> token.exp <= Floor(u)
  BY DEF Verify
<1> QED
  BY <1>2, <1>3, <1>4, <1>5 DEF ExpiredFor, ExpiresAtMs

\* A token the client took with a margin is not expired for the server as long as
\* the request takes no longer than that margin.
THEOREM MarginCoversTransit ==
  ASSUME NEW token \in Token, NEW t \in Nat, NEW margin \in Nat, NEW u \in Nat,
         ~ExpiredFor(token, t, margin), u <= t + margin, u < MaxWord
  PROVE  Verify(token, token.secret, u) # "Expired"
<1>1. token.exp \in Nat /\ token.exp * Second \in Nat
  BY DEF Token, Second
<1>2. u < Saturate(token.exp * Second)
  <2>1. u <= Saturate(t + margin)
    BY DEF Saturate
  <2>2. Saturate(t + margin) < Saturate(token.exp * Second)
    BY <1>1 DEF ExpiredFor, ExpiresAtMs, Saturate
  <2> QED
    BY <1>1, <2>1, <2>2 DEF Saturate
<1>3. ~(token.exp * Second <= u)
  BY <1>1, <1>2 DEF Saturate
<1>4. ~(token.exp <= Floor(u))
  BY <1>1, <1>3, SecondsSplit
<1> QED
  BY <1>4 DEF Verify

----------------------------------------------------------------------------
(* The inductive invariant *)

\* What a call holds belongs to it, was issued already, and was good for the
\* margin at the moment it was chosen.
HeldInv(c) ==
  held[c] # NoToken =>
    /\ held[c].subject = who[c]
    /\ held[c].iat <= Floor(now)
    /\ chosenAt[c] <= now
    /\ ~ExpiredFor(held[c], chosenAt[c], Margin)

\* What the cache holds for a session belongs to it and was issued already.
CacheInv(s) ==
  cache[s] # NoToken =>
    /\ cache[s].subject = s
    /\ cache[s].iat <= Floor(now)

\* Where a call is tells what it holds, what is on its line, and whether the
\* business route has acted for it.
CallInv(c) ==
  /\ pc[c] \in {"insert", "send", "reply"} => held[c] # NoToken
  /\ line[c] # "none" => held[c] # NoToken
  /\ pc[c] \in {"send", "reply"} => stage[c] # "login"
  /\ pc[c] \notin {"reply", "done"} => line[c] = "none"
  /\ pc[c] # "done" => answer[c] = "none"
  /\ answer[c] \in {"ok", "refused"} => line[c] = "none"
  /\ stage[c] # "order" => effects[c] = 0
  /\ pc[c] \notin {"reply", "done"} => effects[c] = 0
  /\ line[c] \in {"pending", "refused"} => effects[c] = 0
  /\ stage[c] = "order" /\ line[c] = "accepted" => effects[c] = 1
  /\ effects[c] <= 1
  /\ answer[c] = "ok" => effects[c] = 1
  /\ answer[c] = "refused" => effects[c] = 0

IInv ==
  /\ TypeOK
  /\ now <= MaxTime
  /\ RefusedForAReason
  /\ \A s \in Subject : CacheInv(s)
  /\ \A c \in Call : HeldInv(c) /\ CallInv(c)

----------------------------------------------------------------------------
(* Tokens and the clock *)

LEMMA FloorType == ASSUME NEW t \in Nat PROVE Floor(t) \in Nat
BY FloorCeil

\* A token that was just issued is good for the margin of the host.
LEMMA IssuedIsFresh ==
  ASSUME NEW s \in Subject, NEW t \in Nat, NEW k \in Nat, t <= MaxTime
  PROVE  ~ExpiredFor(Issue(s, t, k), t, Margin)
<1> DEFINE e == Expiry(t)
<1>1. e \in Nat /\ Saturate(t + TokenTtl) <= e * Second
  <2>1. t + TokenTtl \in Nat
    OBVIOUS
  <2>2. Saturate(t + TokenTtl) \in Nat
    BY <2>1, SaturateWord DEF Word
  <2> QED
    BY <2>2, FloorCeil DEF Expiry
<1>2. e * Second \in Nat
  BY <1>1 DEF Second
<1>3. t + Margin < Saturate(t + TokenTtl)
  BY DEF Saturate, Margin
<1>4. t + Margin < Saturate(e * Second)
  BY <1>1, <1>2, <1>3 DEF Saturate, Margin
<1>5. Saturate(t + Margin) = t + Margin
  BY DEF Saturate, Margin
<1>6. Saturate(e * Second) \in Nat
  BY <1>2, SaturateWord DEF Word
<1> QED
  BY <1>4, <1>5, <1>6 DEF ExpiredFor, ExpiresAtMs, Issue, Margin

\* A server refuses its own token only after the margin.
LEMMA RefusalTakesTime ==
  ASSUME NEW token \in Token, NEW t \in Nat, NEW u \in Nat, u <= MaxTime,
         ~ExpiredFor(token, t, Margin), token.iat <= Floor(u),
         Verify(token, token.secret, u) # "ok"
  PROVE  u > t + Margin
<1>1. token.iat \in Nat /\ Floor(u) \in Nat /\ Margin \in Nat /\ u < MaxWord
  BY FloorType DEF Token, Margin
<1>2. Verify(token, token.secret, u) = "Expired"
  BY <1>1 DEF Verify
<1>3. ~(u <= t + Margin)
  BY <1>1, <1>2, MarginCoversTransit
<1> QED
  BY <1>1, <1>3

----------------------------------------------------------------------------
(* Types *)

LEMMA MarginType == Margin \in Nat
BY DEF Margin

LEMMA TypeInit == Init => TypeOK
<1>1. Step \div 3 \in Nat
  OBVIOUS
<1> QED
  BY <1>1 DEF Init, TypeOK, Places, Stages, Lines, Answers, Secrets

LEMMA TypeInductive == IInv /\ [Next]_vars => TypeOK'
<1> SUFFICES ASSUME IInv, [Next]_vars
             PROVE  TypeOK'
  OBVIOUS
<1> USE DEF IInv, TypeOK, Places, Stages, Lines, Answers, Goto, End, Proceed
<1>1. ASSUME NEW c \in Call, Lookup(c) PROVE TypeOK'
  BY <1>1 DEF Lookup, Slot
<1>2. ASSUME NEW c \in Call, RequestChallenge(c) PROVE TypeOK'
  BY <1>2 DEF RequestChallenge
<1>3. ASSUME NEW c \in Call, RequestLogin(c) PROVE TypeOK'
  <2>1. Issue(who[c], now, secret) \in Token
    BY IssueType DEF Secrets
  <2> QED
    BY <1>3, <2>1 DEF RequestLogin
<1>4. ASSUME NEW c \in Call, Insert(c) PROVE TypeOK'
  BY <1>4 DEF Insert, Slot
<1>5. ASSUME NEW c \in Call, Fail(c) PROVE TypeOK'
  BY <1>5 DEF Fail
<1>6. ASSUME NEW c \in Call, Send(c) PROVE TypeOK'
  BY <1>6 DEF Send
<1>7. ASSUME NEW c \in Call, Reply(c) PROVE TypeOK'
  BY <1>7 DEF Reply
<1>8. ASSUME NEW c \in Call, GiveUp(c) PROVE TypeOK'
  BY <1>8 DEF GiveUp
<1>9. ASSUME NEW c \in Call, Serve(c) PROVE TypeOK'
  BY <1>9 DEF Serve, Refusal, CallInv
<1>10. ASSUME NEW s \in Secrets, Restart(s) PROVE TypeOK'
  BY <1>10 DEF Restart, Secrets
<1>11. CASE Tick
  BY <1>11 DEF Tick
<1>12. CASE UNCHANGED vars
  BY <1>12 DEF vars
<1>13. ASSUME NEW c \in Call, Overlook(c) PROVE TypeOK'
  BY <1>13 DEF Overlook
<1> QED
  BY <1>1, <1>2, <1>3, <1>4, <1>5, <1>6, <1>7, <1>8, <1>9, <1>10, <1>11, <1>12, <1>13
  DEF Next, CallStep

----------------------------------------------------------------------------
(* Every step keeps the invariant *)

LEMMA CallInductive == IInv /\ [Next]_vars => \A c \in Call : CallInv(c)'
<1> SUFFICES ASSUME IInv, [Next]_vars
             PROVE  \A c \in Call : CallInv(c)'
  OBVIOUS
<1> USE NoTokenAssumption
    DEF IInv, TypeOK, CallInv, Places, Stages, Lines, Answers, Goto, End, Proceed
<1>1. ASSUME NEW c \in Call, Lookup(c), NEW d \in Call PROVE CallInv(d)'
  BY <1>1 DEF Lookup, Slot
<1>2. ASSUME NEW c \in Call, RequestChallenge(c), NEW d \in Call PROVE CallInv(d)'
  BY <1>2 DEF RequestChallenge
<1>3. ASSUME NEW c \in Call, RequestLogin(c), NEW d \in Call PROVE CallInv(d)'
  <2>1. Issue(who[c], now, secret) # NoToken
    BY IssueType DEF Secrets
  <2> QED
    BY <1>3, <2>1 DEF RequestLogin
<1>4. ASSUME NEW c \in Call, Insert(c), NEW d \in Call PROVE CallInv(d)'
  BY <1>4 DEF Insert, Slot
<1>5. ASSUME NEW c \in Call, Fail(c), NEW d \in Call PROVE CallInv(d)'
  BY <1>5 DEF Fail
<1>6. ASSUME NEW c \in Call, Send(c), NEW d \in Call PROVE CallInv(d)'
  BY <1>6 DEF Send
<1>7. ASSUME NEW c \in Call, Reply(c), NEW d \in Call PROVE CallInv(d)'
  BY <1>7 DEF Reply
<1>8. ASSUME NEW c \in Call, GiveUp(c), NEW d \in Call PROVE CallInv(d)'
  BY <1>8 DEF GiveUp
<1>9. ASSUME NEW c \in Call, Serve(c), NEW d \in Call PROVE CallInv(d)'
  BY <1>9 DEF Serve
<1>10. ASSUME NEW s \in Secrets, Restart(s), NEW d \in Call PROVE CallInv(d)'
  BY <1>10 DEF Restart
<1>11. ASSUME Tick \/ UNCHANGED vars, NEW d \in Call PROVE CallInv(d)'
  BY <1>11 DEF Tick, vars
<1>12. ASSUME NEW c \in Call, Overlook(c), NEW d \in Call PROVE CallInv(d)'
  BY <1>12 DEF Overlook
<1> QED
  BY <1>1, <1>2, <1>3, <1>4, <1>5, <1>6, <1>7, <1>8, <1>9, <1>10, <1>11, <1>12
  DEF Next, CallStep

\* Time never takes an issued token back.
LEMMA ClockOnlyAdvances ==
  ASSUME TypeOK, [Next]_vars
  PROVE  /\ now <= now'
         /\ now' <= MaxTime \/ now' = now
         /\ \A n \in Nat : n <= Floor(now) => n <= Floor(now')
         /\ who' = who
<1>1. /\ now' = now \/ (now' = now + Step /\ now + Step <= MaxTime)
      /\ who' = who
  BY DEF Next, CallStep, Lookup, RequestChallenge, RequestLogin, Insert, Fail, Send,
     Reply, GiveUp, Overlook, Serve, Restart, Tick, vars
<1>2. now \in Nat /\ now' \in Nat /\ now <= now'
  BY <1>1 DEF TypeOK
<1>3. Floor(now) \in Nat /\ Floor(now') \in Nat /\ Floor(now) <= Floor(now')
  BY <1>2, FloorType, FloorMonotone
<1> QED
  BY <1>1, <1>2, <1>3

\* What a call holds comes from the cache, where it was just found good, or
\* from the server, which just issued it.
LEMMA HeldInductive == IInv /\ [Next]_vars => \A c \in Call : HeldInv(c)'
<1> SUFFICES ASSUME IInv, [Next]_vars, NEW d \in Call
             PROVE  HeldInv(d)'
  OBVIOUS
<1>1. /\ now <= now'
      /\ \A n \in Nat : n <= Floor(now) => n <= Floor(now')
      /\ who' = who
      /\ now \in Nat
  BY ClockOnlyAdvances DEF IInv, TypeOK
<1>2. CASE held'[d] = held[d] /\ chosenAt'[d] = chosenAt[d] /\ now' \in Nat
  <2>1. held[d] # NoToken => held[d].iat \in Nat
    BY DEF IInv, TypeOK, Token
  <2>2. HeldInv(d) /\ chosenAt[d] \in Nat
    BY DEF IInv, TypeOK
  <2> QED
    BY <1>1, <1>2, <2>1, <2>2 DEF HeldInv, ExpiredFor, ExpiresAtMs
<1>3. ASSUME Lookup(d), held'[d] # held[d] \/ chosenAt'[d] # chosenAt[d]
      PROVE  HeldInv(d)'
  <2>1. /\ held'[d] = cache[who[d]] /\ cache[who[d]] # NoToken
        /\ ~ExpiredFor(cache[who[d]], now, Margin)
        /\ chosenAt'[d] = now /\ now' = now
    BY <1>3 DEF Lookup, IsExpired, Slot, IInv, TypeOK
  <2>2. CacheInv(who[d]) /\ who[d] \in Subject
    BY DEF IInv, TypeOK
  <2> QED
    BY <1>1, <2>1, <2>2 DEF HeldInv, CacheInv, ExpiredFor, ExpiresAtMs
<1>4. ASSUME RequestLogin(d), held'[d] # held[d] \/ chosenAt'[d] # chosenAt[d]
      PROVE  HeldInv(d)'
  <2>1. /\ held'[d] = Issue(who[d], now, secret)
        /\ chosenAt'[d] = now /\ now' = now
    BY <1>4 DEF RequestLogin, IInv, TypeOK
  <2>2. ~ExpiredFor(Issue(who[d], now, secret), now, Margin)
    BY IssuedIsFresh DEF IInv, TypeOK, Secrets
  <2>3. Floor(now) \in Nat
    BY <1>1, FloorType
  <2> QED
    BY <1>1, <2>1, <2>2, <2>3 DEF HeldInv, Issue, ExpiredFor, ExpiresAtMs
<1>5. CASE held'[d] = held[d] /\ chosenAt'[d] = chosenAt[d]
  BY <1>2, <1>5, TypeInductive DEF TypeOK
<1>6. CASE held'[d] # held[d] \/ chosenAt'[d] # chosenAt[d]
  <2>1. Lookup(d) \/ RequestLogin(d)
    BY <1>6 DEF Next, CallStep, Lookup, RequestChallenge, RequestLogin, Insert, Fail,
       Send, Reply, GiveUp, Overlook, Serve, Restart, Tick, vars, IInv, TypeOK
  <2> QED
    BY <1>3, <1>4, <1>6, <2>1
<1> QED
  BY <1>5, <1>6

\* The cache receives what its own call holds.
LEMMA CacheInductive == IInv /\ [Next]_vars => \A s \in Subject : CacheInv(s)'
<1> SUFFICES ASSUME IInv, [Next]_vars, NEW s \in Subject
             PROVE  CacheInv(s)'
  OBVIOUS
<1>1. \A n \in Nat : n <= Floor(now) => n <= Floor(now')
  BY ClockOnlyAdvances DEF IInv
<1>2. CASE cache'[s] = cache[s]
  <2>1. cache[s] # NoToken => cache[s].iat \in Nat
    BY DEF IInv, TypeOK, Token
  <2> QED
    BY <1>1, <1>2, <2>1 DEF IInv, CacheInv
<1>3. CASE cache'[s] # cache[s]
  <2>1. PICK c \in Call : Insert(c)
    BY <1>3 DEF Next, CallStep, Lookup, RequestChallenge, RequestLogin, Insert, Fail,
       Send, Reply, GiveUp, Overlook, Serve, Restart, Tick, vars
  <2>2. s = who[c] /\ cache'[s] = held[c] /\ now' = now
    BY <1>3, <2>1 DEF Insert, Slot, IInv, TypeOK
  <2>3. HeldInv(c)
    BY DEF IInv
  <2> QED
    BY <2>2, <2>3 DEF HeldInv, CacheInv, Floor
<1> QED
  BY <1>2, <1>3

\* A refusal is of what the call holds.
LEMMA RefusedInductive == IInv /\ [Next]_vars => RefusedForAReason'
<1> SUFFICES ASSUME IInv, [Next]_vars
             PROVE  RefusedForAReason'
  OBVIOUS
<1>1. CASE refused' = refused
  BY <1>1 DEF IInv, RefusedForAReason
<1>2. CASE refused' # refused
  <2>1. PICK c \in Call : Serve(c)
    BY <1>2 DEF Next, CallStep, Lookup, RequestChallenge, RequestLogin, Insert, Fail,
       Send, Reply, GiveUp, Overlook, Serve, Restart, Tick, vars
  <2>2. /\ Verdict(c) # "ok"
        /\ line[c] = "pending"
        /\ refused' = refused \cup {[token |-> held[c], chosenAt |-> chosenAt[c],
                                     at |-> now, secret |-> secret]}
    BY <1>2, <2>1 DEF Serve
  <2>3. held[c] \in Token /\ HeldInv(c) /\ held[c] # NoToken /\ chosenAt[c] \in Nat
        /\ now \in Nat /\ now <= MaxTime
    BY <2>2, NoTokenAssumption DEF IInv, TypeOK, CallInv
  <2>4. held[c].secret = secret => now > chosenAt[c] + Margin
    BY <2>2, <2>3, RefusalTakesTime DEF HeldInv, Verdict
  <2> QED
    BY <2>2, <2>4 DEF IInv, RefusedForAReason
<1> QED
  BY <1>1, <1>2

----------------------------------------------------------------------------
(* How long a call can take *)

\* The steps a call has before it at most: what is left of its errand and, for
\* each errand after that, the six steps of one that has to log in.
StageRank == [login |-> 2, receipt |-> 1, order |-> 0]
PlaceRank == [lookup |-> 6, challenge |-> 5, login |-> 4, insert |-> 3, send |-> 2, reply |-> 1]

StepsLeft(c) ==
  IF pc[c] = "done" THEN 0 ELSE 6 * StageRank[stage[c]] + PlaceRank[pc[c]]

RunsDown ==
  \A c \in Call : /\ StepsLeft(c)' <= StepsLeft(c)
                  /\ CallStep(c) \/ Fail(c) => StepsLeft(c)' < StepsLeft(c)

\* A call only moves its own place and errand; server and clock move none.
LEMMA OthersStay ==
  ASSUME TypeOK, [Next]_vars, NEW c \in Call, ~CallStep(c), ~Fail(c)
  PROVE  pc'[c] = pc[c] /\ stage'[c] = stage[c]
BY DEF TypeOK, Next, CallStep, Lookup, RequestChallenge, RequestLogin, Insert, Fail,
   Send, Reply, GiveUp, Overlook, Serve, Restart, Tick, vars, Goto, End, Proceed

LEMMA OwnStepsRunDown ==
  ASSUME IInv, NEW c \in Call, CallStep(c) \/ Fail(c)
  PROVE  StepsLeft(c)' < StepsLeft(c)
<1> USE DEF IInv, TypeOK, CallInv, Stages, Places, StepsLeft, StageRank, PlaceRank,
            Goto, End, Proceed
<1>1. CASE Lookup(c)
  BY <1>1 DEF Lookup
<1>2. CASE RequestChallenge(c)
  BY <1>2 DEF RequestChallenge
<1>3. CASE RequestLogin(c)
  BY <1>3 DEF RequestLogin
<1>4. CASE Insert(c)
  BY <1>4 DEF Insert
<1>5. CASE Fail(c)
  BY <1>5 DEF Fail
<1>6. CASE Send(c)
  BY <1>6 DEF Send
<1>7. CASE Reply(c)
  BY <1>7 DEF Reply
<1>8. CASE GiveUp(c)
  BY <1>8 DEF GiveUp
<1>9. CASE Overlook(c)
  BY <1>9 DEF Overlook
<1> QED
  BY <1>1, <1>2, <1>3, <1>4, <1>5, <1>6, <1>7, <1>8, <1>9 DEF CallStep

----------------------------------------------------------------------------
(* The theorems *)

LEMMA IInvInit == Init => IInv
BY TypeInit, NoTokenAssumption
DEF Init, IInv, RefusedForAReason, CacheInv, HeldInv, CallInv

LEMMA IInvInductive == IInv /\ [Next]_vars => IInv'
BY TypeInductive, CallInductive, HeldInductive, CacheInductive, RefusedInductive,
   ClockOnlyAdvances DEF IInv

LEMMA IInvHolds == Spec => []IInv
BY IInvInit, IInvInductive, PTL DEF Spec

\* Every reachable state has its types.
THEOREM TypeCorrect == Spec => []TypeOK
<1>1. IInv => TypeOK
  BY DEF IInv
<1> QED
  BY <1>1, IInvHolds, PTL

\* A call acts with a token of its own subject, whatever the calls that share
\* the cache with it do between its looking and its inserting.
THEOREM TokensAreOwn == Spec => []OwnToken
<1>1. IInv => OwnToken
  BY DEF IInv, OwnToken, HeldInv, CacheInv
<1> QED
  BY <1>1, IInvHolds, PTL

\* A server refuses a token only if another secret signed it or the request
\* took longer than the margin.
THEOREM RefusalsHaveReasons == Spec => []RefusedForAReason
<1>1. IInv => RefusedForAReason
  BY DEF IInv
<1> QED
  BY <1>1, IInvHolds, PTL

\* A call that succeeded acted once, a refused one never, and none twice.
THEOREM AnswersAreTrue == Spec => []AnswersTellEffect
<1>1. IInv => AnswersTellEffect
  BY DEF IInv, AnswersTellEffect, CallInv
<1> QED
  BY <1>1, IInvHolds, PTL

\* A call takes at most eighteen steps, whatever the server, the clock and the
\* other calls do: no errand is done twice, and no request is sent again after it
\* was given up (there is no retry in api_vm.rs).
THEOREM CallsRunDown == Spec => [][RunsDown]_vars
<1>1. ASSUME IInv, [Next]_vars PROVE RunsDown
  <2> SUFFICES ASSUME NEW c \in Call
               PROVE  /\ StepsLeft(c)' <= StepsLeft(c)
                      /\ CallStep(c) \/ Fail(c) => StepsLeft(c)' < StepsLeft(c)
    BY DEF RunsDown
  <2>1. StepsLeft(c) \in Nat /\ StepsLeft(c)' \in Nat
    BY <1>1, TypeInductive DEF IInv, TypeOK, Stages, Places, StepsLeft, StageRank, PlaceRank
  <2>2. CASE CallStep(c) \/ Fail(c)
    BY <1>1, <2>1, <2>2, OwnStepsRunDown
  <2>3. CASE ~CallStep(c) /\ ~Fail(c)
    BY <1>1, <2>1, <2>3, OthersStay DEF IInv, StepsLeft
  <2> QED
    BY <2>2, <2>3
<1> QED
  BY <1>1, IInvHolds, IInvInductive, PTL DEF Spec

============================================================================
