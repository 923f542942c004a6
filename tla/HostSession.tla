---------------------------- MODULE HostSession ----------------------------
(***************************************************************************)
(* How the host of a Skill logs in for it (crates/js-runtime-quickjs,      *)
(* api_vm.rs) and how a remote call of examples/coffee-skill uses that:    *)
(* wx.login, then POST /api/login, then the request of the business route. *)
(* Each of the three asks ensure_login for a token; the last two send it.  *)
(*                                                                         *)
(* The calls share the host's token cache.  Its lock is held while one     *)
(* looks and while one inserts, not in between.  A request that was sent   *)
(* may be served although its sender has given up, and a restart of the    *)
(* server breaks the connections, forgets the challenges and may come with *)
(* another secret; tokens already handed out stay where they are.          *)
(***************************************************************************)
EXTENDS CapabilityToken

CONSTANTS
  Call,         \* the API calls; each runs once
  Step,         \* the clock advances by Step milliseconds
  MaxTime,      \* bound: the clock stops here
  MaxSecret     \* bound: how often the server comes back with a new secret

ASSUME SessionAssumption ==
  /\ Step \in Nat \ {0}
  /\ MaxTime \in Nat
  /\ Step <= MaxTime
  /\ MaxSecret \in Nat
  /\ MaxTime + 5000 < MaxWord   \* the clock is far from its end
  /\ 5000 < TokenTtl            \* a token outlives the margin of the host

VARIABLES
  now,          \* the clock; host and server share it (only loopback URLs)
  secret,       \* the secret the server signs and verifies with
  challenges,   \* the calls whose challenge the server knows
  cache,        \* token_cache of HostDidAuthConfig
  pc,           \* where each call is
  stage,        \* which of its three errands it is on
  who,          \* the subject of the call: its AuthSessionKey
  held,         \* the token ensure_login returned
  line,         \* the call's connection to the server
  answer,       \* what the call returned
  chosenAt,     \* history: when held was taken from the cache or issued
  refused,      \* history: the requests that the server refused
  effects       \* history: how often the business route acted for the call

vars == <<now, secret, challenges, cache, pc, stage, who, held, line, answer,
          chosenAt, refused, effects>>

Stages == {"login", "receipt", "order"}
Places == {"lookup", "challenge", "login", "insert", "send", "reply", "done"}
Lines == {"none", "pending", "accepted", "refused", "broken"}
Answers == {"none", "ok", "refused", "failed"}

Secrets == 0 .. MaxSecret

Refusal == [token : Token, chosenAt : Nat, at : Nat, secret : Secrets]

TypeOK ==
  /\ now \in Nat
  /\ secret \in Secrets
  /\ challenges \subseteq Call
  /\ cache \in [Subject -> Token \cup {NoToken}]
  /\ pc \in [Call -> Places]
  /\ stage \in [Call -> Stages]
  /\ who \in [Call -> Subject]
  /\ held \in [Call -> Token \cup {NoToken}]
  /\ line \in [Call -> Lines]
  /\ answer \in [Call -> Answers]
  /\ chosenAt \in [Call -> Nat]
  /\ refused \subseteq Refusal
  /\ effects \in [Call -> Nat]

\* The runtime starts with an empty cache; every call is about to begin.
Init ==
  /\ now = Step \div 3
  /\ secret = 0
  /\ challenges = {}
  /\ cache = [s \in Subject |-> NoToken]
  /\ pc = [c \in Call |-> "lookup"]
  /\ stage = [c \in Call |-> "login"]
  /\ who \in [Call -> Subject]
  /\ held = [c \in Call |-> NoToken]
  /\ line = [c \in Call |-> "none"]
  /\ answer = [c \in Call |-> "none"]
  /\ chosenAt = [c \in Call |-> 0]
  /\ refused = {}
  /\ effects = [c \in Call |-> 0]

Goto(c, place) == pc' = [pc EXCEPT ![c] = place]

End(c, result) == Goto(c, "done") /\ answer' = [answer EXCEPT ![c] = result]

----------------------------------------------------------------------------
(* ensure_login *)

\* Milliseconds a cached token must still have.
Margin == 5000

IsExpiredNow(token) == ExpiredFor(token, now, 0)

\* is_expired
IsExpired(token) == ExpiredFor(token, now, Margin)

SlotOfServer(s) == CHOOSE any \in Subject : TRUE

\* The cache is keyed by all of the subject.
Slot(s) == s

\* What follows ensure_login: wx.login is done, a request is sent.
Proceed(c) ==
  IF stage[c] = "login"
    THEN /\ Goto(c, "lookup")
         /\ stage' = [stage EXCEPT ![c] = "receipt"]
    ELSE /\ Goto(c, "send")
         /\ UNCHANGED stage

Lookup(c) ==
  LET cached == cache[Slot(who[c])] IN
  /\ pc[c] = "lookup"
  /\ IF cached # NoToken /\ ~IsExpired(cached)
       THEN /\ held' = [held EXCEPT ![c] = cached]
            /\ chosenAt' = [chosenAt EXCEPT ![c] = now]
            /\ Proceed(c)
       ELSE /\ Goto(c, "challenge")
            /\ UNCHANGED <<stage, held, chosenAt>>
  /\ UNCHANGED <<now, secret, challenges, cache, who, line, answer, refused,
                 effects>>

\* perform_did_login, first request
RequestChallenge(c) ==
  /\ pc[c] = "challenge"
  /\ challenges' = challenges \cup {c}
  /\ Goto(c, "login")
  /\ UNCHANGED <<now, secret, cache, stage, who, held, line, answer, chosenAt,
                 refused, effects>>

\* perform_did_login, second request; DemoAuth has what the server checks.
RequestLogin(c) ==
  /\ pc[c] = "login"
  /\ challenges' = challenges \ {c}
  /\ IF c \in challenges
       THEN /\ held' = [held EXCEPT ![c] = Issue(who[c], now, secret)]
            /\ chosenAt' = [chosenAt EXCEPT ![c] = now]
            /\ Goto(c, "insert")
            /\ UNCHANGED answer
       ELSE /\ End(c, "failed")
            /\ UNCHANGED <<held, chosenAt>>
  /\ UNCHANGED <<now, secret, cache, stage, who, line, refused, effects>>

Insert(c) ==
  /\ pc[c] = "insert"
  /\ cache' = [cache EXCEPT ![Slot(who[c])] = held[c]]
  /\ Proceed(c)
  /\ UNCHANGED <<now, secret, challenges, who, held, line, answer, chosenAt,
                 refused, effects>>

\* Every error before a request is out: no DID configured, credentials that
\* cannot be read, no connection, an answer of the login that was lost.  At the
\* receipt such an error ends the call only as an interrupt of the runtime.
Fail(c) ==
  /\ pc[c] \in {"lookup", "challenge", "login", "send"}
  /\ End(c, "failed")
  /\ UNCHANGED <<now, secret, challenges, cache, stage, who, held, line, chosenAt,
                 refused, effects>>

----------------------------------------------------------------------------
(* host_request and http_request_url *)

Send(c) ==
  /\ pc[c] = "send"
  /\ line' = [line EXCEPT ![c] = "pending"]
  /\ Goto(c, "reply")
  /\ UNCHANGED <<now, secret, challenges, cache, stage, who, held, answer,
                 chosenAt, refused, effects>>

\* The answer arrived.  Nothing drops a refused token from the cache.
Reply(c) ==
  /\ pc[c] = "reply"
  /\ line[c] \in {"accepted", "refused"}
  /\ line' = [line EXCEPT ![c] = "none"]
  /\ IF line[c] = "refused"
       THEN End(c, "refused") /\ UNCHANGED stage
     ELSE IF stage[c] = "receipt"
       THEN /\ Goto(c, "lookup")
            /\ stage' = [stage EXCEPT ![c] = "order"]
            /\ UNCHANGED answer
     ELSE End(c, "ok") /\ UNCHANGED stage
  /\ UNCHANGED <<now, secret, challenges, cache, who, held, chosenAt, refused,
                 effects>>

GiveUpOnBroken(c) ==
  /\ pc[c] = "reply"
  /\ line[c] = "broken"
  /\ End(c, "failed")
  /\ UNCHANGED <<now, secret, challenges, cache, stage, who, held, line, chosenAt,
                 refused, effects>>

GiveUpAndSendAgain(c) ==
  /\ pc[c] = "reply"
  /\ Goto(c, "send")
  /\ UNCHANGED <<now, secret, challenges, cache, stage, who, held, line, answer,
                 chosenAt, refused, effects>>

\* The connection broke, nothing was read for five seconds, or the runtime
\* interrupted the Skill.
GiveUp(c) ==
  /\ pc[c] = "reply"
  /\ End(c, "failed")
  /\ UNCHANGED <<now, secret, challenges, cache, stage, who, held, line, chosenAt,
                 refused, effects>>

\* Any error of the request for the receipt, of its login too.  wx.request resolves
\* to a payload without a statusCode, login() of the Skill finds that neither below
\* 200 nor above 299, and goes on to the order.  What the server makes of the
\* request then is of no effect.
Overlook(c) ==
  /\ stage[c] = "receipt"
  /\ pc[c] \in {"lookup", "challenge", "login", "send", "reply"}
  /\ stage' = [stage EXCEPT ![c] = "order"]
  /\ line' = [line EXCEPT ![c] = "none"]
  /\ Goto(c, "lookup")
  /\ UNCHANGED <<now, secret, challenges, cache, who, held, answer, chosenAt, refused,
                 effects>>

----------------------------------------------------------------------------
(* The server, as far as these calls see it, and the clock *)

Verdict(c) ==
  IF held[c].subject # who[c] THEN "ScopeMismatch"
  ELSE Verify(held[c], secret, now)

Serve(c) ==
  /\ line[c] = "pending"
  /\ IF Verdict(c) = "ok"
       THEN /\ line' = [line EXCEPT ![c] = "accepted"]
            /\ effects' = IF stage[c] = "order"
                            THEN [effects EXCEPT ![c] = @ + 1] ELSE effects
            /\ UNCHANGED refused
       ELSE /\ line' = [line EXCEPT ![c] = "refused"]
            /\ refused' = refused \cup
                 {[token |-> held[c], chosenAt |-> chosenAt[c], at |-> now,
                   secret |-> secret]}
            /\ UNCHANGED effects
  /\ UNCHANGED <<now, secret, challenges, cache, pc, stage, who, held, answer,
                 chosenAt>>

Restart(newSecret) ==
  /\ newSecret \in {secret, secret + 1} \cap Secrets
  /\ secret' = newSecret
  /\ challenges' = {}
  /\ line' = [c \in Call |-> IF line[c] = "none" THEN "none" ELSE "broken"]
  /\ UNCHANGED <<now, cache, pc, stage, who, held, answer, chosenAt, refused,
                 effects>>

Tick ==
  /\ now + Step <= MaxTime
  /\ now' = now + Step
  /\ UNCHANGED <<secret, challenges, cache, pc, stage, who, held, line, answer,
                 chosenAt, refused, effects>>

CallStep(c) ==
  \/ Lookup(c) \/ RequestChallenge(c) \/ RequestLogin(c) \/ Insert(c)
  \/ Send(c) \/ Reply(c) \/ GiveUp(c) \/ Overlook(c)

Next ==
  \/ \E c \in Call : CallStep(c) \/ Fail(c) \/ Serve(c)
  \/ \E s \in Secrets : Restart(s)
  \/ Tick

\* The host runs a call on one thread, which never waits for ever: a socket
\* has a read time-out.  The server owes nothing.
Fairness == \A c \in Call : WF_vars(CallStep(c))

Spec == Init /\ [][Next]_vars /\ Fairness

----------------------------------------------------------------------------
(* Properties *)

\* A call acts with a token of its own subject, and the cache gives no call
\* the token of another one (AuthSessionKey in ensure_login, the checks of
\* /api/login): the same user's other session does not count either.
OwnToken ==
  /\ \A s \in Subject : cache[s] # NoToken => cache[s].subject = s
  /\ \A c \in Call : held[c] # NoToken => held[c].subject = who[c]

\* A server refuses a token for two reasons only: it has another secret than
\* the one that issued the token, or the request took longer than the margin
\* that is_expired leaves for it.
RefusedForAReason ==
  \A r \in refused : r.token.secret = r.secret => r.at > r.chosenAt + Margin

\* What the Skill's API learns: a success acted once, a refusal never, and a
\* failure at most once, whatever of it the server serves afterwards.
AnswersTellEffect ==
  \A c \in Call : /\ effects[c] <= 1
                  /\ answer[c] = "ok" => effects[c] = 1
                  /\ answer[c] = "refused" => effects[c] = 0

\* Every call ends, although the server may never answer it.
EveryCallEnds == \A c \in Call : <>(pc[c] = "done")

============================================================================
