----------------------------- MODULE AnpClient -----------------------------
(***************************************************************************)
(* The signed requests of crates/anp-adapter (signed_request.rs): a client *)
(* whose clones share one token cache (token.rs) prefers the cached token  *)
(* of its session, signs otherwise, answers a 401 by one signed retry, and *)
(* keeps the token that an answer brings.  Requests of the clones overlap  *)
(* between the lock sections of the cache.                                 *)
(*                                                                         *)
(* All of it is about one scope of the cache, that of the session.  The    *)
(* server is any server: it hands out a token once, and a token that it    *)
(* has given up stays refused.  Why it refuses is CapabilityToken's.       *)
(***************************************************************************)
EXTENDS Naturals

CONSTANTS
  Request,      \* the requests; each is made once
  MaxToken,     \* bound: tokens handed out
  NoToken       \* an empty cache; what a signed request carries

ASSUME ClientAssumption ==
  /\ MaxToken \in Nat
  /\ NoToken \notin 1 .. MaxToken

VARIABLES
  cache,        \* the token of the session
  pc,           \* where each request is
  bearer,       \* the token it carries, NoToken when it is signed
  sends,        \* how often it was sent
  reply,        \* what came back
  answer,       \* what the caller was answered
  issued,       \* how many tokens the server has handed out
  over,         \* the tokens past their expiry by the client's clock
  revoked,      \* the tokens that the server refuses
  effects,      \* how often the server has acted for each request
  rejected      \* history: the tokens whose 401 a request has dealt with

vars == <<cache, pc, bearer, sends, reply, answer, issued, over, revoked, effects,
          rejected>>

server == <<issued, revoked, effects>>

Token == 1 .. MaxToken
Statuses == {"ok", "error", "401"}
Reply == [status : Statuses \cup {"none"}, retry : BOOLEAN, token : Token \cup {NoToken}]
NoReply == [status |-> "none", retry |-> FALSE, token |-> NoToken]

TypeOK ==
  /\ cache \in Token \cup {NoToken}
  /\ pc \in [Request -> {"new", "sent", "answered", "store", "done"}]
  /\ bearer \in [Request -> Token \cup {NoToken}]
  /\ sends \in [Request -> 0 .. 2]
  /\ reply \in [Request -> Reply]
  /\ answer \in [Request -> Statuses \cup {"none", "denied", "unauthorized", "failed"}]
  /\ issued \in 0 .. MaxToken
  /\ over \subseteq Token
  /\ revoked \subseteq Token
  /\ effects \in [Request -> Nat]
  /\ rejected \subseteq Token

Init ==
  /\ cache = NoToken
  /\ pc = [q \in Request |-> "new"]
  /\ bearer = [q \in Request |-> NoToken]
  /\ sends = [q \in Request |-> 0]
  /\ reply = [q \in Request |-> NoReply]
  /\ answer = [q \in Request |-> "none"]
  /\ issued = 0
  /\ over = {}
  /\ revoked = {}
  /\ effects = [q \in Request |-> 0]
  /\ rejected = {}

Goto(q, place) == pc' = [pc EXCEPT ![q] = place]
End(q, code) == Goto(q, "done") /\ answer' = [answer EXCEPT ![q] = code]

----------------------------------------------------------------------------
(* request *)

\* Before anything is sent: the URL is not allowed, the body does not
\* serialize, or there is no token and the credential or signing fails.
Refuse(q, code) ==
  /\ pc[q] = "new"
  /\ IF code = "failed" THEN cache \in over \cup {NoToken} /\ cache' = NoToken
                        ELSE UNCHANGED cache
  /\ End(q, code)
  /\ UNCHANGED <<bearer, sends, reply, over, server, rejected>>

\* InMemoryTokenCache::get drops an expired token; then transport.send.
SendFirst(q) ==
  /\ pc[q] = "new"
  /\ cache' = IF cache \in over THEN NoToken ELSE cache
  /\ bearer' = [bearer EXCEPT ![q] = cache']
  /\ sends' = [sends EXCEPT ![q] = @ + 1]
  /\ Goto(q, "sent")
  /\ UNCHANGED <<reply, answer, over, server, rejected>>

\* transport.send fails: no answer came, or none that the client waited for.
TransportFails(q) ==
  /\ pc[q] \in {"sent", "answered"}
  /\ End(q, "failed")
  /\ UNCHANGED <<cache, bearer, sends, reply, over, server, rejected>>

SendAgain(q) ==
  /\ bearer' = [bearer EXCEPT ![q] = NoToken]
  /\ sends' = [sends EXCEPT ![q] = @ + 1]
  /\ reply' = [reply EXCEPT ![q] = NoReply]
  /\ Goto(q, "sent")

CacheAfterRefusalSwapped(q) == IF bearer[q] = NoToken THEN NoToken ELSE cache

\* clear, if it was the cache's token that was refused: whatever the cache holds
\* by now.
CacheAfterRefusal(q) == IF bearer[q] = NoToken THEN cache ELSE NoToken

ReceiveAnyFailure(q, outcome) ==
  /\ pc[q] = "answered"
  /\ reply[q].status \in {"401", "error"} /\ sends[q] = 1
  /\ cache' = CacheAfterRefusal(q)
  /\ rejected' = rejected \cup ({bearer[q]} \ {NoToken})
  /\ IF outcome = "signed"
       THEN SendAgain(q) /\ UNCHANGED answer
       ELSE End(q, outcome) /\ UNCHANGED <<bearer, sends, reply>>
  /\ outcome = "unauthorized" => ~reply[q].retry
  /\ UNCHANGED <<over, server>>

\* A first 401 is retried once, with a signature over the server's challenge,
\* unless there is no credential or the server offers no challenge.
ReceiveRefusal(q, outcome) ==
  /\ pc[q] = "answered"
  /\ reply[q].status = "401" /\ sends[q] = 1
  /\ cache' = CacheAfterRefusal(q)
  /\ rejected' = rejected \cup ({bearer[q]} \ {NoToken})
  /\ IF outcome = "signed"
       THEN SendAgain(q) /\ UNCHANGED answer
       ELSE End(q, outcome) /\ UNCHANGED <<bearer, sends, reply>>
  /\ outcome = "signed" => reply[q].retry
  /\ outcome = "unauthorized" => ~reply[q].retry
  /\ UNCHANGED <<over, server>>

\* Any other answer, and any answer to the retry, is final.
Receive(q) ==
  /\ pc[q] = "answered"
  /\ ~(reply[q].status = "401" /\ sends[q] = 1)
  /\ Goto(q, "store")
  /\ UNCHANGED <<cache, bearer, sends, reply, answer, over, server, rejected>>

\* extract_token: an answer of any status may bring a token.
Store(q) ==
  /\ pc[q] = "store"
  /\ cache' = IF reply[q].token = NoToken THEN cache ELSE reply[q].token
  /\ End(q, reply[q].status)
  /\ reply' = [reply EXCEPT ![q] = NoReply]
  /\ UNCHANGED <<bearer, sends, over, server, rejected>>

----------------------------------------------------------------------------
(* The server and the time *)

\* A refused request has no effect, and its answer may ask for a signature over
\* a challenge; an error may come before or after the effect.
Serve(q, status, retry, hands) ==
  /\ pc[q] = "sent"
  /\ bearer[q] \in revoked => status = "401"
  /\ retry => status = "401"
  /\ hands => issued < MaxToken
  /\ issued' = IF hands THEN issued + 1 ELSE issued
  /\ reply' = [reply EXCEPT ![q] = [status |-> status, retry |-> retry,
                                    token |-> IF hands THEN issued' ELSE NoToken]]
  /\ \E acts \in BOOLEAN :
       /\ status = "ok" => acts
       /\ status = "401" => ~acts
       /\ effects' = [effects EXCEPT ![q] = IF acts THEN @ + 1 ELSE @]
  /\ Goto(q, "answered")
  /\ UNCHANGED <<cache, bearer, sends, answer, over, revoked, rejected>>

\* It expires on the server, or the server is set up anew.
Revoke(t) ==
  /\ t \in 1 .. issued
  /\ revoked' = revoked \cup {t}
  /\ UNCHANGED <<cache, pc, bearer, sends, reply, answer, issued, over, effects,
                 rejected>>

\* is_expired_at holds from now on.
TokenExpires(t) ==
  /\ t \in 1 .. issued
  /\ over' = over \cup {t}
  /\ UNCHANGED <<cache, pc, bearer, sends, reply, answer, server, rejected>>

RequestStep(q) ==
  \/ \E code \in {"denied", "failed"} : Refuse(q, code)
  \/ SendFirst(q) \/ TransportFails(q) \/ Receive(q) \/ Store(q)
  \/ \E outcome \in {"signed", "failed", "unauthorized"} : ReceiveRefusal(q, outcome)

Next ==
  \/ \E q \in Request :
       \/ RequestStep(q)
       \/ \E status \in Statuses, retry, hands \in BOOLEAN : Serve(q, status, retry, hands)
  \/ \E t \in Token : Revoke(t) \/ TokenExpires(t)

Spec == Init /\ [][Next]_vars

----------------------------------------------------------------------------
(* Properties *)

\* A retry never repeats what was done: a success acted exactly once, a refusal
\* never, and no answer stands for two.  A 401 reaches the caller only of a
\* signed request, so a stale token alone makes no request fail that the server
\* would have let sign.
AnswersTellEffect ==
  \A q \in Request :
    /\ effects[q] <= 1
    /\ answer[q] = "ok" => effects[q] = 1
    /\ answer[q] \in {"401", "unauthorized", "denied"} => effects[q] = 0
    /\ answer[q] = "401" => bearer[q] = NoToken /\ sends[q] = 2

\* A token whose refusal was dealt with never comes back into the cache, however
\* the answers of overlapping requests are stored.
RejectedStaysOut == cache \notin rejected

============================================================================
