# Verification of anp-miniapp-dock

This directory holds TLA+ models of the Dock, the configurations that check
them with TLC, and theorems about them whose proofs TLAPS checks.  The system
runs third-party Skills (a manifest, API handlers in JavaScript, card
components) for a user who is represented by an agent; merchants expose the
Skill's business behind a DID challenge and a capability token.

## 1. The parts of the system

| Part | State it keeps | Operations | What is hard about it |
|---|---|---|---|
| demo-server, auth (`crates/demo-server/src/auth.rs`, `routes.rs`, `audit.rs`) | map of challenges behind a mutex, audit log behind another | POST challenge, POST login, token check of the business routes | axum tasks interleave between lock sections; the clock is read twice; restart loses the map |
| demo-server, orders (`coffee.rs`, `routes.rs`) | order map and id counter behind a mutex, audit log | search, confirm, pay, get | the counter restarts, tokens survive; a late answer after the effect |
| coffee-fastapi-server (`examples/coffee-fastapi-server`) | module-level dicts, no lock | the same endpoints | pool threads interleave between dict operations |
| anp-adapter: challenge proofs (`challenge.rs`) | none | sign, verify at a time | order of the checks, second reading of the clock |
| anp-adapter: tokens (`token.rs`) | in-memory cache per scope | issue, verify, cache get/put/clear | claims in whole seconds, clock in milliseconds; expiry margins |
| anp-adapter: signed requests (`signed_request.rs`) | shared token cache | auth material, request with one retry, token from the answer | concurrent requests over one cache; 401 of an old token clears a new one |
| js-runtime-quickjs (`api_vm.rs`, `bridge.rs`, `middleware.rs`, `commonjs.rs`) | one QuickJS context, registered APIs, module cache, host session cache | load, registerAPI, invoke through middleware, host request with DID login | concurrent logins, refused tokens, time-outs after an effect |
| dock-core (`orchestrator.rs`, `host.rs`, `api_registry.rs`) | registry only | call_api, handle_component_action | four collaborators that may fail; order of the gates; audit of what happened |
| consent-audit | none | risk policy, consent proof, audit events | the threshold, labels against words |
| component-runtime: VM (`component_vm.rs`) | a flag and a buffer on each side of the JS boundary | mount, dispatch_event, expire | an operation that fails half-way leaves its effects in JS; functions that wait for ever |
| component-runtime: compiler (`wxml.rs`, `compiler.rs`, `events.rs`) | none | template and data to Render IR | recursion over tags, scopes of loops, the order of attributes |
| skill-loader, mcp-schema (`package.rs`, `resolver.rs`, `validation.rs`) | none | load a package, validate its manifest, resolve its paths | one directory is found by three rules |
| dock-cli (`commands.rs`) | one runtime and one identity per process | validate, preview-component, call-api, run-demo | each step feeds on the card of the one before; the network fails between effects |
| mac-app (`mac-app/.../*.swift`) | chat view model, conversation, server process, child process | chat turn, select drink, pay, reset | cards of earlier sessions stay tappable; a child that timed out has a request on its way |
| coffee-skill (`examples/coffee-skill`) | data of its cards | three APIs, three cards | the address of the server and the ids travel through results, cards and taps |
| wx-compat, card-spec, DID documents | none or a map | permissions, cards, keys | values |

How they interact: the host (dock-cli or the mac app) asks the orchestrator for
an API call; the orchestrator asks host, consent gate, executor, renderer and
audit sink in turn.  The executor runs the Skill's JavaScript; its `request`
goes to the host, which logs in at the merchant (challenge, signed proof,
capability token), caches the token per scope and calls the business route with
it.  A result is rendered by a component; a tap runs the component's handler,
whose queued actions come back to the orchestrator as further calls.

What makes each part correct, in one line: a challenge buys at most one token,
for its own identity and before it expires (auth); an order is paid as it was
confirmed (orders); a token is accepted exactly between its issue and its
expiry (tokens); a refused request is tried again at most once (requests); a
risky API runs only when the user approved that call and every execution is on
record (core); a card delivers its actions once and in order, and none after
it was detached (components); a module and a layer run once per call, and the
answer is the one of the outermost layer that had something to say (API runtime);
a card shows what its template says of its data (compiler); a package that was
taken has the cards it announces (loader); what a demo or a chat reports as bought
is what the merchant has (dock-cli, mac-app).

## 2. The modules

Data is abstract throughout: a DID, a challenge id, a drink or a skill is a model
value, a JSON document is the few fields that the code decides on, a signature is
a Boolean "verifies".  Control is kept: each early return, each lock section,
each `await` and each callback that may fail.  A clock is a counter with a bound.
Operators whose names say what is wrong with them (`RecordResultAnyOwner`,
`MarkCopy`, ...) are mutants: variants of the next definition with a bug the code
might have had.  They stand before the definition they vary and nothing uses
them; each property of each run is violated by one of them.

### 2.1 Challenge and login: `LoginData`, `OneTimeLogin`, `DemoAuth`, `FastApiLogin`

`LoginData` has the wire types of both servers.  `OneTimeLogin` is what they
promise: a challenge is bound to an identity and buys at most one token, for it.

`DemoAuth` is the Rust server.  A task (`Handler`) serves one request at a time;
its program counter goes through the sections of `AuthStore::login`:

| Action | Code (`auth.rs`, `routes.rs`) |
|---|---|
| `ServeChallenge` | `issue_challenge`: insert under the lock |
| `ReceiveLogin` | the login route gets its body |
| `Lookup` | `challenge_record`: lock, clone, unlock |
| `CheckRecord` | merchant, expiry and scope on the clone, first reading of the clock |
| `VerifyProof` | `verify_challenge_proof_at`, second reading of the clock |
| `Consume` | `remove_challenge`: lock, remove, unlock; decides the race |
| `IssueToken` | the issuer, which may be missing, now that the challenge is gone |
| `WriteAudit` | `AuditLog::record` under its own lock, then the answer |
| `Tick`, `Restart` | the clock; the process, with another configuration maybe |

`FastApiLogin` is the Python service: the same steps without a lock, at the
granularity of one dict operation, with the token issued before
`challenges.pop`.  It does not implement `OneTimeLogin` (finding 1); the module
states what remains true: overlapping logins only can share a challenge
(`SentTokenIsLast`).

### 2.2 Calls of the Dock: `GatedExecution`, `DockCore`

`DockCore` is `call_api` and `handle_component_action` of the orchestrator.  A
call goes `Begin` (registry, risk, inputSchema), `Permission`, `Consent`,
`Execute` (and `validate_api_result`), `Render`, `Audit`; each answer of the
traits `RuntimeHost`, `ConsentGate`, `ApiExecutor`, `RenderRouter` and `AuditSink` is an input
of the action, failure included.  Several calls are in flight, and a component
on screen may start further ones.  The risk policy reads the label of a
declaration and the topics its words fall under; that is kept, the word lists are
not.  `GatedExecution` is the promise to the user: approved before run, run once,
accounted for when over.

### 2.3 A card: `ComponentVm`

One `ComponentInstance` and its QuickJS context.  `Mount`, `Dispatch`, `Expire`
are the host's operations (`&mut self`: one at a time).  `RunHandler` runs one
lifecycle function or event handler of the Skill, which may queue actions, change
data, throw, time out, or leave a promise behind; `GiveUp` is an operation whose
function waits for something that does not come; `RunStray`, `ResumeHandler` and
`ResumeSnapshot` are what such leftovers do while a later operation drives the
job queue; `SnapshotFails`, `Unreadable` and `Apply` end an operation as
`apply_snapshot` does, step by step.  Rust keeps `mounted`, `expired`, `state`;
JS keeps its instance, data, flag and buffer.

### 2.4 Tokens and the host's sessions: `CapabilityToken`, `HostSession`

`CapabilityToken` has no state: when a token is issued, verified and thought to be
expired, with the two roundings (iat down, exp up to seconds) and the saturating
arithmetic of `token.rs`.

`HostSession` extends it with the host side of a Skill's remote call
(`api_vm.rs`): `Lookup` and `Insert` are the two lock sections of
`ensure_login` around the token cache, `RequestChallenge` and `RequestLogin` the
two requests of `perform_did_login` in between, `Send`, `Reply`, `GiveUp` the
business request.  `Overlook` is a quirk of the Skill: a request for the receipt that
failed has no statusCode and counts as a success, so the call goes on to the order.
`stage` follows `examples/coffee-skill`: wx.login, the receipt
at /api/login, the order route.  `Serve` is the server; `Restart` breaks
connections, forgets challenges and may change the secret.  The clock is shared by
host and server because `http_request_url` accepts loopback URLs only.

### 2.5 Orders: `OrderBook`, `CoffeeOrders`, `FastApiOrders`

`OrderBook` is a map from an id to an order for one drink that is only ever paid.
`CoffeeOrders` is `coffee.rs` behind the routes of the Rust server: `Begin`
(authorize), `Confirm`, `Pay`, `Get` under the store's lock, `Audit` under the
log's, `Restart`.  A pay or a get follows a confirm that was answered, maybe by an
earlier run of the server.

`FastApiOrders` is the Python service without a lock: `Count` reads
`len(orders) + 1`, `Insert` puts the dict, `Find` takes a reference to it, `Mark`
sets its status through that reference, `Audit` appends, `Serialize` reads it
again for the answer.  An order is named by the confirm that made it, so that an
order which was overwritten in the map keeps its identity.

### 2.6 Signed requests: `AnpClient`

The client of `signed_request.rs` whose clones share the token cache of
`token.rs`, for one scope of that cache.  A request goes through the lock sections
and the sends of `AnpHttpClient::request`:

| Action | Code (`signed_request.rs`) |
|---|---|
| `Refuse` | `ensure_allowed`, the body, the credential or the signature fails; nothing is sent |
| `SendFirst` | `auth_material_for`: the cached token, or a signature; `transport.send` |
| `TransportFails` | `transport.send` returns an error, before or after the server has acted |
| `ReceiveRefusal` | a first 401: `clear` if a cached token was used, then `retry_after_challenge` |
| `Receive`, `Store` | a final answer; `extract_token` and `put` |
| `Serve`, `Revoke` | external: any server that hands out a token once and never accepts again one it gave up |
| `TokenExpires` | `is_expired_at` of `token.rs`, by the client's clock |

Whether a URL is allowed, a credential loads or the server's challenge can be
signed are inputs.

### 2.7 The JavaScript of a Skill: `ApiVm`

`load_skill` evaluates a package once to learn what it registers; every call makes
a runtime of its own, evaluates the package again and runs the middleware chain
around the handler.

| Action | Code (`api_vm.rs`, `bridge.rs`, `middleware.rs`) |
|---|---|
| `LoadEntry`, `Require`, `BodyReturns`, `BodyThrows` | `__dockRequire`: into the cache, then the body; an error leaves any number of bodies and may be caught by the next |
| `RegisterAPI`, `Use` | what a body, or a job that it left, does while the package is loaded |
| `Registered` | `validate_registration`; `LoadSkill` is the host that tries again |
| `BeginCall`, `CallApi` | `QuickJsApiExecutor::execute`, `__dockCallApi` |
| `CallNext`, `Await`, `Resume`, `Return`, `Throw`, `Settle` | `dispatch` and the promises around it |
| `Finish`, `Blocked` | `finish()` with or without a settled promise, `map_caught_or_timeout` |

What scripts do is free, with three exceptions: they require and register while the
package is loaded and not from a handler, their results are data that JSON can
carry, and they stay within memory and stack.  Only one function runs at a time
(`stack`); what waits comes back as a job in any order.

### 2.8 Packages, cards and the command line: `SkillPackage`, `TemplateData`, `TemplateParser`, `RenderTemplate`, `CoffeeCards`, `DockCli`

`SkillPackage` says which packages load, where their paths lead and whether a card
is found when it is to be shown.  A package is a tree of files, directories and
links out of it, with a manifest; a path is what stands between its slashes.  `Locate`
walks a path one step at a time, as `canonicalize` does, as a recursive function over
its positions; `IsTree` says which trees a file system can hold.

`TemplateData` has the tags of a template, the data of a card, and what the compiler
does with one value of it: a field, a condition, a binding, the dataset of an event.
`TemplateParser` reads them one after the other: `parse_children` and `read_element`
call each other, and what is kept is the sequence of the elements that are still open,
one for each call that has not returned.  `RenderTemplate` is the compiler as a
recursive operator over the tree.  Both have a second, independent definition of what a
template means (`IsWellFormed` by depth, `Meant` by substitution); `CardIsItsTemplate` in
`MCDockCli` compares them.  `CoffeeCards` has the
three templates of the coffee Skill and what their scripts do with a result and
with a tap.

`DockCli` runs the commands.  It takes the compiler as three constants: `RenderIr`
(what a template and data become), `TapsOn` (the taps on a card) and `ContentsOf`
(what it shows).  `MCDockCli.cfg` gives them `Compile`, `TapsOf` and `Contents`;
`RendererAssumption` is what a demo needs of them, about the coffee Skill's three
templates only, and TLC evaluates it with the recursive compiler.  `ValidatePackage` and `PreviewComponent` are one step
each.  `run-demo` follows `Script`, step by step: `Resolve` (the identity, from
flags, environment and store), `Send`, `Receive`, `GiveUp` (a request of its own),
`LoadHarness`, `CallApi` (an API whose request is answered: audit record, card, tap
for the next call), `Expire`.  `Serve` and `Refuse` are the server, which acts on a
request whether its sender still waits or not; `Restart` empties it.  The login of
a Skill's request is `HostSession`'s and the gates around a call are `DockCore`'s;
here they are one outcome.

### 2.9 The chat app: `MacChat`

`MacChat` extends `DockCli` with the view model of the mac app.  A turn goes
`SendMessage`, `Recognize` (what the user wants is a free choice), `StartSession`
(a server of the app's own, for which the one before is stopped) and a `call-api`
process (`RunChild`) that is a command of `DockCli` like any other.  `SelectDrink`
and `PayOrder` are taps on any card of the conversation.  `TurnSucceeds`,
`TurnFails`, `TimeOut` end a turn; a child that is terminated may have its request
on the way, and the server still serves it.  `Reset`, `ServerDies` and `StartFails`
are what else may happen.  The environment of the app's calls is empty, as the app
sets no identity.

## 3. The runs

| Run | Module, configuration | What it shows | Bounds |
|---|---|---|---|
| `demo_auth` | `MCDemoAuth`, `MCDemoAuth.cfg` | one token per challenge, only on a proof of the own DID accepted in time; the audit log matches the tokens; a refused login burns nothing; refinement of `OneTimeLogin`; an accepted proof ends in a token of its challenge | 2 tasks, 2 challenges of 2 users, 7 kinds of request, 3 configurations, 2 logins, 2 ticks, 1 restart |
| `fastapi_login` | `MCFastApiLogin`, `MCFastApiLogin.cfg` | what the login without a lock still guarantees | 2 threads, 3 logins, 2 ticks |
| `fastapi_replay` (violation) | `MCFastApiLogin`, `MCFastApiReplay.cfg` | two logins get a token for one challenge | the same |
| `dock_core` | `MCDockCore`, `MCDockCore.cfg` | consent fails closed, the audit log is true, no answer hides an execution; refinement of `GatedExecution` | 3 calls in flight, 4 APIs that the risk policy tells apart |
| `component_vm` | `ComponentVm`, `MCComponentVm.cfg` | actions once and in order, lost only with a snapshot that failed the host, agreement after a success, silence after detach | 4 operations, 3 actions, 3 changes of data, 1 operation given up at a time |
| `component_expire` (violation) | `ComponentVm`, `MCComponentExpire.cfg` | an event after an expire request | 3 operations |
| `host_session` | `HostSession`, `MCHostSession.cfg` | tokens stay with their session, a refusal has a reason, an answer tells what was done, every call ends | 2 calls, 2 sessions, a lifetime of 7500 ms, 2 steps of 4000 ms, 1 new secret |
| `coffee_orders` | `MCCoffeeOrders`, `MCCoffeeOrders.cfg` | store and log tell one story, payments are for what was confirmed; refinement of `OrderBook` | 4 requests, 2 drinks, 2 runs of the server |
| `fastapi_orders` | `MCFastApiOrders`, `MCFastApiOrders.cfg` | ids without gaps; an order is lost by overlap only; payments are true | 4 requests |
| `anp_client` | `MCAnpClient`, `MCAnpClient.cfg` | a retry repeats nothing, a 401 reaches the caller of a signed request only, a refused token does not come back | 3 requests, 2 tokens |
| `api_vm` | `MCApiVm`, `MCApiVm.cfg` | a module and a layer run once; no half-loaded package serves a call; the answer is the outermost; every call is answered | 3 modules, 6 ways to require, 2 APIs of which 1 is declared, 2 middlewares, 3 awaits |
| `dock_cli` | `MCDockCli`, `MCDockCli.cfg` | a template is parsed and compiled as it means; a package that loads has its cards; a demo has bought what it prints, fails for an outside reason only, and logs in as it was told; the chat pays what it shows | below |

`dock_cli` starts in one of these: a package in every state of its script and its
component with every way to name it (6 500 packages); any sequence of at most 4 tags
and texts, or 5 of a smaller choice, and a family of 768 cards with two loops and their
conditions, and three events, for 3 data; a call or a demo with every way to name an
identity by flags and environment, over two starts of the server; two demos at once;
the chat with 2 servers and 3 taps.

Why the bounds are enough.  *Login*: a race for a challenge needs two tasks, and
in the FastAPI run a third login is the one that comes after; with `Ttl` = 1 two
ticks put each of the three readings of the clock before, at and after the expiry;
one restart separates every pair of steps.  *Dock*: calls do not share state, so two
interleave in every way and a third can be the action of a component that a
second one has put on screen.  *Card*: an operation can fail, a second one resume
what it left, a third deliver it, a fourth find the card expired.  *Sessions*: the
step of the clock starts off a whole second, and the lifetime is no multiple of one,
so that both roundings matter; the lifetime is less than two steps and longer than
the margin, so that a token expires in the cache, in transit and never; one new
secret makes tokens of both kinds.  *Orders*: two confirms overlap while one order
is paid and another request reads; an id counter of 4 is never the limit, as four
requests make at most four orders.  *Signed requests*: two requests can carry a
token that the answer to a third has brought, and one be refused while the other
stores a newer token.  *API runtime*: three modules make a cycle that a third one
enters, and an error that leaves two bodies; with two middlewares one has a layer on
each side, and the third await comes when both have waited once.  *Command line*:
5 tags nest twice and close in the wrong order; a loop in a loop has every scope that
the code tells apart; two demos take each other's order ids after a restart.  *Chat*:
three taps choose, pay, and tap a card of a session that is gone.

`CHECK_DEADLOCK FALSE` stands in every configuration but `MCApiVm.cfg` because
behaviours end at a bound or when the last call is done, as the program's clients
do.  The type invariants are proved for every instance, and the
runs leave them out.

Symmetry is used in runs without a liveness property, over calls or requests that
differ only in what they ask.

### Fairness

Three properties need it.  `AcceptedProofYieldsToken` assumes weak fairness of
each task's steps: tokio polls a task again, and no lock is held across a step.
Clients, the clock and restarts owe nothing; a restart is an excuse.
`EveryCallEnds` assumes weak fairness of a call's own steps (`CallStep`): the host
runs a call on one thread to its end, and each wait ends by the read time-out of
the socket (five seconds), so `GiveUp` is always among them; the server is assumed
to do nothing.  `GiveUp` has no clock: it may come at once, which covers a broken
connection, the time-out and the interrupt of the runtime.
`CallEnds` of `ApiVm` assumes weak fairness of `LoadStep` and of `ChainStep`: a body
and a function end, wait, or are interrupted by `set_interrupt_handler`, and the
runtime takes jobs as long as there are any.  Scripts owe nothing: a promise that
nobody settles ends in `Blocked`.

## 4. The theorems

Proved by TLAPS for all values of the constants that the named assumptions allow
(any number of tasks, calls, requests, drinks, restarts; any lifetime).

| Module | Theorems | Argument |
|---|---|---|
| `DemoAuthProofs` | `TypeCorrect`, `TokensAreProven`, `OneTokenPerChallenge`, `AuditIsComplete`, `RefusalsKeepChallenges`, `Implements`, `ProofsAreNotLost` | `ProofInv`: what a task has established by its program counter is about the record it cloned, and a minted record never changes.  `HolderInv`: a challenge is in the map, or with the one task that removed it, or spent on one token, and never two of these at once; this is what `AtMostOneToken` lacks to be inductive.  `AuditInv`: a jti is larger than all before, so an issued token is a new member of its set, and the tasks that have one and no entry yet (`Passed`) are finite in number and make up the difference.  Each step then is a mint, a grant, a loss or a stutter of `OneTimeLogin`.  `NoProofIsLost` is the safety half of `AcceptedProofYieldsToken`, and inductive with the types: a login that found its challenge in the map still finds it, or another login has taken it to `issue` or to a token. |
| `HostProofs`: `DockCore` | `TypeCorrect`, `ConsentFailsClosed`, `AuditIsTrue`, `AnswersAreAudited`, `Implements` | `CallInv(c)`: the step of a call tells whether it was approved, ran and was recorded.  No step touches another call (`CallInvStable`), so each action has its own call to consider.  `PolicyCoversReserved` links the risk policy to what the documents reserve to the user. |
| `HostProofs`: `DockCli`, `MacChat` | `ActsAsAsked`, `TapsPayTheirOrder`, `BuysAsShown`, `FailsOnlyForCause` | `ProcessesInv`: a process that is past its login holds the identity that its command resolves to, and `NamedIdentity` says which one that is, of all ways to fill flags and environment.  `ChatInv` adds what the orders keep (`OrdersInv`: drink and owner, for ever), what the cards in the conversation show (`MessagesInv`) and whose request the child has on its way (`ChildInv`).  `DemosInv` gives each demo a ledger: what it has done so far, by its position (`DeedsInv`); what the answer that waits for it says of the last deed (`AnswerInv`); that the arguments and the card of a step are made of what the step before did (`HandoverInv`); and what it has shown and put on record (`ReportInv`).  A restart spoils the deeds of its past only for a demo that is hindered by it.  With `HandoverInv` no guard on data can fail, which is `FailsOnlyForCause`. |
| `HostProofs`: `SkillPackage` | `TakenCardsAreShown` | Induction over the length of a path: the places that a path leads through (`IsTrail`) exist, are unique, and go on by one step (`LocateAppend`), so that in a file-system tree the path of a place leads to it (`LocatePlace`), and an `index` that is no directory names its parent (`ResolveIndex`).  What `load_components` read of a component is then what `ComponentPackage::load` finds of it (`ComponentIsCard`), and a package in which nothing is wrong passes each of the checks of `load_skill` (`SelfContainedIsTaken`).  `ValidatedInv` says of every process what it has printed of the package it was given. |
| `FastApiLoginProofs` | `TypeCorrect`, `TokensAreProven`, `SentIsLast`, `AuditIsComplete`, `RefusalsKeepChallenges` | `DictInv`: a challenge whose token was sent has left the dict.  `LoginInv`: what a thread has checked stays true while others run, and one that began after the token was sent does not get past its lookup.  That two threads may hold a challenge is no part of it: finding 1.  `AuditInv` as in `DemoAuthProofs`. |
| `HostSessionProofs` | `AcceptedForItsLifetime`, `RefusedAfterItsLifetime`, `ClientAgrees`, `MarginCoversTransit`; `TypeCorrect`, `TokensAreOwn`, `RefusalsHaveReasons`, `AnswersAreTrue`, `CallsRunDown` | The first four are arithmetic about `CapabilityToken`: how rounding down and up compare with whole seconds (`SecondsSplit`).  `HeldInv`: a token in use was issued already and was good for the margin when it was chosen; `CacheInv` the first half for the cache; `CallInv` ties the place of a call to its connection and to what the route did.  `MarginCoversTransit` then gives the reason for a refusal.  `StepsLeft` counts what a call has before it, by errand and place: each of its own steps makes it smaller and no other step makes it larger, so that a call has at most eighteen steps (the safety half of `EveryCallEnds`; fairness adds that they are taken). |
| `CoffeeOrdersProofs` | `TypeCorrect`, `PaymentsAreOwn`, `LogMatchesStore`, `Implements` | `CounterInv`: the counter is beyond every order, so a confirm fills a free id.  `RequestInv`: only the current run works on a request.  `ConfirmInv`: the running server still has, under the id it gave, an order for that drink (`OrderStays`), hence `PayInv`.  `LogInv`: for what an order is and was paid there is a record in the log, or the one request that is going to write it. |
| `FastApiOrdersProofs` | `TypeCorrect`, `NoGaps`, `OnlyOverlapLoses`, `PaymentsAreTrue` | `DictInv`: the ids in use are 1 .. n.  `ConfirmInv`: an id that was computed is at most n + 1, and larger than that of every order the confirm had counted, which is why sharing an id means that neither had counted the other.  `PayInv`: the order a payment holds was placed under the id it pays, though it may have been overwritten since (`PlacedStable`). |
| `ClientProofs`: `ComponentVm` | `CardTypeCorrect`, `CardActionsInOrder`, `CardLosesOnlySnapshots`, `CardInSync`, `CardQuiet` | `QueueInv`: what waits in the JS buffer continues what was delivered; it holds too of the leftovers of operations that were given up, as they can only add to the buffer or empty it.  `OperationInv`: an operation ends with nothing left to run.  `ExpiryInv`: the JS flag is set with the detached lifecycle, and before the host's flag.  With the types, the lengths of buffer and delivery then say which actions a step loses. |
| `ClientProofs`: `AnpClient` | `TypeCorrect`, `AnswersAreTrue`, `RejectedNeverReturns` | `RequestInv`: where a request is tells how often it was sent and what was done for it.  `ReplyInv`: a token that an answer brings is nowhere else until it is stored, so that `put`, which looks at nothing, never stores a refused one.  `IssuedInv`: the tokens in use were handed out, so that the next one is new. |
| `ClientProofs`: `TemplateParser` | `ParsesWhatNests` | `IsReading`: after n tokens there is an open element for each level of depth and one for the document, and each stems from an opening tag that is still open (`IsOpen`).  Two tags that are open in as many others are the same (`OpenUnique`), so the innermost element is the one that the definition by depth means.  `ReadStep` is one more token; induction over the tokens does the rest. |
| `ApiVmProofs` | `TypeCorrect`, `RunsAtMostOnce`, `WholePackagesRun`, `AnswersAreOutermost` | `CacheInv`: what is not in the cache has not run.  `StartInv`: no layer at or behind the index has been started, so the index alone bounds the starts.  `ApiInv`, `ModeInv`: where a layer is.  `OutcomeInv` says of every result and settled promise, not only of the outermost, that it was `Handed` on by layers with nothing of their own; that is inductive, because a layer gives on what the next one has settled. |

Induction: the theorems of the library take an operator, which none of the provers can
instantiate.  What is proved of recursive functions over positions (`Locate`,
`OpenAfter`) uses `NatSetInduction` instead: a set of numbers that has 0 and with each
number the next one has all of them, from `WFMin` and `NatLessThanWellFounded`.

Assumptions: `LoginDataAssumption`, `BoundsAssumption`, `DeclarationsAssumption`,
`TokenAssumption`, `NoTokenAssumption`, `OrdersAssumption`, `ClientAssumption`,
`ApiVmAssumption`, `DockCliAssumption` and `MacChatAssumption` only type the constants
and keep apart what the code does: "no such thing" from the things, the default identity
from a named one, one order id from the next. `ScriptStemAssumption` keeps the names of
scripts from those of the directories of a package. A command of `validate` has a tree
that a file system can hold and a list of APIs (`IsCommand`), and `ParsesWhatNests` is
about sequences of what `TemplateData` calls tags and texts. `SessionAssumption` also
says that the clock is far from the end of its word and that a token outlives the host's
margin of five seconds: the demo server issues tokens for 15 minutes, the issuer's
default is 5. With a shorter lifetime the host would log in for each request, and the
servers would still serve it. `RendererAssumption`, which `BuysAsShown` and
`FailsOnlyForCause` need, is about the compiler: the list of drinks offers a tap with
the id of the first one, or none if it is empty; an order offers a tap with its id; a
receipt shows its id and "paid". The prover cannot unfold a recursive compiler, so the
theorems take these from TLC, which evaluates them for the menu and the ids of the run.

Only model-checked: the liveness properties `AcceptedProofYieldsToken`, `EveryCallEnds`
and `CallEnds` (fairness and ENABLED are out of the prover's reach; of the first two
the safety half is proved), and what `CardIsItsTemplate` says of the compiler, which is
a recursive operator over trees and contexts: it would need an induction over data, and
the prover takes no module with such an operator.  What `CardIsItsTemplate` says of the
parser is `ParsesWhatNests`.

## 5. Findings

1. *code_bug*, `fastapi_replay`: `app.py:287` issues a token before
   `challenges.pop(...)`, whose result it ignores.  Two overlapping logins with
   one proof both get a token, though `docs/runbook/security.md:35` says that a
   "successful login consumes the challenge so the same proof cannot be replayed".
2. *doc_code_divergence*, `component_expire`:
   `docs/architecture/miniapp-mcp-component-runtime.md:254` says "expire request →
   mark card expired → ..."; `component_vm.rs:255` and `:598` mark the card last, so
   a card whose expire handler throws stays in service.

Known and intended by the code, therefore modelled and not reported: a challenge is
lost when the server has no issuer; a token in the cache that a server with a new
secret refuses is not dropped before it expires (`api_vm.rs`); the 401 of an old
token clears a newer one from the shared cache (`signed_request.rs`), which costs
one signature; order ids start over when a server restarts; challenges that nobody
uses are never purged (`auth.rs:248`); a label in the metadata wins over the words
that the risk policy would find (`consent.rs:165`); a consent proof's digest is taken
over the redacted arguments (`consent.rs:213`); a failed request for the receipt is
overlooked (`index.js:50`); the warnings about an outputSchema are never produced
(`validation.rs:196`).  In templates: `wx:if` is looked at before `wx:for` of the same
node (`compiler.rs:147`), of a looped root only the first node is kept, a text drops
the elements in it, and a component beside a directory of its own that is named
`index` is not the one that was loaded (`resolver.rs:119`).  In the chat: the card of
an earlier session stays tappable and pays whatever order has its id by now
(`PipelineViewModel.swift:128`); `ChatPaysAsShown` says what holds besides.  On a card: an operation that was given
up may end during a later one, and its snapshot, which nobody receives, then takes
that one's actions with it although that one succeeds (`component_vm.rs:207`);
`LostOnlyWithSnapshots` allows for this case and one more, a failure that the host is
told.

## 6. Not modelled

- **anp-adapter, DID documents and key files**: data and file access.  Whether a
  proof verifies is an input of `DemoAuth`.
- **Signing**: canonical JSON, HTTP message signatures, the encoding of tokens.  Who
  signs what for whom is in `LoginData`, `HostSession` and `DockCli`.
- **wx-compat, card-spec**: values, with no state that outlives a call; the storage of
  wx-compat has no caller, and its check of a permission before a request is one of
  the causes of `Refuse` in `AnpClient`.
- **JSON Schema, redaction, styles (`wxss.rs`), texts and pictures of cards**: what
  they yield is an outcome, or nothing depends on it.
- **Restart of the FastAPI service**: as the Rust server's in its effect.
- **The drink search**: reads a constant menu.
- **Concurrent hosts with different clocks**: excluded by the loopback check.
- **dock-cli preview-card**: prints what card-spec builds.
- **mac-app views, headless mode and pipeline snapshot**: layout, and the same calls
  without a user; whether a sentence is a wish for coffee is a free choice.
- **Scripts that require or register from a handler or a later job**; memory and stack
  limits.
- **Corners of identities, addresses and paths**: an `identity.json` whose DID is not
  that of the document beside it (`FindIdentity`); a `serverUrl` that is blank beside a
  `remoteBaseUrl`, which dock-cli and the Skill's own script judge differently
  (`IsRemote`); a path that leaves a package by `..` and comes back by the name of its
  directory (`Walk`), which the resolver takes and the model refuses.

## 7. Plan

1. `DockCli` with `HostSession` in place of its one-step login, so that a demo runs
   over a cache with tokens that expire.
2. Compositions of `ApiVm` and `DockCore`: an executor that times out in the chain
   while the sink waits.
