------------------------------ MODULE DockCli ------------------------------
(***************************************************************************)
(* The commands of crates/dock-cli (commands.rs): validate for any package, *)
(* preview-component for any template, call-api, and run-demo against a    *)
(* server.                                                                 *)
(*                                                                         *)
(* A demo is one sequence of requests with work between them: it resolves  *)
(* an identity, logs in, buys a drink with requests of its own, loads the  *)
(* Skill, and buys another one through the Skill's APIs and cards, by      *)
(* tapping what the cards show.  Demos share the server, which may be      *)
(* restarted; a request may be served after the demo has given up on it.   *)
(*                                                                         *)
(* The login of every request that a Skill makes is HostSession's, the     *)
(* gates around an API call are DockCore's: here they allow, or fail.      *)
(***************************************************************************)
EXTENDS CoffeeCards, SkillPackage

CONSTANTS
  RenderIr(_, _), \* the compiler: of a template and data, "rendered" or the error,
                \* and the card, a sequence of its root or of nothing
  TapsOn(_),    \* the tap events on a card, in the order of its nodes
  ContentsOf(_),\* what a card shows, in that order
  Cli,          \* the processes
  Commands,     \* what they may run: functions from Cli to commands
  Listing,      \* the drinks that the server lists for the query, in order
  Store,        \* the identity store: for a handle, its entry in index.json and
                \* the directories of that name
  OrderIds,     \* the ids the server gives out, in order; bound: their number
  MaxRuns       \* bound: how often the server is started

Nobody == "nobody"
DefaultIdentity == "default"
CheckedDrink == "latte"

Apis == {"searchDrinks", "confirmOrder", "payOrder"}

\* Nothing; a package; a template with the data of its card; an API with its
\* arguments; a demo with its flags.  Flags and environment are records of document, key, user,
\* handle and root.
NoInputs == [name \in {"document", "key", "user", "handle", "root"} |-> Nobody]
Idle == [run |-> "nothing"]
Validate(package) == [run |-> "validate", package |-> package]
Preview(tokens, data) == [run |-> "preview-component", tokens |-> tokens, data |-> data]
ApiCall(api, args, env) == [run |-> "call-api", api |-> api, args |-> args, flags |-> NoInputs, env |-> env]
Demo(flags, env) == [run |-> "run-demo", flags |-> flags, env |-> env]

IsNaming(inputs) ==
  /\ inputs \in [DOMAIN NoInputs -> Range(inputs) \ {DefaultIdentity}]
  /\ inputs.handle \in {Nobody} \cup DOMAIN Store

IsCommand(it) ==
  /\ it.run \in {"call-api", "run-demo"} => IsNaming(it.flags) /\ IsNaming(it.env)
  /\ it.run = "call-api" => it.api \in Apis
  /\ it.run = "validate" =>
       /\ IsTree(it.package.tree)
       /\ it.package.manifest.apis \in Seq(Range(it.package.manifest.apis))

ASSUME DockCliAssumption ==
  /\ MaxRuns \in Nat \ {0}
  /\ Listing \in Seq(STRING)
  /\ OrderIds \in Seq(STRING) /\ IsInjective(OrderIds)
  /\ \A handle \in DOMAIN Store : DefaultIdentity \notin {Store[handle].index} \cup Store[handle].directories
  /\ \A assigned \in Commands : DOMAIN assigned = Cli /\ \A c \in Cli : IsCommand(assigned[c])

VARIABLES
  command,      \* what each process runs
  position,     \* of a demo: the number of its next step
  wire,         \* its request, and how far that is
  identity,     \* DemoAuthConfig
  card,         \* the card it has mounted
  arguments,    \* of the API it calls next
  audit,        \* CollectAudit: the calls that succeeded; with another one the
                \* process ends and prints no audit
  printed,      \* what the process prints
  orders,       \* of the server
  run,          \* which start of the server this is
  served,       \* history: what the server did for a process
  hindered      \* history: something outside went against a process

local == <<identity, card, arguments, audit>>
server == <<orders, run, served>>
cliVars == <<command, position, wire, local, printed, server, hindered>>

Requests == {"challenge", "login", "drinks", "confirm", "pay", "health"} \cup Apis

\* requires_remote_auth, and shouldUseRemote of the Skill
IsRemote(args) == IsTruthy(OrElse(Field(args, "remoteBaseUrl"), Field(args, "serverUrl")))

\* The steps of run_demo and of call_api; an API's request goes through the host.
Script(c) ==
  CASE command[c].run = "run-demo" ->
         <<"resolve", "challenge", "login", "drinks", "confirm", "pay", "load",
           "searchDrinks", "confirmOrder", "payOrder", "expire", "health">>
    [] command[c].run = "call-api" ->
         (IF IsRemote(command[c].args) THEN <<"resolve">> ELSE <<>>) \o <<"load", command[c].api>>

Doing(c) == Script(c)[position[c]]
IsBusy(c) == command[c].run \in {"run-demo", "call-api"} /\ printed[c] = "none"
At(c, name) == IsBusy(c) /\ Doing(c) = name

\* A request: not sent, on its way, answered, or lost with the server.
Request(state, body, reply) == [state |-> state, body |-> body, reply |-> reply]
Quiet == Request("idle", Missing, Missing)
Refused == Text("refused")

CliInit ==
  /\ command \in Commands
  /\ position = [c \in Cli |-> 1]
  /\ wire = [c \in Cli |-> Quiet]
  /\ identity = [c \in Cli |-> NoInputs]
  /\ card = [c \in Cli |-> <<>>]
  /\ arguments = [c \in Cli |-> Missing]
  /\ audit = [c \in Cli |-> <<>>]
  /\ printed = [c \in Cli |-> "none"]
  /\ orders = <<>>
  /\ run = 1
  /\ served = [c \in Cli |-> <<>>]
  /\ hindered = [c \in Cli |-> FALSE]

----------------------------------------------------------------------------
(* validate and preview-component *)

ValidatePackage(c) ==
  /\ command[c].run = "validate" /\ printed[c] = "none"
  /\ printed' = [printed EXCEPT ![c] = IF LoadsSkill(command[c].package) THEN "ok" ELSE "error"]
  /\ UNCHANGED <<command, position, wire, local, server, hindered>>

PreviewComponent(c) ==
  /\ command[c].run = "preview-component" /\ printed[c] = "none"
  /\ LET output == RenderIr(command[c].tokens, command[c].data) IN
       /\ printed' = [printed EXCEPT ![c] = output.tag]
       /\ card' = [card EXCEPT ![c] = output.card]
  /\ UNCHANGED <<command, position, wire, identity, arguments, audit, server, hindered>>

----------------------------------------------------------------------------
(* run-demo and call-api *)

Fail(c) ==
  /\ printed' = [printed EXCEPT ![c] = "error"]
  /\ UNCHANGED <<command, position, server>>

Succeed(c) ==
  /\ printed' = [printed EXCEPT ![c] = "ok"]
  /\ UNCHANGED <<command, position, server>>

Proceed(c) ==
  /\ position' = [position EXCEPT ![c] = @ + 1]
  /\ UNCHANGED <<command, printed, server>>

Hinder(c, isHindered) == hindered' = [hindered EXCEPT ![c] = @ \/ isHindered]

Given(value) == value # Nobody

MergeEnvFirst(flags, env) == [name \in DOMAIN flags |-> IF Given(env[name]) THEN env[name] ELSE flags[name]]

\* A flag, or else the variable of the environment.
Merge(flags, env) == [name \in DOMAIN flags |-> IF Given(flags[name]) THEN flags[name] ELSE env[name]]

\* identity_dir_for_handle: the index decides; without an entry, the one directory
\* whose identity has that name.
FindIdentity(handle) ==
  LET entry == Store[handle] IN
  CASE Given(entry.index) -> entry.index
    [] ~Given(entry.index) /\ Cardinality(entry.directories) = 1 -> CHOOSE i \in entry.directories : TRUE
    [] OTHER -> Nobody

\* DemoAuthConfig::from_inputs: the identity of the document, of the key, and the
\* DID of the user; or nothing.  A credential by its paths excludes the store.
ResolveIdentity(in) ==
  LET all(who) == [NoInputs EXCEPT !.document = who, !.key = who, !.user = who] IN
  CASE Given(in.document) \/ Given(in.key) \/ Given(in.user) ->
         IF Given(in.document) /\ Given(in.key) /\ ~Given(in.handle) /\ ~Given(in.root)
           THEN [NoInputs EXCEPT !.document = in.document, !.key = in.key,
                   !.user = IF Given(in.user) THEN in.user ELSE in.document]
           ELSE NoInputs
    [] ~Given(in.document) /\ ~Given(in.key) /\ ~Given(in.user) /\ (Given(in.handle) \/ Given(in.root)) ->
         IF Given(in.handle) /\ Given(in.root) THEN all(FindIdentity(in.handle)) ELSE NoInputs
    [] OTHER -> all(DefaultIdentity)

\* The files may be missing, unreadable, or the key open to others.
Resolve(c, readable) ==
  LET resolved == ResolveIdentity(Merge(command[c].flags, command[c].env)) IN
  /\ At(c, "resolve")
  /\ IF readable /\ Given(resolved.document)
       THEN identity' = [identity EXCEPT ![c] = resolved] /\ Proceed(c) /\ UNCHANGED hindered
       ELSE Fail(c) /\ Hinder(c, TRUE) /\ UNCHANGED identity
  /\ UNCHANGED <<wire, card, arguments, audit>>

\* RuntimeHarness::load: the Skill may be broken.
LoadHarness(c, loads) ==
  /\ At(c, "load")
  /\ arguments' = [arguments EXCEPT ![c] =
       IF command[c].run = "call-api" THEN command[c].args
       ELSE Object([query |-> Text("latte"), serverUrl |-> Text("server")])]
  /\ Hinder(c, ~loads)
  /\ IF loads THEN Proceed(c) ELSE Fail(c)
  /\ UNCHANGED <<wire, identity, card, audit>>

\* inputSchema: the argument an API cannot do without.
IsValid(api, args) ==
  CASE api = "searchDrinks" -> TRUE
    [] api = "confirmOrder" -> Field(args, "drinkId").is = "text"
    [] api = "payOrder" -> Field(args, "orderId").is = "text"

\* What the request of a step says: the CLI pays what its own confirm gave it.
Body(c) ==
  CASE Doing(c) = "confirm" -> Text(CheckedDrink)
    [] Doing(c) = "pay" -> Field(wire[c].reply, "orderId")
    [] Doing(c) = "confirmOrder" -> Field(arguments[c], "drinkId")
    [] Doing(c) = "payOrder" -> Field(arguments[c], "orderId")
    [] OTHER -> Missing

\* A login is signed first, and only for the DID of the document; the host logs in
\* for the APIs.
Signed == {"login"} \cup Apis
Signs(c) == Doing(c) \in Signed => identity[c].user = identity[c].document

\* http_request, or wx.request of an API
Send(c) ==
  /\ IsBusy(c) /\ Doing(c) \in Requests
  /\ Doing(c) \in Apis => IsRemote(arguments[c]) /\ IsValid(Doing(c), arguments[c])
  /\ Signs(c)
  /\ wire[c].state = "idle"
  /\ wire' = [wire EXCEPT ![c] = Request("sent", Body(c), Missing)]
  /\ UNCHANGED <<command, position, local, printed, server, hindered>>

\* The arguments of an API are not valid, or SignerDidMismatch.
CannotSend(c) ==
  /\ IsBusy(c) /\ Doing(c) \in Requests
  /\ wire[c].state = "idle"
  /\ \/ Doing(c) \in Apis /\ ~IsValid(Doing(c), arguments[c]) /\ UNCHANGED hindered
     \/ (Doing(c) \in Apis => IsRemote(arguments[c])) /\ ~Signs(c) /\ Hinder(c, TRUE)
  /\ Fail(c)
  /\ UNCHANGED <<wire, local>>

Effect(c, kind, id) ==
  served' = [served EXCEPT ![c] =
    Append(@, [kind |-> kind, id |-> id, drink |-> orders'[id].drink, by |-> orders'[id].by, in |-> run])]

Reply(c, reply) == wire' = [wire EXCEPT ![c] = Request("answered", @.body, reply)]

OrderBody(id, o) ==
  Object([orderId |-> Text(OrderIds[id]), drinkId |-> Text(o.drink), status |-> Text(o.status)])

\* search_drinks
MenuOf(listing) == List([i \in DOMAIN listing |-> Object([id |-> Text(listing[i])])])
Menu == Object([drinks |-> MenuOf(Listing)])

ServeConfirm(c) ==
  LET id == Len(orders) + 1
      order == [drink |-> wire[c].body.text, by |-> c, status |-> "pending_payment"]
  IN  /\ id <= Len(OrderIds)
      /\ orders' = Append(orders, order)
      /\ Effect(c, "confirm", id)
      /\ Reply(c, OrderBody(id, order))
      /\ UNCHANGED run

ServePay(c) ==
  LET known == {id \in DOMAIN orders : Text(OrderIds[id]) = wire[c].body} IN
  IF known = {} THEN Reply(c, Refused) /\ UNCHANGED server
  ELSE \E id \in known :
         /\ orders' = [orders EXCEPT ![id].status = "paid"]
         /\ Effect(c, "pay", id)
         /\ Reply(c, OrderBody(id, orders'[id]))
         /\ UNCHANGED run

\* The server answers, whether the process still waits or not.  It accepts the
\* proof of a login only when the key is the user's.
Serve(c) ==
  LET kind == Doing(c) IN
  /\ wire[c].state = "sent"
  /\ CASE kind \in Signed /\ identity[c].key # identity[c].user ->
            Reply(c, Refused) /\ Hinder(c, TRUE) /\ UNCHANGED server
       [] kind \in {"confirm", "confirmOrder"} -> ServeConfirm(c) /\ UNCHANGED hindered
       [] kind \in {"pay", "payOrder"} -> ServePay(c) /\ UNCHANGED hindered
       [] kind \in {"drinks", "searchDrinks"} -> Reply(c, Menu) /\ UNCHANGED <<server, hindered>>
       [] OTHER -> Reply(c, Object([status |-> Text("ok")])) /\ UNCHANGED <<server, hindered>>
  /\ UNCHANGED <<command, position, local, printed>>

\* It does not, for reasons of its own.
Refuse(c) ==
  /\ wire[c].state = "sent"
  /\ Reply(c, Refused)
  /\ Hinder(c, TRUE)
  /\ UNCHANGED <<command, position, local, printed, server>>

Restart ==
  /\ run < MaxRuns
  /\ run' = run + 1
  /\ orders' = <<>>
  /\ wire' = [c \in Cli |-> IF wire[c].state = "sent" THEN Request("lost", Missing, Missing) ELSE wire[c]]
  /\ hindered' = [c \in Cli |-> hindered[c] \/ (printed[c] = "none" /\ position[c] > 1)]
  /\ UNCHANGED <<command, position, local, printed, served>>

\* No connection, or five seconds without an answer.
GiveUp(c) ==
  /\ printed[c] = "none"
  /\ wire[c].state \in {"sent", "answered", "lost"}
  /\ Fail(c)
  /\ Hinder(c, TRUE)
  /\ UNCHANGED <<wire, local>>

\* The answer of a request that the CLI makes itself.
Receive(c) ==
  /\ IsBusy(c) /\ Doing(c) \in Requests \ Apis
  /\ wire[c].state = "answered"
  /\ wire' = [wire EXCEPT ![c] = Request("idle", Missing, @.reply)]
  /\ IF wire[c].reply = Refused THEN Fail(c)
     ELSE IF Doing(c) = "health" THEN Succeed(c)
     ELSE Proceed(c)
  /\ UNCHANGED <<local, hindered>>

\* The result of an API: of the server's answer, or of its own when no server was
\* named.
ResultOf(api, args, reply) ==
  IF IsRemote(args)
    THEN [content |-> reply,
          meta |-> Object([remoteBaseUrl |-> OrElse(Field(args, "remoteBaseUrl"), Field(args, "serverUrl"))])]
    ELSE [meta |-> Object(<<>>),
          content |->
            CASE api = "searchDrinks" ->
                   Object([drinks |-> List(<<Object([id |-> Text("latte")]), Object([id |-> Text("americano")])>>)])
              [] api = "confirmOrder" ->
                   Object([orderId |-> Text("order_demo_001"), drinkId |-> Field(args, "drinkId")])
              [] api = "payOrder" -> Object([orderId |-> Field(args, "orderId"), status |-> Text("paid")])]

Component == [searchDrinks |-> "drink-list", confirmOrder |-> "order-confirm", payOrder |-> "payment-result"]
Button == [searchDrinks |-> "confirmDrink", confirmOrder |-> "payOrder"]

\* find_tap_event
TapsFor(root, method) ==
  LET IsWanted(tap) == tap.method = method IN SelectSeq(TapsOn(root), IsWanted)

\* The event the component gets, and the first api/call it asks for.
TapFirst(root, method, data) ==
  LET taps == TapsFor(root, method) IN
  IF taps = <<>> THEN Missing ELSE TapArguments(method, NormalizeDataset(taps[1].dataset), data)

\* What the compiler makes of the three templates of the Skill: the list offers its
\* first drink first, or nothing; the next card offers the order it is for, and the
\* last one shows it.
ASSUME RendererAssumption ==
  LET Rendered(component, fields) == RenderIr(Template(component), Object(fields))
      Offers(output, method, dataset) ==
        LET taps == TapsFor(output.card[1], method) IN
        output.tag = "rendered" /\ taps # <<>> /\ taps[1].dataset = dataset
      Drinks(listing, isEmpty) ==
        Rendered("drink-list", [drinks |-> MenuOf(listing), empty |-> Flag(isEmpty), remoteBaseUrl |-> Text("server")])
      Order(id, drink) ==
        Rendered("order-confirm", [orderId |-> Text(id), drinkName |-> Text(drink), remoteBaseUrl |-> Text("server")])
      Receipt(id) == Rendered("payment-result", [orderId |-> Text(id), status |-> Text("paid")])
  IN
  /\ TapsFor(Drinks(<<>>, TRUE).card[1], "confirmDrink") = <<>>
  /\ Listing # <<>> => Offers(Drinks(Listing, FALSE), "confirmDrink", [id |-> Text(Listing[1])])
  /\ \A id \in Range(OrderIds) :
       /\ \A drink \in Range(Listing) : Offers(Order(id, drink), "payOrder", [name \in {"order-id"} |-> Text(id)])
       /\ Receipt(id).tag = "rendered" /\ ContentsOf(Receipt(id).card[1]) = <<Text(id), Text("paid")>>

\* runtime.call, once the API has its answer: the audit record, the card (mounted
\* by the router, and again to be tapped), the tap.  The scripts of the cards may
\* fail or take too long; what the API did, it has done.  call-api prints a card
\* or what stands for one.
CallApi(c, api, cardsWork) ==
  LET args == arguments[c]
      result == ResultOf(api, args, wire[c].reply)
      data == CardData(Component[api], args, result)
      output == RenderIr(Template(Component[api]), data)
      tapped == IF api = "payOrder" THEN Object(<<>>) ELSE TapFirst(output.card[1], Button[api], data)
      works == cardsWork /\ output.tag = "rendered" /\ tapped # Missing
  IN
  /\ At(c, api)
  /\ IF IsRemote(args) THEN wire[c].state = "answered" ELSE IsValid(api, args)
  /\ wire' = [wire EXCEPT ![c] = Request("idle", Missing, @.reply)]
  /\ IF IsRemote(args) /\ wire[c].reply = Refused
       THEN Fail(c) /\ UNCHANGED <<card, arguments, audit, hindered>>
       ELSE /\ audit' = [audit EXCEPT ![c] = Append(@, api)]
            /\ card' = [card EXCEPT ![c] = IF cardsWork THEN output.card ELSE <<>>]
            /\ arguments' = [arguments EXCEPT ![c] = tapped]
            /\ Hinder(c, ~cardsWork \/ (api = "searchDrinks" /\ Listing = <<>>))
            /\ IF command[c].run = "call-api" THEN Succeed(c)
               ELSE IF works THEN Proceed(c)
               ELSE Fail(c)
  /\ UNCHANGED identity

\* The last card is expired: its script may fail.
Expire(c, works) ==
  /\ At(c, "expire")
  /\ Hinder(c, ~works)
  /\ IF works THEN Proceed(c) ELSE Fail(c)
  /\ UNCHANGED <<wire, local>>

----------------------------------------------------------------------------

ProcessStep(c) ==
  \/ ValidatePackage(c) \/ PreviewComponent(c)
  \/ \E fine \in BOOLEAN : Resolve(c, fine) \/ LoadHarness(c, fine) \/ Expire(c, fine)
  \/ Send(c) \/ CannotSend(c) \/ Serve(c) \/ Refuse(c) \/ GiveUp(c) \/ Receive(c)
  \/ \E api \in Apis, fine \in BOOLEAN : CallApi(c, api, fine)

CliNext == (\E c \in Cli : ProcessStep(c)) \/ Restart

CliSpec == CliInit /\ [][CliNext]_cliVars

----------------------------------------------------------------------------
(* Properties *)

\* A package of which nothing can be wrong: nothing leads out of it, each file is
\* where it belongs, and the manifest names an API once, components by directories
\* that are there, and cards by components.
IsSelfContained(package) ==
  LET tree == package.tree
      apis == package.manifest.apis
      declared == Range(package.manifest.components)
      IsFileName(name) == name \in DOMAIN ScriptStem \cup ComponentFiles \cup {"SKILL.md", "mcp.json"}
      Names(path, directory) == path \in {directory, Append(directory, "index")}
  IN
  /\ \A place \in DOMAIN tree : tree[place] = IF IsFileName(Last(place)) THEN "file" ELSE "directory"
  /\ {<<"SKILL.md">>, <<"mcp.json">>, <<"index.js">>} \subseteq DOMAIN tree
  /\ package.parses
  /\ IsInjective([i \in DOMAIN apis |-> apis[i].name])
  /\ \A path \in declared : \E place \in DOMAIN tree : tree[place] = "directory" /\ Names(path, place)
  /\ \A api \in Range(apis) :
       /\ api.name # "" /\ api.complete
       /\ \/ api.card \in {NoCard} \cup declared
          \/ \E place \in DOMAIN tree :
               /\ Len(place) = 2 /\ Head(place) = "components" /\ tree[place] = "directory"
               /\ Names(api.card, place)

\* validate takes every package with which nothing is wrong.  In a package that it
\* takes, an API has one declaration, and the renderer, which looks for the card of
\* a result later and by rules of its own, finds it with the same files: in a
\* directory that was checked, with nothing in it from outside the package, whenever
\* there is a template at all.  An index that is a directory itself is left out: its
\* parent is then another component than the one that was checked.
LoadedCardsAreShown ==
  \A c \in Cli : command[c].run = "validate" =>
    LET package == command[c].package
        tree == package.tree
        apis == package.manifest.apis
        Checked == {ResolveComponentPath(tree, route) : route \in Routes(package)}
    IN
    /\ printed[c] = "error" => ~IsSelfContained(package)
    /\ printed[c] = "ok" =>
         \A i \in DOMAIN apis :
           LET directory == ResolveComponentPath(tree, apis[i].card)
               template == Append(directory, "index.wxml")
           IN
           /\ \A j \in DOMAIN apis : apis[j].name = apis[i].name => j = i
           /\ apis[i].card # NoCard /\ ~IsDirectory(tree, Append(directory, "index")) =>
                /\ directory \in Checked /\ EntryAt(tree, directory) \in {"directory", "file"}
                /\ \A file \in ComponentFiles : EntryAt(tree, Append(directory, file)) \in {"file", "nothing"}
                /\ LoadsCard(tree, apis[i].card) <=> template \in DOMAIN tree

\* A demo that prints ok has done with the server what it prints: it has confirmed
\* and paid a drink of its own, and then the first drink on the card, by the id on
\* the next card, in the name of nobody else; the last card shows that order as
\* paid, and the audit has the three calls.  Only a server that was restarted
\* between a confirm and its payment may have charged another order of that id.
BoughtAsShown ==
  \A c \in Cli : command[c].run = "run-demo" /\ printed[c] = "ok" =>
    /\ [i \in DOMAIN served[c] |-> served[c][i].kind] = <<"confirm", "pay", "confirm", "pay">>
    /\ served[c][1].drink = CheckedDrink /\ served[c][3].drink = Listing[1]
    /\ \A i \in {1, 3} :
         /\ served[c][i + 1].id = served[c][i].id
         /\ served[c][i + 1].in = served[c][i].in =>
              served[c][i + 1] = [served[c][i] EXCEPT !.kind = "pay"]
    /\ ContentsOf(card[c][1]) = <<Text(OrderIds[served[c][4].id]), Text("paid")>>
    /\ audit[c] = <<"searchDrinks", "confirmOrder", "payOrder">>

\* A demo fails only when something outside goes wrong: a file, the network, the
\* server, a script, an empty menu.  What the commands, the Skill and its cards
\* hand to each other always fits.
FailsForCause ==
  \A c \in Cli : command[c].run = "run-demo" /\ printed[c] = "error" => hindered[c]

\* A demo that has logged in, and a call-api that a server has answered, did so as
\* the identity that the command line names, by its document, its DID or its
\* handle, whatever the environment says, and as the default one only when nobody
\* named any.
LoggedInAsAsked ==
  \A c \in Cli :
    LET flags == command[c].flags
        named == {flags.document, flags.user, IF Given(flags.handle) THEN FindIdentity(flags.handle) ELSE Nobody}
                   \ {Nobody}
    IN
    \/ command[c].run = "run-demo" /\ position[c] > 3
    \/ command[c].run = "call-api" /\ printed[c] = "ok" /\ IsRemote(command[c].args)
    =>
      /\ named \subseteq {identity[c].user}
      /\ identity[c].user = DefaultIdentity => flags = NoInputs /\ command[c].env = NoInputs
=============================================================================
