------------------------------ MODULE MacChat ------------------------------
(***************************************************************************)
(* The chat app (mac-app: PipelineViewModel.swift, DemoPipelineRunner.swift,*)
(* ProcessRunner.swift, ContentView.swift), a user of the dock-cli.        *)
(*                                                                         *)
(* A message that asks for coffee starts a server of the app's own; the    *)
(* app then runs one call-api after the other and puts the cards it prints *)
(* into the conversation, where they stay.  A tap on any of them is a new  *)
(* turn, one at a time.  A call that takes too long is ended, but its      *)
(* request may be on the way.                                              *)
(*                                                                         *)
(* Either the app is open or somebody types the commands of DockCli.       *)
(***************************************************************************)
EXTENDS DockCli

CONSTANTS
  MaxSessions,  \* bound: servers that the app starts
  MaxTaps       \* bound: taps on cards

ASSUME MacChatAssumption == MaxSessions \in Nat /\ MaxTaps \in Nat

VARIABLES
  turn,         \* what the app is busy with; "ready" when isRunning is false
  taps,         \* so many taps there were
  runtime,      \* there is a coffeeRuntime
  up,           \* its server listens
  child,        \* the process that the app waits for
  tapped,       \* the message whose card this turn has tapped, or 0
  messages      \* the conversation: the messages with a card

chat == <<turn, taps, runtime, child, tapped, messages>>

Waiting == [searching |-> "searchDrinks", confirming |-> "confirmOrder", paying |-> "payOrder"]

NobodyTypes == \A c \in Cli : command[c] = Idle

ChatInit ==
  /\ CliInit
  /\ turn = IF NobodyTypes THEN "ready" ELSE "closed"
  /\ taps = 0
  /\ runtime = FALSE
  /\ up = ~NobodyTypes
  /\ child = CHOOSE c \in Cli : TRUE
  /\ tapped = 0
  /\ messages = <<>>

----------------------------------------------------------------------------
(* The server and the processes of the app *)

Unanswered == [c \in Cli |-> IF wire[c].state = "sent" THEN Request("lost", Missing, Missing) ELSE wire[c]]

\* RunningDemoServer.stop: SIGTERM, and wait for the end.
StopServer == up' = FALSE /\ wire' = Unanswered

\* A process of the app that has yet to begin; nobody asks what hindered it.
Begins(c, it) ==
  /\ command' = [command EXCEPT ![c] = it]
  /\ position' = [position EXCEPT ![c] = 1]
  /\ identity' = [identity EXCEPT ![c] = NoInputs]
  /\ card' = [card EXCEPT ![c] = <<>>]
  /\ arguments' = [arguments EXCEPT ![c] = Missing]
  /\ audit' = [audit EXCEPT ![c] = <<>>]
  /\ printed' = [printed EXCEPT ![c] = "none"]
  /\ served' = [served EXCEPT ![c] = <<>>]
  /\ hindered' = [hindered EXCEPT ![c] = TRUE]

\* callAPI: a process of its own, with no flags.  It may not take the place of one
\* whose request is still on the way.
RunChild(api, args) ==
  LET vacant == {c \in Cli : wire[c].state # "sent"}
      c == CHOOSE v \in vacant : TRUE
  IN  /\ vacant # {}
      /\ child' = c
      /\ wire' = [wire EXCEPT ![c] = Quiet]
      /\ Begins(c, ApiCall(api, args, NoInputs))

Untouched == UNCHANGED <<command, position, wire, local, printed, server, hindered, up>>

----------------------------------------------------------------------------
(* The turns *)

\* sendCurrentMessage: the recognition falls back on words, so it never fails.
SendMessage ==
  /\ turn = "ready"
  /\ turn' = "recognizing"
  /\ UNCHANGED <<taps, runtime, child, tapped, messages>> /\ Untouched

\* The session before is stopped, whatever its cards promise.
Recognize(wantsCoffee) ==
  /\ turn = "recognizing"
  /\ IF wantsCoffee
       THEN /\ turn' = "starting"
            /\ IF runtime THEN StopServer ELSE UNCHANGED <<wire, up>>
       ELSE turn' = "ready" /\ UNCHANGED <<wire, up>>
  /\ UNCHANGED <<taps, runtime, child, tapped, messages,
                 command, position, local, printed, server, hindered>>

\* startInteractiveSession: FastAPI or, if that does not start, the Rust server.
StartSession ==
  /\ turn = "starting" /\ run <= MaxSessions
  /\ turn' = "searching"
  /\ runtime' = TRUE
  /\ up' = TRUE
  /\ run' = run + 1
  /\ orders' = <<>>
  /\ RunChild("searchDrinks", Object([query |-> Text("latte"), serverUrl |-> Text("server")]))
  /\ UNCHANGED <<taps, tapped, messages>>

\* Neither does; coffeeRuntime still is the one that was stopped.
StartFails ==
  /\ turn = "starting"
  /\ turn' = "ready"
  /\ UNCHANGED <<taps, runtime, child, tapped, messages>> /\ Untouched

\* The taps a card offers: by its root, or by its content when it came without.
DrinksOn(message) ==
  LET listed == {item.fields["id"] : item \in Range(Field(message.content, "drinks").items)}
      IsConfirm(tap) == tap.method = "confirmDrink"
  IN  IF message.card = <<>> THEN listed
      ELSE {DatasetValue(tap.dataset, "id") : tap \in Range(SelectSeq(TapsOn(message.card[1]), IsConfirm))}
             \cap listed

OffersPayment(message) ==
  message.card # <<>> => \E tap \in Range(TapsOn(message.card[1])) : tap.method = "payOrder"

\* Any card in the conversation can be tapped, of whatever session it is.
BeginTap(i, api, args, busy) ==
  /\ turn = "ready" /\ taps < MaxTaps
  /\ runtime
  /\ i \in DOMAIN messages
  /\ turn' = busy
  /\ taps' = taps + 1
  /\ tapped' = i
  /\ RunChild(api, args)
  /\ UNCHANGED <<runtime, up, messages, orders, run>>

SelectDrink(i) ==
  /\ i \in DOMAIN messages /\ messages[i].api = "searchDrinks"
  /\ \E drink \in DrinksOn(messages[i]) :
       BeginTap(i, "confirmOrder", Object([drinkId |-> drink, remoteBaseUrl |-> Text("server")]), "confirming")

LatestOrder(i) == Field(messages[Len(messages)].content, "orderId")

\* The id in the card that was tapped.
OrderOn(i) == Field(messages[i].content, "orderId")

PayOrder(i) ==
  /\ i \in DOMAIN messages /\ messages[i].api = "confirmOrder"
  /\ OffersPayment(messages[i])
  /\ BeginTap(i, "payOrder", Object([orderId |-> OrderOn(i), remoteBaseUrl |-> Text("server")]), "paying")

\* The child has printed its result; a payment ends the session.
TurnSucceeds ==
  /\ turn \in DOMAIN Waiting /\ printed[child] = "ok"
  /\ messages' = Append(messages,
       [api |-> Waiting[turn], content |-> wire[child].reply, card |-> card[child],
        tapped |-> tapped, done |-> served[child], in |-> run])
  /\ turn' = "ready"
  /\ tapped' = 0
  /\ Begins(child, Idle)
  /\ IF turn = "paying"
       THEN StopServer /\ runtime' = FALSE
       ELSE wire' = [wire EXCEPT ![child] = Quiet] /\ UNCHANGED <<up, runtime>>
  /\ UNCHANGED <<taps, child, orders, run>>

\* Its request may still be on the way.
TurnFails ==
  /\ turn \in DOMAIN Waiting /\ printed[child] = "error"
  /\ turn' = "ready"
  /\ tapped' = 0
  /\ IF wire[child].state = "sent"
       THEN UNCHANGED <<command, position, wire, local, printed, served, hindered>>
       ELSE Begins(child, Idle) /\ wire' = [wire EXCEPT ![child] = Quiet]
  /\ UNCHANGED <<taps, runtime, child, messages, orders, run, up>>

\* ProcessRunner.run: the child is terminated.
TimeOut ==
  /\ turn \in DOMAIN Waiting /\ printed[child] = "none"
  /\ Fail(child)
  /\ UNCHANGED <<chat, wire, local, hindered, up>>

Reset ==
  /\ turn = "ready" /\ (runtime \/ messages # <<>>)
  /\ messages' = <<>>
  /\ runtime' = FALSE
  /\ IF runtime THEN StopServer ELSE UNCHANGED <<wire, up>>
  /\ UNCHANGED <<turn, taps, child, tapped, command, position, local, printed, server, hindered>>

----------------------------------------------------------------------------

\* A process goes on; a server that does not listen answers nothing.
CliStep ==
  /\ \E c \in Cli : ProcessStep(c) /\ (wire[c].state = "sent" /\ wire'[c].state = "answered" => up)
  /\ UNCHANGED <<chat, up>>

\* It crashes; nobody notices before a request is sent.
ServerDies ==
  /\ turn # "closed" /\ up
  /\ \E c \in Cli : wire[c].state = "sent"
  /\ StopServer
  /\ UNCHANGED <<chat, command, position, local, printed, server, hindered>>

ChatStep ==
  \/ SendMessage \/ (\E wants \in BOOLEAN : Recognize(wants))
  \/ StartSession \/ StartFails
  \/ (\E i \in DOMAIN messages : SelectDrink(i) \/ PayOrder(i))
  \/ TurnSucceeds \/ TurnFails \/ TimeOut
  \/ Reset \/ ServerDies

ChatNext ==
  \/ CliStep
  \/ turn = "closed" /\ Restart /\ UNCHANGED <<chat, up>>
  \/ ChatStep

ChatSpec == ChatInit /\ [][ChatNext]_<<cliVars, chat, up>>

----------------------------------------------------------------------------

\* What a payment card reports is the one payment that the turn has made: of the
\* order on the card that was tapped, by its id, and as long as that card's
\* session lives, of the drink that was chosen on the list before.  No process
\* that timed out and no card above or below takes part.  A card of an earlier
\* session is left out: the ids start over, and it pays whatever has its id now.
ChatPaysAsShown ==
  LET OrderShown(message) == Field(message.content, "orderId") IN
  \A message \in Range(messages) :
    LET before == messages[message.tapped]
        effect == message.done[1]
    IN
    /\ message.api = "confirmOrder" =>
         /\ Len(message.done) = 1 /\ effect.kind = "confirm"
         /\ Text(effect.drink) \in DrinksOn(before)
         /\ OrderShown(message) = Text(OrderIds[effect.id])
    /\ message.api = "payOrder" =>
         /\ Len(message.done) = 1 /\ effect.kind = "pay"
         /\ OrderShown(message) = Text(OrderIds[effect.id])
         /\ OrderShown(message) = OrderShown(before)
         /\ before.in = message.in => effect = [before.done[1] EXCEPT !.kind = "pay"]
=============================================================================
