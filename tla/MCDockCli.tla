----------------------------- MODULE MCDockCli -----------------------------
(* A small package with a script and a component in every state of their   *)
(* files, and manifests that name the component in every way; all short    *)
(* sequences of tags and texts; a card with a loop, a condition, an inner  *)
(* loop and events in all combinations, for several data; one call or demo *)
(* with every way to name an identity; two demos at once; the chat app,    *)
(* two servers and three taps long.                                        *)
EXTENDS MacChat, RenderTemplate
CONSTANTS c1, c2

MCScriptStem == ("index.js" :> "index") @@ ("pay.js" :> "pay")

Places(path, kinds) == {<<>>} \cup {path :> kind : kind \in kinds}
Trees(S, T) == {s @@ t : s \in S, t \in T}

Drink == <<"components", "drink">>
In(directory, name) == Append(directory, name)

MCTrees ==
  LET manifest == (<<"mcp.json">> :> "file") @@ (<<"components">> :> "directory")
      skill == Places(<<"SKILL.md">>, {"file", "linked file"})
      entry == Places(<<"index.js">>, {"file", "directory"})
      script == {<<>>, <<"apis">> :> "file"} \cup
        {(<<"apis">> :> "directory") @@ (<<"apis", "pay.js">> :> kind) : kind \in {"file", "directory", "linked file"}}
      files == Trees(Places(In(Drink, "index.wxml"), {"file", "directory", "linked file"}),
                     Trees(Places(In(Drink, "index.js"), {"file"}), Places(In(Drink, "index"), {"directory"})))
      component == {<<>>, Drink :> "file", Drink :> "linked directory"} \cup Trees({Drink :> "directory"}, files)
      fine == (<<"SKILL.md">> :> "file") @@ (<<"index.js">> :> "file")
  IN  Trees({manifest}, Trees(skill, Trees(entry, script)) \cup Trees({fine}, component))

Paths == {Drink, In(Drink, "index"), In(Drink, ""), <<"">>, <<"", "drink">>, <<"..">>, <<"index.js">>,
          <<"components", "..", "components", "drink">>, <<"components", "tea">>}

Manifests ==
  LET Pay(complete, path) == [name |-> "pay", complete |-> complete, card |-> path]
      components == {<<>>} \cup {<<path>> : path \in Paths}
  IN  [apis : {<<Pay(TRUE, path)>> : path \in {NoCard} \cup Paths}, components : components]
        \cup [apis : {<<Pay(FALSE, NoCard)>>, <<Pay(TRUE, NoCard), Pay(TRUE, NoCard)>>}, components : {<<>>}]

MCPackages == [tree : MCTrees, parses : {TRUE}, manifest : Manifests]
                \cup [tree : MCTrees, parses : {FALSE}, manifest : {[apis |-> <<>>, components |-> <<>>]}]

MCTokens ==
  LET tags == {Opening("view", NoAttrs), Opening("text", NoAttrs), Closing("view"), Closing("text"),
               Written(Literal("words"))}
      all == tags \cup {SelfClosing("image", NoAttrs), Written(Literal("")), Malformed}
      Merged(tokens) == \A i \in 2 .. Len(tokens) : ~(tokens[i].is = "written" /\ tokens[i - 1].is = "written")
  IN  {tokens \in [1 .. 5 -> tags] \cup UNION {[1 .. n -> all] : n \in 0 .. 4} : Merged(tokens)}

Optional(name, values) == {NoAttrs} \cup {name :> v : v \in values}
Both(S, T) == {s @@ t : s \in S, t \in T}

Loops == Both(Optional("wx:for", {Bind(<<"drinks">>), Bind(<<"nothing">>), Unsupported}),
              Optional("wx:for-item", {Literal("row")}))
Conditions == Optional("wx:if", {Bind(<<"drinks", "length">>), Bind(<<"item", "tags">>), Unsupported})
InnerLoops == Both(Both(Optional("wx:for", {Bind(<<"item", "tags">>), Bind(<<"row", "tags">>)}),
                        Both(Optional("wx:for-item", {Literal("tag")}), Optional("wx:for-index", {Literal("n")}))),
                   Optional("wx:if", {Bind(<<"item", "tags">>)}))

Card(outer, inner) ==
  << Opening("view", NoAttrs),
       Opening("view", ("bindtap" :> Literal("select")) @@ ("data-id" :> Bind(<<"item", "id">>)) @@ outer),
         SelfClosing("image", ("binderror" :> Literal("failed")) @@ ("bindload" :> Literal("loaded"))
                                @@ ("data-order-id" :> Bind(<<"id">>))),
         Opening("badge", inner),
           Opening("text", NoAttrs), Written(Bind(<<"item">>)), Closing("text"),
           Opening("button", ("bindtap" :> Literal("buy")) @@ ("data-id" :> Bind(<<"n">>))), Closing("button"),
         Closing("badge"),
       Closing("view"),
     Closing("view") >>

Tagged(name, tags) == Object([id |-> Text(name), tags |-> List(tags)])
Data(drinks) == Object([drinks |-> drinks, id |-> Text("own")])
MCData == {Data(Missing), Data(List(<<>>)),
           Data(List(<<Tagged("a", <<Text("x"), Text("")>>), Tagged("b", <<>>)>>))}

Previews ==
  {Preview(tokens, Data(Missing)) : tokens \in MCTokens}
    \cup {Preview(Card(loop @@ condition, inner), data) :
            loop \in Loops, condition \in Conditions, inner \in InnerLoops, data \in MCData}

MCListing == <<"latte", "oat-latte">>
MCOrderIds == <<"order_demo_001", "order_demo_002", "order_demo_003", "order_demo_004">>

None == Nobody
MCStore == [alice |-> [index |-> "alice", directories |-> {"bob"}],
            bob |-> [index |-> None, directories |-> {"bob"}],
            twins |-> [index |-> None, directories |-> {"alice", "bob"}]]

Naming == {NoInputs} \cup
  {[NoInputs EXCEPT !.document = d, !.key = k, !.user = u] : d, k, u \in {None, "alice", "bob"}} \cup
  {[NoInputs EXCEPT !.handle = h, !.root = r] : h \in {None, "alice", "bob", "twins"}, r \in {None, "store"}}

MCArguments == {Object(<<>>), Object([drinkId |-> Text("latte")]),
                Object([drinkId |-> Text("latte"), orderId |-> Text("order_demo_001"), serverUrl |-> Text("server")])}

Alone(it) == [c \in Cli |-> IF c = c1 THEN it ELSE Idle]
MCCommands ==
  {Alone(it) : it \in {Validate(package) : package \in MCPackages} \cup Previews \cup {Demo(flags, env) : flags, env \in Naming}
                \cup {ApiCall(api, args, env) : api \in Apis, args \in MCArguments, env \in Naming}}
    \cup {[c \in Cli |-> Demo(NoInputs, NoInputs)], [c \in Cli |-> Idle]}

----------------------------------------------------------------------------

\* A template whose tags do not nest, or without content, never becomes a card, and
\* every other one is parsed (parse_document against a definition by depth).  A card
\* shows what its template means for its data, every row with its own item and all
\* events with all data- attributes, in order, and no two of its nodes have the same
\* id.  This leaves out what the compiler is known to do differently: a wx:if on a
\* loop over the variables of that loop, elements in a text, a looped root.
CardIsItsTemplate ==
  \A c \in Cli :
    LET document == ParseDocument(command[c].tokens).nodes[1]
        meant == Meant(document, [data |-> command[c].data, locals |-> <<>>])
    IN
    command[c].run = "preview-component" /\ printed[c] # "none" =>
      /\ printed[c] = "wxml" <=> ~IsWellFormed(command[c].tokens)
      /\ printed[c] \in {"rendered", "missing_root"} /\ IsPlain(document, TRUE) =>
         /\ printed[c] = "missing_root" => meant = <<>>
         /\ printed[c] = "rendered" => Contents(card[c][1]) = meant /\ IsInjective(NodeIds(card[c][1]))
=============================================================================
