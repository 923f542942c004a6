--------------------------- MODULE RenderTemplate ---------------------------
(***************************************************************************)
(* How the tree of a template becomes the Render IR of a card              *)
(* (crates/component-runtime: compiler.rs, render_ir.rs), and what it      *)
(* should become.                                                          *)
(***************************************************************************)
EXTENDS TemplateParser

----------------------------------------------------------------------------
(* Bindings *)

\* "length" is never the name of a field: it counts the fields of an object, too.
Segment(value, name) ==
  IF name = "length" /\ value.is = "object" THEN Number(Cardinality(DOMAIN value.fields))
                                            ELSE Field(value, name)

\* Locals hide the data of the card.
ResolvePath(context, path) ==
  LET first == Head(path) IN
  FoldLeft(Segment,
           IF first \in DOMAIN context.locals THEN context.locals[first]
                                              ELSE Field(context.data, first),
           Tail(path))

WithLocal(context, name, value) ==
  [context EXCEPT !.locals = (name :> value) @@ @]

----------------------------------------------------------------------------
(* Attribute values and texts *)

\* interpolate_value and interpolate_text
Interpolate(source, context) ==
  CASE source.is = "path" -> ResolvePath(context, source.path)
    [] source.is = "literal" -> Text(source.literal)
    [] source.is = "unsupported" -> Text("")

IsBlank(value) == value \in {Missing, Text("")}

----------------------------------------------------------------------------
(* The compiler *)

ImageEventsLast == <<"bindtap", "data-id", "data-order-id", "binderror", "bindload">>

\* The attributes that matter, in the order in which apply_attrs meets them (a
\* BTreeMap); the events of three of them, and the dataset keys of two.
AttrOrder == <<"binderror", "bindload", "bindtap", "data-id", "data-order-id">>

EventKind == [binderror |-> "image_error", bindload |-> "image_load", bindtap |-> "tap"]
DataKey == ("data-id" :> "id") @@ ("data-order-id" :> "order-id")

Has(element, name) == name \in DOMAIN element.attrs
NameOr(element, name, default) ==
  IF Has(element, name) THEN element.attrs[name].literal ELSE default

ItemName(element) == NameOr(element, "wx:for-item", "item")
IndexName(element) == NameOr(element, "wx:for-index", "index")

RenderNode(id, kind) ==
  [id |-> id, kind |-> kind, text |-> <<>>, events |-> <<>>, children |-> <<>>]

IsEvent(name, tag) == name = "bindtap" \/ (name \in DOMAIN EventKind /\ tag = "image")

\* A data- attribute goes to the events bound so far.
ApplyAttr(node, element, context, name) ==
  CASE IsEvent(name, element.tag) ->
         [node EXCEPT !.events =
            Append(@, [event |-> EventKind[name], method |-> element.attrs[name].literal,
                       dataset |-> <<>>])]
    [] name \in DOMAIN DataKey ->
         LET value == Interpolate(element.attrs[name], context) IN
         [node EXCEPT !.events =
            [i \in DOMAIN @ |-> [@[i] EXCEPT !.dataset = (DataKey[name] :> value) @@ @]]]
    [] OTHER -> node

ApplyAttrs(node, element, context) ==
  LET Apply(n, name) == IF Has(element, name) THEN ApplyAttr(n, element, context, name) ELSE n
  IN  FoldLeft(Apply, node, AttrOrder)

Kinds == {"view", "text", "image", "button", "scroll-view"}
KindOf(tag) == IF tag \in Kinds THEN tag ELSE "view"

\* A text element takes the texts of its children for its own and drops them.
Flatten(node) ==
  LET Collect(text, child) == text \o child.text IN
  IF node.kind # "text" \/ node.children = <<>> THEN node
  ELSE [node EXCEPT !.text = FoldLeft(Collect, <<>>, node.children), !.children = <<>>]

\* What the compiler has produced, and the next number for an id.
Compiled(nodes, next) == [nodes |-> nodes, next |-> next]

LoopAttrs == {"wx:for", "wx:for-item", "wx:for-index"}
WithoutLoop(element) ==
  [element EXCEPT !.attrs = [name \in DOMAIN @ \ LoopAttrs |-> @[name]]]

\* The contexts of the rows of a loop.
RowContexts(element, context) ==
  LET list == IF element.attrs["wx:for"].is = "path"
                THEN ResolvePath(context, element.attrs["wx:for"].path) ELSE Missing
      Row(i) == WithLocal(WithLocal(context, ItemName(element), list.items[i]),
                          IndexName(element), Number(i - 1))
  IN  IF list.is = "list" THEN [i \in DOMAIN list.items |-> Row(i)] ELSE <<>>

\* wx:if, in the context in which the element stands.
IsShown(element, context) ==
  ~Has(element, "wx:if") \/
    /\ element.attrs["wx:if"].is = "path"
    /\ IsTruthy(ResolvePath(context, element.attrs["wx:if"].path))

\* compile_node and compile_element, with the number for the next id.
RECURSIVE CompileNode(_, _, _)
CompileNode(node, context, next) ==
  LET Then(done, inner) == Compiled(done.nodes \o inner.nodes, inner.next)
      Row(done, row) == Then(done, CompileNode(WithoutLoop(node), row, done.next))
      Child(done, child) == Then(done, CompileNode(child, context, done.next))
  IN
  CASE node.is = "text" ->
         LET value == Interpolate(node.source, context) IN
         IF IsBlank(value) THEN Compiled(<<>>, next)
         ELSE Compiled(<<[RenderNode(<<"text", next>>, "text") EXCEPT !.text = <<value>>]>>,
                       next + 1)
    [] node.is = "element" /\ ~IsShown(node, context) -> Compiled(<<>>, next)
    [] node.is = "element" /\ IsShown(node, context) /\ Has(node, "wx:for") ->
         FoldLeft(Row, Compiled(<<>>, next), RowContexts(node, context))
    [] OTHER ->
         LET own == ApplyAttrs(RenderNode(<<node.tag, next>>, KindOf(node.tag)), node, context)
             children == FoldLeft(Child, Compiled(<<>>, next + 1), node.children)
         IN  Compiled(<<Flatten([own EXCEPT !.children = children.nodes])>>, children.next)

\* compile_wxml_to_render_ir: of several nodes the first one is the root.
Compile(tokens, data) ==
  LET document == ParseDocument(tokens)
      nodes == CompileNode(document.nodes[1], [data |-> data, locals |-> <<>>], 0).nodes
  IN  IF ~document.ok THEN [tag |-> "wxml", card |-> <<>>]
      ELSE IF nodes = <<>> THEN [tag |-> "missing_root", card |-> <<>>]
      ELSE [tag |-> "rendered", card |-> <<nodes[1]>>]

----------------------------------------------------------------------------
(* Events *)

\* find_tap_event: the first one, a node before its children.
RECURSIVE TapsOf(_)
TapsOf(node) ==
  LET Child(taps, child) == taps \o TapsOf(child)
      IsTap(e) == e.event = "tap"
  IN  FoldLeft(Child, SelectSeq(node.events, IsTap), node.children)

----------------------------------------------------------------------------
(* What a template says, in other words than the compiler's *)

\* The contents of an element, as often as its loop says and where its condition
\* holds; an event with all data- attributes of its element.
RECURSIVE Meant(_, _)
Meant(node, context) ==
  LET rows == IF Has(node, "wx:for") THEN RowContexts(node, context) ELSE <<context>>
      Bound(row) == [key \in {DataKey[name] : name \in DOMAIN DataKey \cap DOMAIN node.attrs} |->
                       Interpolate(node.attrs["data-" \o key], row)]
      Events(row) ==
        LET Event(name) == [event |-> EventKind[name], method |-> node.attrs[name].literal,
                            dataset |-> Bound(row)]
            IsBound(name) == Has(node, name) /\ IsEvent(name, node.tag)
            bound == SelectSeq(<<"binderror", "bindload", "bindtap">>, IsBound)
        IN  [i \in DOMAIN bound |-> Event(bound[i])]
      Row(items, row) ==
        LET Child(inner, child) == inner \o Meant(child, row) IN
        IF IsShown(node, row) THEN FoldLeft(Child, items \o Events(row), node.children)
                              ELSE items
  IN
  IF node.is = "text"
    THEN IF IsBlank(Interpolate(node.source, context)) THEN <<>>
         ELSE <<Interpolate(node.source, context)>>
    ELSE FoldLeft(Row, <<>>, rows)

\* The contents of a card, in the order of the nodes.
RECURSIVE Contents(_)
Contents(node) ==
  LET Child(items, child) == items \o Contents(child)
  IN  FoldLeft(Child, node.events \o node.text, node.children)

RECURSIVE NodeIds(_)
NodeIds(node) ==
  LET Child(ids, child) == ids \o NodeIds(child)
  IN  FoldLeft(Child, <<node.id>>, node.children)

\* The conditions, elsewhere than on a loop over what they look at; no loop at
\* the root; text elements that hold nothing but texts.
RECURSIVE IsPlain(_, _)
IsPlain(node, isRoot) ==
  node.is = "text" \/
    /\ Has(node, "wx:for") =>
         /\ ~isRoot
         /\ (Has(node, "wx:if") /\ node.attrs["wx:if"].is = "path") =>
              Head(node.attrs["wx:if"].path) \notin {ItemName(node), IndexName(node)}
    /\ \A i \in DOMAIN node.children :
         /\ IsPlain(node.children[i], FALSE)
         /\ node.tag = "text" => node.children[i].is = "text"
=============================================================================
