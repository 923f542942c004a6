---------------------------- MODULE CoffeeCards ----------------------------
(***************************************************************************)
(* The cards of examples/coffee-skill/components: their templates, what    *)
(* their scripts make of a result, and the API calls behind their buttons. *)
(* Titles, pictures, prices and classes are left out.                      *)
(***************************************************************************)
EXTENDS TemplateData

Template(component) ==
  CASE component = "drink-list" ->
         << Opening("view", NoAttrs),
              Opening("scroll-view", NoAttrs),
                Opening("view", ("wx:for" :> Bind(<<"drinks">>)) @@ ("bindtap" :> Literal("selectDrink"))
                                  @@ ("data-id" :> Bind(<<"item", "id">>))),
                  SelfClosing("image", ("bindload" :> Literal("onImageLoad"))
                                         @@ ("binderror" :> Literal("onImageError"))),
                  Opening("button", ("bindtap" :> Literal("confirmDrink"))
                                      @@ ("data-id" :> Bind(<<"item", "id">>))),
                  Closing("button"),
                Closing("view"),
              Closing("scroll-view"),
              Opening("text", "wx:if" :> Bind(<<"empty">>)), Written(Literal("no drinks")), Closing("text"),
            Closing("view") >>
    [] component = "order-confirm" ->
         << Opening("view", NoAttrs),
              Opening("text", NoAttrs), Written(Bind(<<"drinkName">>)), Closing("text"),
              Opening("button", ("bindtap" :> Literal("payOrder"))
                                  @@ ("data-order-id" :> Bind(<<"orderId">>))),
              Closing("button"),
            Closing("view") >>
    [] component = "payment-result" ->
         << Opening("view", NoAttrs),
              Opening("text", NoAttrs), Written(Bind(<<"orderId">>)), Closing("text"),
              Opening("text", NoAttrs), Written(Bind(<<"status">>)), Closing("text"),
            Closing("view") >>

\* a || b
OrElse(a, b) == IF IsTruthy(a) THEN a ELSE b

\* Where the server is: _meta of the result, or the arguments of the call.
RemoteBaseUrl(arguments, meta) ==
  OrElse(Field(meta, "remoteBaseUrl"),
         OrElse(Field(arguments, "remoteBaseUrl"), Field(arguments, "serverUrl")))

\* The data of the card, once its listener for the result has run.
CardData(component, arguments, result) ==
  LET content == result.content
      drinks == Field(content, "drinks")
      remote == RemoteBaseUrl(arguments, result.meta)
  IN
  CASE component = "drink-list" ->
         Object([drinks |-> drinks, empty |-> Flag(drinks.items = <<>>), remoteBaseUrl |-> remote])
    [] component = "order-confirm" ->
         Object([orderId |-> Field(content, "orderId"), drinkName |-> Field(content, "drinkId"),
                 remoteBaseUrl |-> remote])
    [] component = "payment-result" ->
         Object([orderId |-> Field(content, "orderId"), status |-> Field(content, "status")])

TapArgumentsAlone(method, dataset, data) ==
  CASE method = "confirmDrink" -> Object([drinkId |-> DatasetValue(dataset, "id")])
    [] method = "payOrder" -> Object([orderId |-> DatasetValue(dataset, "orderId")])

\* The arguments of the api/call that a tap asks for; a dataset in camel case.
TapArguments(method, dataset, data) ==
  CASE method = "confirmDrink" ->
         Object([drinkId |-> DatasetValue(dataset, "id"), remoteBaseUrl |-> Field(data, "remoteBaseUrl")])
    [] method = "payOrder" ->
         Object([orderId |-> DatasetValue(dataset, "orderId"), remoteBaseUrl |-> Field(data, "remoteBaseUrl")])
=============================================================================
