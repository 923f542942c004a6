------------------------------- MODULE ApiVm -------------------------------
(***************************************************************************)
(* How the JavaScript of a Skill is loaded and one of its APIs called      *)
(* (crates/js-runtime-quickjs: api_vm.rs, bridge.rs, middleware.rs,        *)
(* commonjs.rs).                                                           *)
(*                                                                         *)
(* load_skill evaluates the package once in a runtime of its own, to learn *)
(* which APIs it registers.  Every call makes another runtime, evaluates   *)
(* the package again and runs the middleware chain around the handler.     *)
(* What the scripts do is free: they require each other, register, throw,  *)
(* catch, call next() early, late or never, wait, or leave work behind.    *)
(* They require and register while the package is loaded, not in a call,   *)
(* and their results are data that JSON can carry.                         *)
(*                                                                         *)
(* Only one function of a runtime runs at a time.  `stack` holds the       *)
(* layers whose code is on the call stack, the innermost first; a function *)
(* that awaits leaves it and comes back as a job, when it is empty.  Jobs  *)
(* are taken in any order.                                                 *)
(***************************************************************************)
EXTENDS Naturals, FiniteSets, Sequences, SequencesExt

CONSTANTS
  Module,       \* the ids of the package's modules: sequences of names
  Entry,        \* the entry module
  Specifier,    \* what the scripts require: sequences of path segments
  Api,          \* names of APIs
  Declared,     \* those in the manifest
  MaxLayers,    \* bound: middlewares a package uses
  MaxAwaits     \* bound: awaits in one call

NoModule == <<>>

ASSUME ApiVmAssumption ==
  /\ Entry \in Module
  /\ NoModule \notin Module
  /\ Declared \subseteq Api
  /\ MaxLayers \in Nat
  /\ MaxAwaits \in Nat

VARIABLES
  phase,        \* what the host is doing with the Skill
  vm,           \* registered_apis of the ApiVm, once there is one
  api,          \* the API of the call
  requiring,    \* the modules whose bodies are on the stack, innermost first
  cache,        \* __dockCache: how far the cached module has come
  runs,         \* history: how often the body of a module was entered
  swallowed,    \* history: a body failed and its requirer went on
  registered,   \* the names in __dockRegisteredApis
  layers,       \* the length of __dockMiddlewares
  stack,        \* the layers that execute; the handler is layer number layers
  index,        \* of __dockRunMiddlewareChain, plus one
  mode,         \* how far the function of a layer has come
  awaits,       \* what it waits for
  spent,        \* awaits so far
  called,       \* it has called next()
  result,       \* what its function has produced
  outcome,      \* what the promise of its dispatch() has produced
  starts,       \* history: how often it was started
  answer        \* what the host gets

load == <<requiring, cache, runs, swallowed, registered, layers>>
chain == <<stack, index, mode, awaits, spent, called, result, outcome, starts>>
host == <<phase, vm, api, answer>>
vars == <<host, load, chain>>

Layers == 0 .. MaxLayers

Loading == {"register", "reload"}
Phases == Loading \cup {"refused", "loaded", "chain", "over"}
CacheStates == {"absent", "running", "loaded", "failed"}
Modes == {"idle", "fresh", "waiting", "resumed", "over"}
Answers == {"none", "ok", "invalid", "vm_failed", "timeout"}

\* wx.login, wx.request and any other promise that a job settles; the promise
\* that next() returned; a promise that nobody settles.
Awaitable == {"host", "next", "never"}

\* A value that is an AtomicApiResult, or another one; undefined; an error,
\* "interrupted" by the time-out or by that message; an exception that left
\* dispatch() before there was a promise.
Tags == {"pending", "value", "malformed", "undefined", "failed", "interrupted", "threw"}
Outcome == [tag : Tags, from : Layers]
Pending == [tag |-> "pending", from |-> 0]
Made(tag, p) == [tag |-> tag, from |-> p]

IsSettled(o) == o.tag \notin {"pending", "threw"}

TypeOK ==
  /\ phase \in Phases
  /\ vm \subseteq Api
  /\ api \in Api
  /\ requiring \in Seq(Module)
  /\ cache \in [Module -> CacheStates]
  /\ runs \in [Module -> Nat]
  /\ swallowed \in BOOLEAN
  /\ registered \subseteq Api
  /\ layers \in Layers
  /\ stack \in Seq(Layers)
  /\ index \in 0 .. MaxLayers + 1
  /\ mode \in [Layers -> Modes]
  /\ awaits \in [Layers -> Awaitable]
  /\ spent \in 0 .. MaxAwaits
  /\ called \in [Layers -> BOOLEAN]
  /\ result \in [Layers -> Outcome]
  /\ outcome \in [Layers -> Outcome]
  /\ starts \in [Layers -> Nat]
  /\ answer \in Answers

----------------------------------------------------------------------------
(* One runtime *)

FreshLoad ==
  /\ requiring' = <<>>
  /\ cache' = [m \in Module |-> "absent"]
  /\ runs' = [m \in Module |-> 0]
  /\ swallowed' = FALSE
  /\ registered' = {}
  /\ layers' = 0

FreshChain ==
  /\ stack' = <<>>
  /\ index' = 0
  /\ mode' = [p \in Layers |-> "idle"]
  /\ awaits' = [p \in Layers |-> "host"]
  /\ spent' = 0
  /\ called' = [p \in Layers |-> FALSE]
  /\ result' = [p \in Layers |-> Pending]
  /\ outcome' = [p \in Layers |-> Pending]
  /\ starts' = [p \in Layers |-> 0]

\* The host has just called load_skill.
Init ==
  /\ phase = "register" /\ vm = {} /\ api \in Api /\ answer = "none"
  /\ requiring = <<>> /\ swallowed = FALSE /\ registered = {} /\ layers = 0
  /\ cache = [m \in Module |-> "absent"]
  /\ runs = [m \in Module |-> 0]
  /\ stack = <<>> /\ index = 0 /\ spent = 0
  /\ mode = [p \in Layers |-> "idle"]
  /\ awaits = [p \in Layers |-> "host"]
  /\ called = [p \in Layers |-> FALSE]
  /\ result = [p \in Layers |-> Pending]
  /\ outcome = [p \in Layers |-> Pending]
  /\ starts = [p \in Layers |-> 0]

\* The host tries a package again that was refused.
LoadSkill ==
  /\ phase = "refused"
  /\ phase' = "register"
  /\ FreshLoad
  /\ UNCHANGED <<vm, api, answer, chain>>

\* Only an API that was registered at load time gets a runtime.
BeginCall(a) ==
  /\ phase \in {"loaded", "over"}
  /\ api' = a
  /\ IF a \in vm THEN phase' = "reload" /\ answer' = "none"
                 ELSE phase' = "over" /\ answer' = "invalid"
  /\ FreshLoad /\ FreshChain
  /\ UNCHANGED vm

End(a) == phase' = "over" /\ answer' = a /\ UNCHANGED <<vm, api>>

----------------------------------------------------------------------------
(* require *)

\* __dockNormalizeRequire: a path that starts with a dot is taken from the
\* directory of the module that requires, any other from the package's root; a
\* step above the root, or a module that is not there, is an error.
Normalize(parent, specifier) ==
  LET base == IF Head(specifier) \in {".", ".."} THEN Front(parent) ELSE <<>>
      Walk(path, part) ==
        CASE path = <<"outside">> -> path
          [] part = "." -> path
          [] part = ".." -> IF path = <<>> THEN <<"outside">> ELSE Front(path)
          [] OTHER -> Append(path, part)
      id == FoldLeft(Walk, base, specifier)
  IN  IF id \in Module THEN id ELSE NoModule

EnterUncached(m) ==
  /\ requiring' = <<m>> \o requiring
  /\ runs' = [runs EXCEPT ![m] = @ + 1]
  /\ UNCHANGED <<cache, swallowed>>

\* __dockRequire puts the module into the cache before its body runs.
Enter(m) ==
  /\ cache' = [cache EXCEPT ![m] = "running"]
  /\ requiring' = <<m>> \o requiring
  /\ runs' = [runs EXCEPT ![m] = @ + 1]
  /\ UNCHANGED swallowed

\* A cached module gives its exports, whatever there is of them.
Require(specifier) ==
  /\ phase \in Loading
  /\ requiring # <<>>
  /\ LET m == Normalize(Head(requiring), specifier) IN
       m # NoModule /\ cache[m] = "absent" /\ Enter(m)
  /\ UNCHANGED <<host, registered, layers, chain>>

LoadEntry ==
  /\ phase \in Loading
  /\ cache[Entry] = "absent"
  /\ Enter(Entry)
  /\ UNCHANGED <<host, registered, layers, chain>>

BodyReturns ==
  /\ requiring # <<>>
  /\ cache' = [cache EXCEPT ![Head(requiring)] = "loaded"]
  /\ requiring' = Tail(requiring)
  /\ UNCHANGED <<host, runs, swallowed, registered, layers, chain>>

ErrorInLoadIgnored ==
  UNCHANGED <<host, chain>>

ErrorInLoadForgotten ==
  phase' = "refused" /\ UNCHANGED <<vm, api, answer, chain>>

\* The entry module failed: so does load_skill, or the call.
ErrorInLoad ==
  /\ IF phase = "register" THEN phase' = "refused" /\ UNCHANGED <<vm, api, answer>>
                           ELSE End("vm_failed")
  /\ UNCHANGED chain

\* An error (a throw, a bad require, a duplicate registration, the time-out)
\* leaves n bodies.  The next one catches it; without a next one the load fails.
\* The modules stay in the cache.
BodyThrows(n) ==
  LET left == {requiring[i] : i \in 1 .. n} IN
  /\ n \in 1 .. Len(requiring)
  /\ cache' = [m \in Module |-> IF m \in left THEN "failed" ELSE cache[m]]
  /\ requiring' = SubSeq(requiring, n + 1, Len(requiring))
  /\ IF n = Len(requiring)
       THEN ErrorInLoad /\ UNCHANGED swallowed
       ELSE swallowed' = TRUE /\ UNCHANGED <<host, chain>>
  /\ UNCHANGED <<runs, registered, layers>>

\* The entry has been evaluated.
Evaluated == requiring = <<>> /\ cache[Entry] # "absent"

\* A body runs, or a job one of them has left behind (drain_jobs).
Evaluating == phase \in Loading /\ (requiring # <<>> \/ Evaluated)

\* A second registration of a name throws and changes nothing.
RegisterAPI(a) ==
  /\ Evaluating
  /\ a \notin registered
  /\ registered' = registered \cup {a}
  /\ UNCHANGED <<host, requiring, cache, runs, swallowed, layers, chain>>

Use ==
  /\ Evaluating
  /\ layers < MaxLayers
  /\ layers' = layers + 1
  /\ UNCHANGED <<host, requiring, cache, runs, swallowed, registered, chain>>

RegistrationComplete == Declared \subseteq registered

\* validate_registration
RegistrationValid == registered = Declared

\* drain_jobs has left nothing to do.
Registered ==
  /\ phase = "register" /\ Evaluated
  /\ IF RegistrationValid THEN phase' = "loaded" /\ vm' = registered
                          ELSE phase' = "refused" /\ UNCHANGED vm
  /\ UNCHANGED <<api, answer, load, chain>>

----------------------------------------------------------------------------
(* The chain *)

\* dispatch(p), past its guard: the function of layer p starts.
Dispatch(p) ==
  /\ stack' = <<p>> \o stack
  /\ index' = p + 1
  /\ mode' = [mode EXCEPT ![p] = "fresh"]
  /\ starts' = [starts EXCEPT ![p] = @ + 1]

\* __dockCallApi: the package may not have registered the API this time.
CallApi ==
  /\ phase = "reload" /\ Evaluated
  /\ IF api \in registered
       THEN phase' = "chain" /\ Dispatch(0) /\ UNCHANGED <<vm, api, answer>>
       ELSE End("vm_failed") /\ UNCHANGED <<stack, index, mode, starts>>
  /\ UNCHANGED <<load, awaits, spent, called, result, outcome>>

\* next() of layer p: once, and dispatch() only ever goes forward.
MayDispatch(p) == ~called[p] /\ p + 1 >= index

\* Whoever has got hold of next() calls it: the layer itself, a layer it gave
\* it to, or a job left behind.  A second call throws.
CallNext(p) ==
  /\ phase = "chain"
  /\ p < layers /\ starts[p] > 0
  /\ MayDispatch(p)
  /\ called' = [called EXCEPT ![p] = TRUE]
  /\ Dispatch(p + 1)
  /\ UNCHANGED <<host, load, awaits, spent, result, outcome>>

\* The innermost function goes on to its end.
Leave(p, how) ==
  /\ phase = "chain"
  /\ stack # <<>> /\ Head(stack) = p
  /\ stack' = Tail(stack)
  /\ mode' = [mode EXCEPT ![p] = how]
  /\ UNCHANGED <<host, load, index, called, starts>>

\* It waits; for next() only if that gave it a promise.
Await(p, what) ==
  /\ Leave(p, "waiting")
  /\ spent < MaxAwaits
  /\ what = "next" => p < layers /\ called[p] /\ outcome[p + 1].tag # "threw"
  /\ awaits' = [awaits EXCEPT ![p] = what]
  /\ spent' = spent + 1
  /\ UNCHANGED <<result, outcome>>

\* What p waits for has come.
Arrived(p) ==
  \/ awaits[p] = "host"
  \/ awaits[p] = "next" /\ IsSettled(outcome[p + 1])

\* An error of an awaited next() is thrown here: the layer may Throw as well.
Resume(p) ==
  /\ phase = "chain"
  /\ stack = <<>> /\ mode[p] = "waiting" /\ Arrived(p)
  /\ stack' = <<p>>
  /\ mode' = [mode EXCEPT ![p] = "resumed"]
  /\ UNCHANGED <<host, load, index, awaits, spent, called, result, outcome, starts>>

\* It returns something of its own, nothing, or what next() gave it.
Return(p) ==
  /\ Leave(p, "over")
  /\ \E o \in {Made(tag, p) : tag \in {"value", "malformed", "undefined"}}
               \cup (IF mode[p] = "resumed" /\ awaits[p] = "next" THEN {outcome[p + 1]} ELSE {}) :
       /\ o.tag \notin {"failed", "interrupted"}
       /\ result' = [result EXCEPT ![p] = o]
  /\ UNCHANGED <<awaits, spent, outcome>>

\* It throws, or the time-out interrupts it.  Thrown by a plain function before
\* it has returned a promise, the error leaves dispatch() itself.
Throw(p, tag) ==
  /\ Leave(p, "over")
  /\ \/ /\ result' = [result EXCEPT ![p] = Made(tag, p)]
        /\ UNCHANGED outcome
     \/ /\ mode[p] = "fresh"
        /\ result' = [result EXCEPT ![p] = Made(tag, p)]
        /\ outcome' = [outcome EXCEPT ![p] = Made("threw", p)]
  /\ UNCHANGED <<awaits, spent>>

SettledToNext(p) ==
  IF p < layers /\ called[p] /\ IsSettled(outcome[p + 1]) THEN outcome[p + 1] ELSE result[p]

\* The promise of dispatch(p): a layer that returned nothing stands for what
\* its next() gave, if it called next() and that gave a promise.
SettledTo(p) ==
  IF result[p].tag = "undefined" /\ p # layers /\ called[p] /\ outcome[p + 1].tag # "threw"
    THEN outcome[p + 1]
    ELSE result[p]

Settle(p) ==
  /\ phase = "chain" /\ stack = <<>>
  /\ outcome[p].tag = "pending" /\ result[p].tag # "pending"
  /\ SettledTo(p).tag # "pending"
  /\ outcome' = [outcome EXCEPT ![p] = SettledTo(p)]
  /\ UNCHANGED <<host, load, stack, index, mode, awaits, spent, called, result, starts>>

\* map_caught_or_timeout, and the reading of the JSON: undefined became null.
AnswerTo(tag) ==
  IF tag = "value" THEN "ok"
  ELSE IF tag \in {"malformed", "undefined"} THEN "invalid"
  ELSE IF tag = "interrupted" THEN "timeout"
  ELSE "vm_failed"

\* finish(): the answer is there as soon as the outermost promise is settled;
\* what still waits or would still run is dropped with the runtime.
Finish ==
  /\ phase = "chain" /\ stack = <<>>
  /\ \/ IsSettled(outcome[0]) /\ End(AnswerTo(outcome[0].tag))
     \/ outcome[0].tag = "threw" /\ End(AnswerTo(result[0].tag))
  /\ UNCHANGED <<load, chain>>

\* No job is left and the promise is not settled: finish() would block.
Blocked ==
  /\ phase = "chain" /\ stack = <<>> /\ outcome[0].tag = "pending"
  /\ \A p \in Layers :
       /\ ~(mode[p] = "waiting" /\ Arrived(p))
       /\ ~(result[p].tag # "pending" /\ outcome[p].tag = "pending" /\ SettledTo(p).tag # "pending")
  /\ End("vm_failed")
  /\ UNCHANGED <<load, chain>>

----------------------------------------------------------------------------

LoadStep ==
  \/ LoadEntry
  \/ \E s \in Specifier : Require(s)
  \/ BodyReturns
  \/ \E n \in 1 .. Cardinality(Module) : BodyThrows(n)
  \/ Registered
  \/ CallApi

Scripts ==
  \/ \E a \in Api : RegisterAPI(a)
  \/ Use
  \/ \E p \in Layers : CallNext(p)

LayerStep(p) ==
  \/ \E what \in Awaitable : Await(p, what)
  \/ Resume(p)
  \/ Return(p)
  \/ \E tag \in {"failed", "interrupted"} : Throw(p, tag)
  \/ Settle(p)

ChainStep == (\E p \in Layers : LayerStep(p)) \/ Finish \/ Blocked

Next ==
  \/ LoadSkill
  \/ \E a \in Api : BeginCall(a)
  \/ LoadStep
  \/ Scripts
  \/ ChainStep

(***************************************************************************)
(* A body and a function end, or wait, or are interrupted by the time-out  *)
(* (set_interrupt_handler), and rquickjs takes jobs until there are none.  *)
(* What scripts do on the way, and whether anybody calls, is up to them.   *)
(***************************************************************************)
Fairness == WF_vars(LoadStep) /\ WF_vars(ChainStep)

Spec == Init /\ [][Next]_vars

FairSpec == Spec /\ Fairness

----------------------------------------------------------------------------

\* In one runtime the body of a module runs once, however the modules require
\* each other and whatever failed, and so do each middleware and the handler
\* of a call, however next() is passed around (the cache that is filled before
\* the body; the two guards of the chain).
RunsOnce ==
  /\ \A m \in Module : runs[m] <= 1
  /\ \A p \in Layers : starts[p] <= 1

\* A chain runs for an API of the manifest only, that the package registers in this
\* very runtime and not only when it was loaded; and on modules that are complete,
\* unless a script has swallowed the error of another one's body.
RunsWholePackage ==
  /\ \A p \in Layers : starts[p] > 0 => api \in Declared /\ api \in registered
  /\ phase = "chain" /\ ~swallowed => \A m \in Module : cache[m] \in {"absent", "loaded"}

\* A success carries the value of the one function that made it, and every
\* function around that one returned nothing, or the same: no error and no
\* other value of an outer layer is lost, and a handler that failed becomes a
\* success only by the value of a layer.
AnswerIsOutermost ==
  phase = "over" /\ answer = "ok" =>
    LET made == outcome[0] IN
    /\ result[made.from] = made
    /\ \A q \in 0 .. made.from - 1 : result[q] = made \/ result[q].tag = "undefined"

\* Whatever the scripts wait for, or leave undone, the host gets an answer.
CallEnds == phase = "reload" ~> phase = "over"
=============================================================================
