----------------------------- MODULE ApiVmProofs -----------------------------
(***************************************************************************)
(* The safety of ApiVm for packages of any modules and middlewares, and    *)
(* any number of awaits.                                                   *)
(***************************************************************************)
EXTENDS ApiVm, SequenceTheorems, TLAPS

USE ApiVmAssumption

----------------------------------------------------------------------------
(* The inductive invariant *)

\* How far the Skill and the runtime are.  The second conjunct says that the two
\* indices of outcomes a layer may look at exist.
ShapeInv ==
  /\ phase \notin Loading => requiring = <<>>
  /\ \A p \in Layers : awaits[p] = "next" \/ called[p] => p < MaxLayers

\* A module that is not in the cache has not run; one that runs is on the stack;
\* one that failed has ended the load, unless a script swallowed its error.
CacheInv ==
  /\ \A m \in Module : runs[m] <= 1 /\ (cache[m] = "absent" => runs[m] = 0)
  /\ \A m \in Module : cache[m] = "running" => \E i \in 1 .. Len(requiring) : requiring[i] = m
  /\ \A m \in Module : cache[m] = "failed" => swallowed \/ phase \in {"refused", "over"}

\* A layer at or behind the index has not been started, and none before a chain.
StartInv ==
  /\ \A p \in Layers : starts[p] <= 1 /\ (p >= index => starts[p] = 0)
  /\ phase \in {"register", "reload", "refused", "loaded"} => index = 0

\* Only what was registered and declared is called.
ApiInv ==
  /\ vm \subseteq Declared
  /\ phase = "reload" => api \in vm
  /\ \A p \in Layers : starts[p] > 0 => api \in vm /\ api \in registered

\* Where the function of a layer is tells whether it has a result.
ModeInv ==
  /\ \A p \in Layers : starts[p] = 0 => mode[p] = "idle"
  /\ \A p \in Layers : mode[p] # "over" <=> result[p].tag = "pending"
  /\ \A i \in 1 .. Len(stack) : mode[stack[i]] \in {"fresh", "resumed"}
  /\ \A i, j \in 1 .. Len(stack) : stack[i] = stack[j] => i = j

\* If the layers have the results f, what layer p has, o, was made by a layer
\* o.from at or behind it, and is what that layer and all on the way have, or
\* returned nothing for.
Handed(f, p, o) ==
  /\ o.from \in p .. MaxLayers
  /\ f[o.from] = o
  /\ \A q \in p .. o.from - 1 : f[q] = o \/ f[q].tag = "undefined"

ResultInv == \A p \in Layers : result[p].tag # "pending" => Handed(result, p, result[p])
SettledInv == \A p \in Layers : IsSettled(outcome[p]) => Handed(result, p, outcome[p])

\* An exception leaves no promise; who resumes has one that is settled; a success
\* was read from the promise of the outermost layer.
ThrewInv ==
  \A p \in Layers : /\ outcome[p].tag = "threw" => result[p].tag \in {"failed", "interrupted"}
                    /\ result[p].tag # "threw"
AwaitInv ==
  \A p \in Layers : mode[p] = "resumed" /\ awaits[p] = "next" => IsSettled(outcome[p + 1])
AnswerInv == phase = "over" /\ answer = "ok" => IsSettled(outcome[0])

OutcomeInv == ResultInv /\ SettledInv /\ ThrewInv /\ AwaitInv /\ AnswerInv

LoadInv == TypeOK /\ ShapeInv /\ CacheInv /\ StartInv /\ ApiInv
IInv == LoadInv /\ ModeInv /\ OutcomeInv

----------------------------------------------------------------------------
(* Facts about the operators *)

LEMMA NormalizeType ==
  ASSUME NEW parent, NEW specifier
  PROVE  Normalize(parent, specifier) \in Module \cup {NoModule}
BY DEF Normalize

LEMMA MadeType ==
  ASSUME NEW tag \in Tags, NEW p \in Layers
  PROVE  Made(tag, p) \in Outcome
BY DEF Made, Outcome

LEMMA LayersNat == Layers \subseteq Nat /\ 0 \in Layers
BY DEF Layers

LEMMA PushType ==
  ASSUME NEW S, NEW s \in Seq(S), NEW e \in S
  PROVE  /\ <<e>> \o s \in Seq(S)
         /\ Len(<<e>> \o s) = Len(s) + 1
         /\ (<<e>> \o s)[1] = e
         /\ \A i \in 2 .. Len(s) + 1 : (<<e>> \o s)[i] = s[i - 1]
<1>1. <<e>> \in Seq(S)
  OBVIOUS
<1> QED
  BY <1>1, ConcatProperties

LEMMA PopType ==
  ASSUME NEW S, NEW s \in Seq(S), s # <<>>
  PROVE  /\ Tail(s) \in Seq(S) /\ Head(s) \in S /\ Head(s) = s[1]
         /\ Len(Tail(s)) = Len(s) - 1
         /\ \A i \in 1 .. Len(s) - 1 : Tail(s)[i] = s[i + 1]
BY HeadTailProperties

LEMMA DropType ==
  ASSUME NEW S, NEW s \in Seq(S), NEW n \in 1 .. Len(s)
  PROVE  /\ SubSeq(s, n + 1, Len(s)) \in Seq(S)
         /\ Len(SubSeq(s, n + 1, Len(s))) = Len(s) - n
         /\ \A i \in 1 .. Len(s) - n : SubSeq(s, n + 1, Len(s))[i] = s[n + i]
         /\ n = Len(s) => SubSeq(s, n + 1, Len(s)) = <<>>
BY SubSeqProperties, SubSeqEmpty, LenProperties

----------------------------------------------------------------------------
(* Types *)

LEMMA TypeInit == Init => TypeOK
<1> SUFFICES ASSUME Init
             PROVE  TypeOK
  OBVIOUS
<1>1. Pending \in Outcome
  BY LayersNat DEF Pending, Outcome, Tags
<1>2. vm \subseteq Api /\ registered \subseteq Api /\ swallowed \in BOOLEAN
  BY DEF Init
<1>3. phase \in Phases /\ api \in Api /\ answer \in Answers
  BY DEF Init, Phases, Loading, Answers
<1>4. /\ requiring \in Seq(Module) /\ runs \in [Module -> Nat]
      /\ stack \in Seq(Layers) /\ starts \in [Layers -> Nat]
      /\ layers \in Layers /\ index \in 0 .. MaxLayers + 1 /\ spent \in 0 .. MaxAwaits
  BY LayersNat DEF Init
<1>5. /\ cache \in [Module -> CacheStates] /\ mode \in [Layers -> Modes]
      /\ awaits \in [Layers -> Awaitable] /\ called \in [Layers -> BOOLEAN]
      /\ result \in [Layers -> Outcome] /\ outcome \in [Layers -> Outcome]
  BY <1>1 DEF Init, CacheStates, Modes, Awaitable
<1> QED
  BY <1>2, <1>3, <1>4, <1>5 DEF TypeOK

\* A fresh runtime has its types.
LEMMA FreshLoadTypes ==
  ASSUME FreshLoad
  PROVE  /\ requiring' \in Seq(Module)
         /\ cache' \in [Module -> CacheStates]
         /\ runs' \in [Module -> Nat]
         /\ swallowed' \in BOOLEAN
         /\ registered' \subseteq Api
         /\ layers' \in Layers
<1>1. swallowed' \in BOOLEAN /\ registered' \subseteq Api
  BY DEF FreshLoad
<1>2. requiring' \in Seq(Module) /\ runs' \in [Module -> Nat] /\ layers' \in Layers
  BY LayersNat DEF FreshLoad
<1>3. cache' \in [Module -> CacheStates]
  BY DEF FreshLoad, CacheStates
<1> QED
  BY <1>1, <1>2, <1>3

LEMMA FreshChainTypes ==
  ASSUME FreshChain
  PROVE  /\ stack' \in Seq(Layers)
         /\ index' \in 0 .. MaxLayers + 1
         /\ mode' \in [Layers -> Modes]
         /\ awaits' \in [Layers -> Awaitable]
         /\ spent' \in 0 .. MaxAwaits
         /\ called' \in [Layers -> BOOLEAN]
         /\ result' \in [Layers -> Outcome]
         /\ outcome' \in [Layers -> Outcome]
         /\ starts' \in [Layers -> Nat]
<1>1. Pending \in Outcome
  BY LayersNat DEF Pending, Outcome, Tags
<1> QED
  BY <1>1 DEF FreshChain, Modes, Awaitable

LEMMA DispatchTypes ==
  ASSUME TypeOK, NEW p \in Layers, Dispatch(p)
  PROVE  /\ stack' \in Seq(Layers)
         /\ index' \in 0 .. MaxLayers + 1
         /\ mode' \in [Layers -> Modes]
         /\ starts' \in [Layers -> Nat]
<1>1. <<p>> \o stack \in Seq(Layers)
  BY PushType DEF TypeOK
<1> QED
  BY <1>1 DEF TypeOK, Dispatch, Modes, Layers

LEMMA LeaveTypes ==
  ASSUME TypeOK, NEW p \in Layers, NEW how \in Modes, Leave(p, how)
  PROVE  /\ stack' \in Seq(Layers)
         /\ mode' \in [Layers -> Modes]
         /\ UNCHANGED <<host, load, index, called, starts>>
<1>1. Tail(stack) \in Seq(Layers)
  BY PopType DEF TypeOK, Leave
<1> QED
  BY <1>1 DEF TypeOK, Leave

LEMMA LoadTypes ==
  ASSUME TypeOK, LoadSkill \/ (\E a \in Api : BeginCall(a)) \/ LoadStep \/ Scripts
  PROVE  TypeOK'
<1> USE DEF TypeOK, host, load, chain
<1>1. CASE LoadSkill
  BY <1>1, FreshLoadTypes DEF LoadSkill, Phases, Loading
<1>2. ASSUME NEW a \in Api, BeginCall(a) PROVE TypeOK'
  BY <1>2, FreshLoadTypes, FreshChainTypes DEF BeginCall, Phases, Loading, Answers
<1>3. ASSUME NEW m \in Module, Enter(m), UNCHANGED <<host, registered, layers, chain>>
      PROVE  TypeOK'
  <2>1. <<m>> \o requiring \in Seq(Module)
    BY PushType
  <2> QED
    BY <1>3, <2>1 DEF Enter, CacheStates
<1>4. ASSUME NEW s \in Specifier, Require(s) PROVE TypeOK'
  BY <1>3, <1>4, NormalizeType DEF Require
<1>5. CASE LoadEntry
  BY <1>3, <1>5 DEF LoadEntry
<1>6. CASE BodyReturns
  <2>1. Tail(requiring) \in Seq(Module)
    BY <1>6, PopType DEF BodyReturns
  <2> QED
    BY <1>6, <2>1 DEF BodyReturns, CacheStates
<1>7. ASSUME NEW n \in 1 .. Cardinality(Module), BodyThrows(n) PROVE TypeOK'
  <2>1. SubSeq(requiring, n + 1, Len(requiring)) \in Seq(Module)
    BY <1>7, DropType DEF BodyThrows
  <2>2. cache' \in [Module -> CacheStates] /\ requiring' \in Seq(Module)
    BY <1>7, <2>1 DEF BodyThrows, CacheStates
  <2> QED
    BY <1>7, <2>2 DEF BodyThrows, ErrorInLoad, End, Phases, Answers
<1>8. CASE Registered
  BY <1>8 DEF Registered, Phases
<1>9. CASE CallApi
  <2>1. CASE api \in registered
    BY <1>9, <2>1, DispatchTypes, LayersNat DEF CallApi, Phases
  <2>2. CASE api \notin registered
    BY <1>9, <2>2 DEF CallApi, End, Phases, Answers
  <2> QED
    BY <2>1, <2>2
<1>10. ASSUME NEW a \in Api, RegisterAPI(a) PROVE TypeOK'
  BY <1>10 DEF RegisterAPI
<1>11. CASE Use
  BY <1>11 DEF Use, Layers
<1>12. ASSUME NEW p \in Layers, CallNext(p) PROVE TypeOK'
  <2>1. p + 1 \in Layers
    BY <1>12 DEF CallNext, Layers
  <2> QED
    BY <1>12, <2>1, DispatchTypes DEF CallNext
<1> QED
  BY <1>1, <1>2, <1>4, <1>5, <1>6, <1>7, <1>8, <1>9, <1>10, <1>11, <1>12
  DEF LoadStep, Scripts

LEMMA ChainTypes ==
  ASSUME TypeOK, ShapeInv, ChainStep
  PROVE  TypeOK'
<1> USE DEF TypeOK, host, load, chain
<1>1. ASSUME NEW p \in Layers, NEW what \in Awaitable, Await(p, what) PROVE TypeOK'
  <2>1. "waiting" \in Modes
    BY DEF Modes
  <2> QED
    BY <1>1, <2>1, LeaveTypes DEF Await
<1>2. ASSUME NEW p \in Layers, Resume(p) PROVE TypeOK'
  BY <1>2 DEF Resume, Modes
<1>3. ASSUME NEW p \in Layers, Return(p) PROVE TypeOK'
  <2>1. "over" \in Modes
    BY DEF Modes
  <2>2. \A tag \in {"value", "malformed", "undefined"} : Made(tag, p) \in Outcome
    BY MadeType DEF Tags
  <2>3. awaits[p] = "next" => p + 1 \in Layers
    BY DEF ShapeInv, Layers
  <2>4. result' \in [Layers -> Outcome]
    BY <1>3, <2>2, <2>3 DEF Return
  <2> QED
    BY <1>3, <2>1, <2>4, LeaveTypes DEF Return
<1>4. ASSUME NEW p \in Layers, NEW tag \in {"failed", "interrupted"}, Throw(p, tag) PROVE TypeOK'
  <2>1. "over" \in Modes
    BY DEF Modes
  <2>2. Made(tag, p) \in Outcome /\ Made("threw", p) \in Outcome
    BY MadeType DEF Tags
  <2>3. result' \in [Layers -> Outcome] /\ outcome' \in [Layers -> Outcome]
    <3>1. result' = [result EXCEPT ![p] = Made(tag, p)]
      BY <1>4 DEF Throw
    <3>2. outcome' = outcome \/ outcome' = [outcome EXCEPT ![p] = Made("threw", p)]
      BY <1>4 DEF Throw
    <3> QED
      BY <2>2, <3>1, <3>2
  <2>4. Leave(p, "over") /\ UNCHANGED <<awaits, spent>>
    BY <1>4 DEF Throw
  <2> QED
    BY <2>1, <2>3, <2>4, LeaveTypes
<1>5. ASSUME NEW p \in Layers, Settle(p) PROVE TypeOK'
  <2>1. called[p] => p + 1 \in Layers
    BY DEF ShapeInv, Layers
  <2>2. SettledTo(p) \in Outcome
    BY <2>1 DEF SettledTo
  <2> QED
    BY <1>5, <2>2 DEF Settle
<1>6. CASE Finish
  <2>1. \A tag : AnswerTo(tag) \in Answers
    BY DEF AnswerTo, Answers
  <2> QED
    BY <1>6, <2>1 DEF Finish, End, Phases
<1>7. CASE Blocked
  BY <1>7 DEF Blocked, End, Phases, Answers
<1>8. ASSUME NEW p \in Layers, LayerStep(p) PROVE TypeOK'
  BY <1>1, <1>2, <1>3, <1>4, <1>5, <1>8 DEF LayerStep
<1> QED
  BY <1>6, <1>7, <1>8 DEF ChainStep

----------------------------------------------------------------------------
(* Every step keeps the invariant of the load *)

\* The steps of a chain touch nothing of the load.
LEMMA ChainFrame ==
  ASSUME ChainStep
  PROVE  /\ phase = "chain" /\ phase' \in {"chain", "over"}
         /\ UNCHANGED <<load, vm, api, index, called, starts>>
<1> USE DEF host, load, chain
<1>1. ASSUME NEW p \in Layers, LayerStep(p)
      PROVE  phase = "chain" /\ phase' = "chain" /\ UNCHANGED <<load, vm, api, index, called, starts>>
  BY <1>1 DEF LayerStep, Await, Resume, Return, Throw, Settle, Leave
<1>2. CASE Finish \/ Blocked
  BY <1>2 DEF Finish, Blocked, End
<1> QED
  BY <1>1, <1>2 DEF ChainStep

LEMMA ShapeInductive ==
  ASSUME TypeOK, ShapeInv, [Next]_vars
  PROVE  ShapeInv'
<1> USE DEF ShapeInv, host, load, chain
<1>1. CASE LoadSkill
  BY <1>1 DEF LoadSkill, FreshLoad
<1>2. ASSUME NEW a \in Api, BeginCall(a) PROVE ShapeInv'
  BY <1>2 DEF BeginCall, FreshLoad, FreshChain
<1>3. CASE LoadEntry \/ \E s \in Specifier : Require(s)
  BY <1>3 DEF LoadEntry, Require, Enter
<1>4. CASE BodyReturns
  BY <1>4 DEF BodyReturns
<1>5. ASSUME NEW n \in 1 .. Cardinality(Module), BodyThrows(n) PROVE ShapeInv'
  <2>1. CASE n = Len(requiring)
    <3>1. requiring' = <<>>
      BY <1>5, <2>1, DropType DEF BodyThrows, TypeOK
    <3> QED
      BY <1>5, <2>1, <3>1 DEF BodyThrows, ErrorInLoad
  <2>2. CASE n # Len(requiring)
    <3>1. requiring # <<>>
      BY <1>5 DEF BodyThrows, TypeOK
    <3> QED
      BY <1>5, <2>2, <3>1 DEF BodyThrows
  <2> QED
    BY <2>1, <2>2
<1>6. CASE Registered \/ CallApi
  BY <1>6 DEF Registered, CallApi, Evaluated, Dispatch, End
<1>7. CASE Scripts
  <2>1. ASSUME NEW a \in Api, RegisterAPI(a) PROVE ShapeInv'
    BY <2>1 DEF RegisterAPI
  <2>2. CASE Use
    BY <2>2 DEF Use
  <2>3. ASSUME NEW p \in Layers, CallNext(p) PROVE ShapeInv'
    BY <2>3 DEF CallNext, TypeOK, Layers
  <2> QED
    BY <1>7, <2>1, <2>2, <2>3 DEF Scripts
<1>8. CASE ChainStep
  <2>1. requiring' = <<>>
    BY <1>8, ChainFrame DEF Loading
  <2>2. \A p \in Layers : awaits'[p] = "next" => awaits[p] = "next" \/ p < MaxLayers
    BY <1>8 DEF ChainStep, LayerStep, Await, Resume, Return, Throw, Settle, Finish, Blocked, End,
       TypeOK, Layers
  <2> QED
    BY <1>8, <2>1, <2>2, ChainFrame
<1>9. CASE UNCHANGED vars
  BY <1>9 DEF vars
<1> QED
  BY <1>1, <1>2, <1>3, <1>4, <1>5, <1>6, <1>7, <1>8, <1>9 DEF Next, LoadStep

LEMMA CacheInductive ==
  ASSUME TypeOK, ShapeInv, CacheInv, [Next]_vars
  PROVE  CacheInv'
<1> USE DEF TypeOK, CacheInv, host, load, chain
<1>1. ASSUME FreshLoad PROVE CacheInv'
  BY <1>1 DEF FreshLoad
<1>2. ASSUME NEW m \in Module, cache[m] = "absent", Enter(m), UNCHANGED phase PROVE CacheInv'
  <2>1. /\ Len(requiring') = Len(requiring) + 1
        /\ requiring'[1] = m
        /\ \A i \in 2 .. Len(requiring) + 1 : requiring'[i] = requiring[i - 1]
        /\ Len(requiring) \in Nat
    BY <1>2, PushType, LenProperties DEF Enter
  <2>2. ASSUME NEW x \in Module, cache'[x] = "running"
        PROVE  \E i \in 1 .. Len(requiring') : requiring'[i] = x
    <3>1. CASE x = m
      BY <2>1, <3>1
    <3>2. CASE x # m
      <4>1. cache[x] = "running"
        BY <1>2, <2>2, <3>2 DEF Enter
      <4>2. PICK i \in 1 .. Len(requiring) : requiring[i] = x
        BY <4>1
      <4>3. i + 1 \in 2 .. Len(requiring) + 1 /\ (i + 1) - 1 = i
        BY <2>1
      <4>4. requiring'[i + 1] = x
        BY <2>1, <4>2, <4>3
      <4>5. i + 1 \in 1 .. Len(requiring')
        BY <2>1, <4>3
      <4> QED
        BY <4>4, <4>5
    <3> QED
      BY <3>1, <3>2
  <2>3. \A x \in Module : runs'[x] <= 1 /\ (cache'[x] = "absent" => runs'[x] = 0)
    BY <1>2 DEF Enter
  <2>4. \A x \in Module : cache'[x] = "failed" => cache[x] = "failed"
    BY <1>2 DEF Enter
  <2> QED
    BY <1>2, <2>2, <2>3, <2>4 DEF Enter
<1>3. CASE LoadSkill \/ \E a \in Api : BeginCall(a)
  BY <1>1, <1>3 DEF LoadSkill, BeginCall
<1>4. ASSUME NEW s \in Specifier, Require(s) PROVE CacheInv'
  BY <1>2, <1>4, NormalizeType DEF Require
<1>5. CASE LoadEntry
  BY <1>2, <1>5 DEF LoadEntry
<1>6. CASE BodyReturns
  <2> DEFINE h == Head(requiring)
  <2>1. /\ h = requiring[1] /\ h \in Module /\ Len(requiring) \in Nat
        /\ Len(requiring') = Len(requiring) - 1
        /\ \A i \in 1 .. Len(requiring) - 1 : requiring'[i] = requiring[i + 1]
    BY <1>6, PopType, LenProperties DEF BodyReturns
  <2>2. cache' = [cache EXCEPT ![h] = "loaded"] /\ UNCHANGED <<runs, swallowed, phase>>
    BY <1>6 DEF BodyReturns
  <2>3. ASSUME NEW x \in Module, cache'[x] = "running"
        PROVE  \E i \in 1 .. Len(requiring') : requiring'[i] = x
    <3>1. x # h /\ cache[x] = "running"
      BY <2>1, <2>2, <2>3
    <3>2. PICK i \in 1 .. Len(requiring) : requiring[i] = x
      BY <3>1
    <3>3. i # 1
      BY <2>1, <3>1, <3>2
    <3>4. i - 1 \in 1 .. Len(requiring') /\ requiring'[i - 1] = x
      BY <2>1, <3>2, <3>3
    <3> QED
      BY <3>4
  <2> QED
    BY <2>1, <2>2, <2>3
<1>7. ASSUME NEW n \in 1 .. Cardinality(Module), BodyThrows(n) PROVE CacheInv'
  <2> DEFINE left == {requiring[i] : i \in 1 .. n}
  <2>1. /\ Len(requiring) \in Nat /\ n \in 1 .. Len(requiring)
        /\ Len(requiring') = Len(requiring) - n
        /\ \A i \in 1 .. Len(requiring) - n : requiring'[i] = requiring[n + i]
    BY <1>7, DropType, LenProperties DEF BodyThrows
  <2>2. /\ cache' = [m \in Module |-> IF m \in left THEN "failed" ELSE cache[m]]
        /\ runs' = runs
    BY <1>7 DEF BodyThrows
  <2>3. \A m \in Module : cache'[m] = "running" => cache[m] = "running" /\ m \notin left
    BY <2>2
  <2>4. ASSUME NEW m \in Module, cache'[m] = "running"
        PROVE  \E i \in 1 .. Len(requiring') : requiring'[i] = m
    <3>1. PICK i \in 1 .. Len(requiring) : requiring[i] = m
      BY <2>3, <2>4
    <3>2. i \notin 1 .. n
      BY <2>3, <2>4, <3>1
    <3>3. /\ n \in Nat /\ i \in Nat /\ Len(requiring) \in Nat
          /\ i >= 1 /\ i <= Len(requiring) /\ i > n
      BY <2>1, <3>1, <3>2
    <3>4. i - n \in 1 .. Len(requiring) - n /\ n + (i - n) = i
      BY <3>3
    <3>5. i - n \in 1 .. Len(requiring') /\ requiring'[i - n] = m
      BY <2>1, <3>1, <3>4
    <3> QED
      BY <3>5
  <2>5. swallowed' \/ phase' \in {"refused", "over"}
    BY <1>7 DEF BodyThrows, ErrorInLoad, End
  <2>6. \A m \in Module : cache'[m] = "absent" => cache[m] = "absent"
    BY <2>2
  <2> QED
    BY <2>2, <2>4, <2>5, <2>6
<1>8. CASE Registered \/ CallApi
  <2>1. \A m \in Module : cache[m] = "failed" => swallowed
    BY <1>8 DEF Registered, CallApi
  <2> QED
    BY <1>8, <2>1 DEF Registered, CallApi, End
<1>9. CASE Scripts
  BY <1>9 DEF Scripts, RegisterAPI, Use, CallNext
<1>10. CASE ChainStep
  <2>1. phase = "chain"
    BY <1>10, ChainFrame
  <2> QED
    BY <1>10, <2>1, ChainFrame
<1>11. CASE UNCHANGED vars
  BY <1>11 DEF vars
<1> QED
  BY <1>3, <1>4, <1>5, <1>6, <1>7, <1>8, <1>9, <1>10, <1>11 DEF Next, LoadStep

LEMMA StartInductive ==
  ASSUME TypeOK, ShapeInv, StartInv, [Next]_vars
  PROVE  StartInv'
<1> USE DEF TypeOK, StartInv, host, chain
<1>1. CASE LoadSkill
  BY <1>1 DEF LoadSkill
<1>2. ASSUME NEW a \in Api, BeginCall(a) PROVE StartInv'
  BY <1>2 DEF BeginCall, FreshChain, Layers
<1>3. CASE LoadEntry \/ \E s \in Specifier : Require(s)
  BY <1>3 DEF LoadEntry, Require
<1>4. CASE BodyReturns
  BY <1>4 DEF BodyReturns
<1>5. ASSUME NEW n \in 1 .. Cardinality(Module), BodyThrows(n) PROVE StartInv'
  <2>1. phase \in Loading
    BY <1>5 DEF BodyThrows, ShapeInv
  <2>2. UNCHANGED chain
    BY <1>5 DEF BodyThrows, ErrorInLoad
  <2> QED
    BY <2>1, <2>2 DEF Loading
<1>6. CASE Registered
  BY <1>6 DEF Registered
<1>7. ASSUME NEW p \in Layers, p >= index, Dispatch(p), phase' = "chain" PROVE StartInv'
  <2>1. p \in Nat /\ index' = p + 1 /\ starts' = [starts EXCEPT ![p] = @ + 1]
    BY <1>7, LayersNat DEF Dispatch
  <2>2. \A q \in Layers : q >= index => starts[q] = 0
    BY <1>7
  <2>3. ASSUME NEW q \in Layers
        PROVE  starts'[q] <= 1 /\ (q >= index' => starts'[q] = 0)
    <3>1. q \in Nat /\ index \in Nat
      BY LayersNat DEF Layers
    <3>2. CASE q = p
      BY <1>7, <2>1, <2>2, <3>2
    <3>3. CASE q # p
      <4>1. starts'[q] = starts[q]
        BY <2>1, <3>3
      <4>2. q >= index' => q >= index
        BY <1>7, <2>1, <3>1
      <4> QED
        BY <2>2, <4>1, <4>2
    <3> QED
      BY <3>2, <3>3
  <2> QED
    BY <1>7, <2>3
<1>8. CASE CallApi
  <2>1. CASE api \in registered
    BY <1>7, <1>8, <2>1, LayersNat DEF CallApi
  <2>2. CASE api \notin registered
    BY <1>8, <2>2 DEF CallApi, End
  <2> QED
    BY <2>1, <2>2
<1>9. CASE Scripts
  <2>1. ASSUME NEW a \in Api, RegisterAPI(a) \/ Use PROVE StartInv'
    BY <2>1 DEF RegisterAPI, Use
  <2>2. ASSUME NEW p \in Layers, CallNext(p) PROVE StartInv'
    <3>1. p + 1 \in Layers /\ p + 1 >= index
      BY <2>2 DEF CallNext, MayDispatch, Layers
    <3> QED
      BY <1>7, <2>2, <3>1 DEF CallNext
  <2>3. CASE Use
    BY <2>3 DEF Use
  <2> QED
    BY <1>9, <2>1, <2>2, <2>3 DEF Scripts
<1>10. CASE ChainStep
  BY <1>10, ChainFrame
<1>11. CASE UNCHANGED vars
  BY <1>11 DEF vars
<1> QED
  BY <1>1, <1>2, <1>3, <1>4, <1>5, <1>6, <1>8, <1>9, <1>10, <1>11 DEF Next, LoadStep

LEMMA ApiInductive ==
  ASSUME TypeOK, ShapeInv, StartInv, ApiInv, [Next]_vars
  PROVE  ApiInv'
<1> USE DEF TypeOK, ApiInv, host, load, chain
<1>1. \A p \in Layers : phase \in {"register", "reload", "refused", "loaded"} => starts[p] = 0
  BY DEF StartInv, Layers
<1>2. CASE LoadSkill
  BY <1>1, <1>2 DEF LoadSkill, FreshLoad
<1>3. ASSUME NEW a \in Api, BeginCall(a) PROVE ApiInv'
  BY <1>3 DEF BeginCall, FreshChain
<1>4. CASE LoadEntry \/ (\E s \in Specifier : Require(s)) \/ BodyReturns
  BY <1>4 DEF LoadEntry, Require, Enter, BodyReturns
<1>5. ASSUME NEW n \in 1 .. Cardinality(Module), BodyThrows(n) PROVE ApiInv'
  BY <1>5 DEF BodyThrows, ErrorInLoad, End
<1>6. CASE Registered
  BY <1>1, <1>6 DEF Registered, RegistrationValid
<1>7. CASE CallApi
  BY <1>7 DEF CallApi, Dispatch, End
<1>8. CASE Scripts
  <2>1. ASSUME NEW a \in Api, RegisterAPI(a) PROVE ApiInv'
    BY <2>1 DEF RegisterAPI
  <2>2. CASE Use
    BY <2>2 DEF Use
  <2>3. ASSUME NEW p \in Layers, CallNext(p) PROVE ApiInv'
    BY <2>3 DEF CallNext, Dispatch
  <2> QED
    BY <1>8, <2>1, <2>2, <2>3 DEF Scripts
<1>9. CASE ChainStep
  BY <1>9, ChainFrame
<1>10. CASE UNCHANGED vars
  BY <1>10 DEF vars
<1> QED
  BY <1>2, <1>3, <1>4, <1>5, <1>6, <1>7, <1>8, <1>9, <1>10 DEF Next, LoadStep

----------------------------------------------------------------------------
(* Every step keeps the invariant of the chain *)

\* The layer on top of the stack runs, has no result, and is nowhere else on it.
LEMMA TopOfStack ==
  ASSUME TypeOK, ModeInv, NEW p \in Layers, NEW how \in Modes, Leave(p, how)
  PROVE  /\ phase = "chain" /\ starts[p] # 0
         /\ mode[p] \in {"fresh", "resumed"} /\ result[p].tag = "pending"
         /\ mode' = [mode EXCEPT ![p] = how]
         /\ \A i \in 1 .. Len(stack') : stack'[i] \in Layers /\ stack'[i] # p /\ mode[stack'[i]] \in {"fresh", "resumed"}
         /\ \A i, j \in 1 .. Len(stack') : stack'[i] = stack'[j] => i = j
<1>1. /\ stack' = Tail(stack) /\ stack # <<>> /\ p = stack[1] /\ Len(stack) \in Nat
      /\ Len(stack') = Len(stack) - 1 /\ stack' \in Seq(Layers)
      /\ \A i \in 1 .. Len(stack) - 1 : stack'[i] = stack[i + 1]
  BY PopType, LenProperties DEF TypeOK, Leave
<1>2. 1 \in 1 .. Len(stack)
  BY <1>1, EmptySeq DEF TypeOK
<1>3. mode[p] \in {"fresh", "resumed"}
  BY <1>1, <1>2 DEF ModeInv
<1>4. result[p].tag = "pending" /\ starts[p] # 0
  BY <1>3 DEF ModeInv
<1>5. ASSUME NEW i \in 1 .. Len(stack')
      PROVE  /\ i + 1 \in 1 .. Len(stack) /\ i + 1 # 1
             /\ stack'[i] = stack[i + 1] /\ stack'[i] \in Layers
  BY <1>1, <1>5, ElementOfSeq
<1>6. ASSUME NEW i \in 1 .. Len(stack')
      PROVE  stack'[i] # p /\ mode[stack'[i]] \in {"fresh", "resumed"}
  BY <1>1, <1>2, <1>5 DEF ModeInv
<1>7. ASSUME NEW i \in 1 .. Len(stack'), NEW j \in 1 .. Len(stack'), stack'[i] = stack'[j]
      PROVE  i = j
  <2>1. i + 1 = j + 1
    BY <1>5, <1>7 DEF ModeInv
  <2> QED
    BY <1>1, <2>1
<1> QED
  BY <1>3, <1>4, <1>5, <1>6, <1>7 DEF Leave

LEMMA DispatchKeepsModes ==
  ASSUME TypeOK, ModeInv, NEW p \in Layers, starts[p] = 0, Dispatch(p), UNCHANGED result
  PROVE  ModeInv'
<1>1. mode[p] = "idle" /\ result[p].tag = "pending"
  BY DEF ModeInv
<1>2. /\ Len(stack') = Len(stack) + 1 /\ stack'[1] = p /\ Len(stack) \in Nat
      /\ \A i \in 2 .. Len(stack) + 1 : stack'[i] = stack[i - 1]
  BY PushType, LenProperties DEF TypeOK, Dispatch
<1>3. mode' = [mode EXCEPT ![p] = "fresh"] /\ starts' = [starts EXCEPT ![p] = @ + 1]
  BY DEF Dispatch
<1>4. ASSUME NEW i \in 2 .. Len(stack) + 1
      PROVE  i - 1 \in 1 .. Len(stack) /\ stack'[i] = stack[i - 1] /\ stack'[i] \in Layers
  BY <1>2, <1>4, ElementOfSeq DEF TypeOK
<1>5. ASSUME NEW i \in 2 .. Len(stack) + 1
      PROVE  stack'[i] # p /\ mode'[stack'[i]] \in {"fresh", "resumed"}
  <2>1. mode[stack[i - 1]] \in {"fresh", "resumed"}
    BY <1>4 DEF ModeInv
  <2> QED
    BY <1>1, <1>3, <1>4, <2>1 DEF TypeOK
<1>6. ASSUME NEW i \in 1 .. Len(stack') PROVE mode'[stack'[i]] \in {"fresh", "resumed"}
  <2>1. CASE i = 1
    BY <1>2, <1>3, <2>1 DEF TypeOK
  <2>2. CASE i # 1
    BY <1>2, <1>5, <2>2
  <2> QED
    BY <2>1, <2>2
<1>7. ASSUME NEW i \in 1 .. Len(stack'), NEW j \in 1 .. Len(stack'), stack'[i] = stack'[j]
      PROVE  i = j
  <2>1. CASE i = 1 \/ j = 1
    BY <1>2, <1>5, <1>7, <2>1
  <2>2. CASE i # 1 /\ j # 1
    <3>1. i \in 2 .. Len(stack) + 1 /\ j \in 2 .. Len(stack) + 1
      BY <1>2, <2>2
    <3>2. i - 1 = j - 1
      BY <1>4, <1>7, <3>1 DEF ModeInv
    <3> QED
      BY <3>1, <3>2
  <2> QED
    BY <2>1, <2>2
<1>8. \A q \in Layers : starts'[q] = 0 => mode'[q] = "idle"
  BY <1>1, <1>3 DEF ModeInv, TypeOK
<1>9. \A q \in Layers : mode'[q] # "over" <=> result'[q].tag = "pending"
  BY <1>1, <1>3 DEF ModeInv, TypeOK
<1> QED
  BY <1>6, <1>7, <1>8, <1>9 DEF ModeInv

\* What a function that leaves the stack does to its own mode and result.
LEMMA LeaveKeepsModes ==
  ASSUME TypeOK, ModeInv, NEW p \in Layers, NEW how \in {"waiting", "over"}, Leave(p, how),
         \/ how = "waiting" /\ UNCHANGED result
         \/ how = "over" /\ \E o : o.tag # "pending" /\ result' = [result EXCEPT ![p] = o]
  PROVE  ModeInv'
<1>1. how \in Modes
  BY DEF Modes
<1>2. /\ starts[p] # 0 /\ mode' = [mode EXCEPT ![p] = how]
      /\ mode[p] \in {"fresh", "resumed"} /\ result[p].tag = "pending"
      /\ \A i \in 1 .. Len(stack') :
           stack'[i] \in Layers /\ stack'[i] # p /\ mode[stack'[i]] \in {"fresh", "resumed"}
      /\ \A i, j \in 1 .. Len(stack') : stack'[i] = stack'[j] => i = j
  BY <1>1, TopOfStack
<1>3. \A i \in 1 .. Len(stack') : mode'[stack'[i]] \in {"fresh", "resumed"}
  BY <1>2 DEF TypeOK
<1>4. \A q \in Layers : starts'[q] = 0 => mode'[q] = "idle"
  BY <1>2 DEF ModeInv, TypeOK, Leave
<1>5. \A q \in Layers : mode'[q] # "over" <=> result'[q].tag = "pending"
  BY <1>2 DEF ModeInv, TypeOK
<1> QED
  BY <1>2, <1>3, <1>4, <1>5 DEF ModeInv

LEMMA ModeInductive ==
  ASSUME TypeOK, ShapeInv, StartInv, ModeInv, OutcomeInv, [Next]_vars
  PROVE  ModeInv'
<1> USE DEF host, load, chain
<1>1. ASSUME UNCHANGED <<stack, mode, result, starts>> PROVE ModeInv'
  BY <1>1 DEF ModeInv
<1>2. CASE LoadSkill
  BY <1>1, <1>2 DEF LoadSkill
<1>3. ASSUME NEW a \in Api, BeginCall(a) PROVE ModeInv'
  BY <1>3 DEF BeginCall, FreshChain, ModeInv, Pending
<1>4. CASE LoadEntry \/ (\E s \in Specifier : Require(s)) \/ BodyReturns \/ Registered
  BY <1>1, <1>4 DEF LoadEntry, Require, BodyReturns, Registered
<1>5. ASSUME NEW n \in 1 .. Cardinality(Module), BodyThrows(n) PROVE ModeInv'
  BY <1>1, <1>5 DEF BodyThrows, ErrorInLoad
<1>6. CASE CallApi
  <2>1. starts[0] = 0
    BY <1>6, LayersNat DEF CallApi, StartInv
  <2>2. CASE api \in registered
    BY <1>6, <2>1, <2>2, DispatchKeepsModes, LayersNat DEF CallApi
  <2>3. CASE api \notin registered
    BY <1>1, <1>6, <2>3 DEF CallApi
  <2> QED
    BY <2>2, <2>3
<1>7. CASE Scripts
  <2>1. ASSUME NEW a \in Api, RegisterAPI(a) PROVE ModeInv'
    BY <1>1, <2>1 DEF RegisterAPI
  <2>2. CASE Use
    BY <1>1, <2>2 DEF Use
  <2>3. ASSUME NEW p \in Layers, CallNext(p) PROVE ModeInv'
    <3>1. p + 1 \in Layers /\ p + 1 >= index
      BY <2>3 DEF CallNext, MayDispatch, Layers, TypeOK
    <3>2. starts[p + 1] = 0
      BY <3>1 DEF StartInv
    <3> QED
      BY <2>3, <3>1, <3>2, DispatchKeepsModes DEF CallNext
  <2> QED
    BY <1>7, <2>1, <2>2, <2>3 DEF Scripts
<1>8. ASSUME NEW p \in Layers, NEW what \in Awaitable, Await(p, what) PROVE ModeInv'
  BY <1>8, LeaveKeepsModes DEF Await
<1>9. ASSUME NEW p \in Layers, Resume(p) PROVE ModeInv'
  BY <1>9 DEF Resume, ModeInv, TypeOK
<1>10. ASSUME NEW p \in Layers, Return(p) PROVE ModeInv'
  <2>1. mode[p] = "resumed" /\ awaits[p] = "next" => outcome[p + 1].tag # "pending"
    BY DEF OutcomeInv, AwaitInv, IsSettled
  <2>2. PICK o : o.tag # "pending" /\ result' = [result EXCEPT ![p] = o]
    <3> DEFINE Own == {Made(tag, p) : tag \in {"value", "malformed", "undefined"}}
    <3>1. PICK o : /\ o \in Own \/ (mode[p] = "resumed" /\ awaits[p] = "next" /\ o = outcome[p + 1])
                   /\ result' = [result EXCEPT ![p] = o]
      BY <1>10 DEF Return
    <3>2. o.tag # "pending"
      BY <2>1, <3>1 DEF Made
    <3> QED
      BY <3>1, <3>2
  <2> QED
    BY <1>10, <2>2, LeaveKeepsModes DEF Return
<1>11. ASSUME NEW p \in Layers, NEW tag \in {"failed", "interrupted"}, Throw(p, tag) PROVE ModeInv'
  <2>1. Made(tag, p).tag # "pending" /\ result' = [result EXCEPT ![p] = Made(tag, p)]
    BY <1>11 DEF Throw, Made
  <2> QED
    BY <1>11, <2>1, LeaveKeepsModes DEF Throw
<1>12. ASSUME NEW p \in Layers, Settle(p) PROVE ModeInv'
  BY <1>1, <1>12 DEF Settle
<1>13. CASE Finish \/ Blocked
  BY <1>1, <1>13 DEF Finish, Blocked
<1>14. ASSUME NEW p \in Layers, LayerStep(p) PROVE ModeInv'
  BY <1>8, <1>9, <1>10, <1>11, <1>12, <1>14 DEF LayerStep
<1>15. CASE UNCHANGED vars
  BY <1>1, <1>15 DEF vars
<1> QED
  BY <1>2, <1>3, <1>4, <1>5, <1>6, <1>7, <1>13, <1>14, <1>15 DEF Next, LoadStep, ChainStep

----------------------------------------------------------------------------
(* What is handed from layer to layer *)

LEMMA HandedOwn ==
  ASSUME NEW f \in [Layers -> Outcome], NEW p \in Layers, NEW tag, f[p] = Made(tag, p)
  PROVE  Handed(f, p, Made(tag, p))
BY DEF Handed, Made, Layers

LEMMA HandedOn ==
  ASSUME NEW f \in [Layers -> Outcome], NEW p \in Layers, NEW o \in Outcome,
         Handed(f, p + 1, o), f[p] = o \/ f[p].tag = "undefined"
  PROVE  Handed(f, p, o)
<1>1. p \in Nat /\ MaxLayers \in Nat /\ o.from \in Nat
  BY ApiVmAssumption DEF Outcome, Layers
<1>2. /\ o.from \in p + 1 .. MaxLayers /\ f[o.from] = o
      /\ \A q \in p + 1 .. o.from - 1 : f[q] = o \/ f[q].tag = "undefined"
  BY DEF Handed
<1>3. o.from \in p .. MaxLayers
  BY <1>1, <1>2
<1>4. ASSUME NEW q \in p .. o.from - 1
      PROVE  f[q] = o \/ f[q].tag = "undefined"
  <2>1. q = p \/ q \in p + 1 .. o.from - 1
    BY <1>1
  <2> QED
    BY <1>2, <2>1
<1> QED
  BY <1>2, <1>3, <1>4 DEF Handed

LEMMA HandedHasResult ==
  ASSUME NEW f \in [Layers -> Outcome], NEW p \in Layers, NEW o \in Outcome,
         Handed(f, p, o), o.tag # "pending"
  PROVE  \A q \in p .. o.from : f[q].tag # "pending"
<1>1. p \in Nat /\ o.from \in Nat
  BY DEF Outcome, Layers
<1> SUFFICES ASSUME NEW q \in p .. o.from
             PROVE  f[q].tag # "pending"
  OBVIOUS
<1>2. CASE q = o.from
  BY <1>2 DEF Handed
<1>3. CASE q # o.from
  <2>1. q \in p .. o.from - 1
    BY <1>1, <1>3
  <2>2. f[q] = o \/ f[q].tag = "undefined"
    BY <2>1 DEF Handed
  <2> QED
    BY <2>2
<1> QED
  BY <1>2, <1>3

\* A layer that gets its result now was no part of what others have.
LEMMA HandedKept ==
  ASSUME NEW f \in [Layers -> Outcome], NEW p \in Layers, NEW o \in Outcome,
         Handed(f, p, o), o.tag # "pending",
         NEW r \in Layers, f[r].tag = "pending", NEW v \in Outcome
  PROVE  Handed([f EXCEPT ![r] = v], p, o)
<1> DEFINE g == [f EXCEPT ![r] = v]
<1>1. p \in Nat /\ o.from \in p .. MaxLayers
  BY DEF Handed, Layers
<1>2. ASSUME NEW q \in p .. o.from PROVE g[q] = f[q]
  <2>1. q \in Layers
    BY <1>1 DEF Layers
  <2>2. q # r
    BY HandedHasResult
  <2> QED
    BY <2>1, <2>2
<1>3. g[o.from] = o
  <2>1. o.from \in p .. o.from
    BY <1>1
  <2> QED
    BY <1>2, <2>1 DEF Handed
<1>4. ASSUME NEW q \in p .. o.from - 1 PROVE g[q] = o \/ g[q].tag = "undefined"
  <2>1. q \in p .. o.from
    BY <1>1
  <2>2. g[q] = f[q]
    BY <1>2, <2>1
  <2>3. f[q] = o \/ f[q].tag = "undefined"
    BY DEF Handed
  <2> HIDE DEF g
  <2> QED
    BY <2>2, <2>3
<1> HIDE DEF g
<1>5. Handed(g, p, o)
  BY <1>1, <1>3, <1>4 DEF Handed
<1> QED
  BY <1>5 DEF g

\* The results and the settled promises, when the layer on top gets its result.
LEMMA ResultsKept ==
  ASSUME TypeOK, ResultInv, SettledInv, NEW p \in Layers, result[p].tag = "pending",
         NEW v \in Outcome, result' = [result EXCEPT ![p] = v], Handed(result', p, v),
         \A q \in Layers : IsSettled(outcome'[q]) => outcome'[q] = outcome[q]
  PROVE  ResultInv' /\ SettledInv'
<1>1. \A q \in Layers : result[q] \in Outcome /\ outcome[q] \in Outcome
  BY DEF TypeOK
<1>2. ASSUME NEW q \in Layers, result'[q].tag # "pending"
      PROVE  Handed(result', q, result'[q])
  <2>1. CASE q = p
    BY <2>1 DEF TypeOK
  <2>2. CASE q # p
    <3>1. result'[q] = result[q]
      BY <2>2 DEF TypeOK
    <3>2. Handed(result, q, result[q])
      BY <1>2, <3>1 DEF ResultInv
    <3> QED
      BY <1>1, <1>2, <3>1, <3>2, HandedKept DEF TypeOK
  <2> QED
    BY <2>1, <2>2
<1>3. ASSUME NEW q \in Layers, IsSettled(outcome'[q])
      PROVE  Handed(result', q, outcome'[q])
  <2>1. outcome'[q] = outcome[q] /\ IsSettled(outcome[q]) /\ outcome[q].tag # "pending"
    BY <1>3 DEF IsSettled
  <2>2. Handed(result, q, outcome[q])
    BY <2>1 DEF SettledInv
  <2> QED
    BY <1>1, <2>1, <2>2, HandedKept DEF TypeOK
<1> QED
  BY <1>2, <1>3 DEF ResultInv, SettledInv

\* A layer without a result has no settled promise either.
LEMMA NoResultNotSettled ==
  ASSUME TypeOK, SettledInv, NEW p \in Layers, result[p].tag = "pending"
  PROVE  ~IsSettled(outcome[p])
<1> SUFFICES ASSUME IsSettled(outcome[p])
             PROVE  FALSE
  OBVIOUS
<1>1. Handed(result, p, outcome[p]) /\ outcome[p].tag # "pending"
  BY DEF SettledInv, IsSettled
<1>2. result \in [Layers -> Outcome] /\ outcome[p] \in Outcome
  BY DEF TypeOK
<1>3. p \in p .. outcome[p].from
  BY <1>1 DEF Handed, Layers
<1> QED
  BY <1>1, <1>2, <1>3, HandedHasResult

LEMMA ReturnKeepsOutcomes ==
  ASSUME TypeOK, ShapeInv, ModeInv, OutcomeInv, NEW p \in Layers, Return(p)
  PROVE  OutcomeInv'
<1>1. /\ phase = "chain" /\ phase' = phase
      /\ result[p].tag = "pending" /\ mode' = [mode EXCEPT ![p] = "over"]
      /\ UNCHANGED <<awaits, outcome>>
  <2>1. "over" \in Modes
    BY DEF Modes
  <2> QED
    BY <2>1, TopOfStack DEF Return, Leave, host
<1>2. PICK o \in {Made(tag, p) : tag \in {"value", "malformed", "undefined"}}
                  \cup (IF mode[p] = "resumed" /\ awaits[p] = "next" THEN {outcome[p + 1]} ELSE {}) :
        o.tag \notin {"failed", "interrupted"} /\ result' = [result EXCEPT ![p] = o]
  BY DEF Return
<1>3. result' \in [Layers -> Outcome] /\ result'[p] = o /\ o \in Outcome /\ o.tag # "threw"
      /\ Handed(result', p, o)
  <2>1. CASE \E tag \in {"value", "malformed", "undefined"} : o = Made(tag, p)
    <3>1. PICK tag \in {"value", "malformed", "undefined"} : o = Made(tag, p)
      BY <2>1
    <3>2. o \in Outcome /\ o.tag # "threw"
      BY <3>1, MadeType DEF Tags, Made
    <3>3. result' \in [Layers -> Outcome] /\ result'[p] = o
      BY <1>2, <3>2 DEF TypeOK
    <3> QED
      BY <3>1, <3>2, <3>3, HandedOwn
  <2>2. CASE mode[p] = "resumed" /\ awaits[p] = "next" /\ o = outcome[p + 1]
    <3>1. p + 1 \in Layers
      BY <2>2 DEF ShapeInv, Layers
    <3>2. IsSettled(o)
      BY <2>2 DEF OutcomeInv, AwaitInv
    <3>3. o \in Outcome /\ o.tag # "threw" /\ o.tag # "pending"
      BY <2>2, <3>1, <3>2 DEF TypeOK, IsSettled
    <3>4. result' \in [Layers -> Outcome] /\ result'[p] = o
      BY <1>2, <3>3 DEF TypeOK
    <3>5. Handed(result, p + 1, o)
      BY <2>2, <3>1, <3>2 DEF OutcomeInv, SettledInv
    <3>6. Handed(result', p + 1, o)
      BY <1>1, <1>2, <3>1, <3>3, <3>5, HandedKept DEF TypeOK
    <3> QED
      BY <3>3, <3>4, <3>6, HandedOn
  <2> QED
    BY <1>2, <2>1, <2>2
<1>4. ResultInv' /\ SettledInv'
  BY <1>1, <1>2, <1>3, ResultsKept DEF OutcomeInv
<1>5. ThrewInv'
  <2>1. outcome[p].tag # "threw"
    BY <1>1 DEF OutcomeInv, ThrewInv
  <2>2. \A q \in Layers : q # p => result'[q] = result[q]
    BY <1>2 DEF TypeOK
  <2> QED
    BY <1>1, <1>3, <2>1, <2>2 DEF OutcomeInv, ThrewInv
<1>6. AwaitInv'
  BY <1>1 DEF OutcomeInv, AwaitInv, TypeOK
<1> QED
  BY <1>1, <1>4, <1>5, <1>6 DEF OutcomeInv, AnswerInv

LEMMA ThrowKeepsOutcomes ==
  ASSUME TypeOK, ShapeInv, ModeInv, OutcomeInv,
         NEW p \in Layers, NEW tag \in {"failed", "interrupted"}, Throw(p, tag)
  PROVE  OutcomeInv'
<1>1. /\ phase = "chain" /\ phase' = phase
      /\ result[p].tag = "pending" /\ mode' = [mode EXCEPT ![p] = "over"]
      /\ UNCHANGED awaits
  <2>1. "over" \in Modes
    BY DEF Modes
  <2> QED
    BY <2>1, TopOfStack DEF Throw, Leave, host
<1>2. /\ result' = [result EXCEPT ![p] = Made(tag, p)]
      /\ \/ UNCHANGED outcome
         \/ outcome' = [outcome EXCEPT ![p] = Made("threw", p)]
  BY DEF Throw
<1>3. /\ Made(tag, p) \in Outcome /\ Made(tag, p).tag = tag
      /\ result' \in [Layers -> Outcome] /\ result'[p] = Made(tag, p)
      /\ \A q \in Layers : q # p => result'[q] = result[q]
  <2>1. Made(tag, p) \in Outcome /\ Made(tag, p).tag = tag
    BY MadeType DEF Tags, Made
  <2> QED
    BY <1>2, <2>1 DEF TypeOK
<1>4. Handed(result', p, Made(tag, p))
  BY <1>3, HandedOwn
<1>5. ~IsSettled(outcome[p])
  BY <1>1, NoResultNotSettled DEF OutcomeInv
<1>6. \A q \in Layers : /\ q # p => outcome'[q] = outcome[q]
                        /\ outcome'[p] = outcome[p] \/ outcome'[p].tag = "threw"
  BY <1>2 DEF TypeOK, Made
<1>7. ResultInv' /\ SettledInv'
  <2>1. \A q \in Layers : IsSettled(outcome'[q]) => outcome'[q] = outcome[q]
    BY <1>6 DEF IsSettled
  <2> QED
    BY <1>1, <1>2, <1>3, <1>4, <2>1, ResultsKept DEF OutcomeInv
<1>8. ThrewInv'
  BY <1>3, <1>6 DEF OutcomeInv, ThrewInv
<1>9. AwaitInv'
  <2> SUFFICES ASSUME NEW q \in Layers, mode'[q] = "resumed", awaits'[q] = "next"
               PROVE  IsSettled(outcome'[q + 1])
    BY DEF AwaitInv
  <2>1. mode[q] = "resumed" /\ awaits[q] = "next"
    BY <1>1 DEF TypeOK
  <2>2. IsSettled(outcome[q + 1]) /\ q + 1 \in Layers
    BY <2>1 DEF OutcomeInv, AwaitInv, ShapeInv, Layers
  <2> QED
    BY <1>5, <1>6, <2>2
<1> QED
  BY <1>1, <1>7, <1>8, <1>9 DEF OutcomeInv, AnswerInv

LEMMA SettleKeepsOutcomes ==
  ASSUME TypeOK, ShapeInv, OutcomeInv, NEW p \in Layers, Settle(p)
  PROVE  OutcomeInv'
<1>1. /\ phase = "chain" /\ phase' = phase /\ UNCHANGED <<mode, awaits, result>>
      /\ outcome[p].tag = "pending" /\ result[p].tag # "pending"
      /\ SettledTo(p).tag # "pending" /\ outcome' = [outcome EXCEPT ![p] = SettledTo(p)]
  BY DEF Settle, host
<1>2. SettledTo(p) \in Outcome /\ SettledTo(p).tag # "threw" /\ Handed(result, p, SettledTo(p))
  <2>1. CASE result[p].tag = "undefined" /\ p # layers /\ called[p] /\ outcome[p + 1].tag # "threw"
    <3>1. SettledTo(p) = outcome[p + 1]
      BY <2>1 DEF SettledTo
    <3>2. p + 1 \in Layers
      BY <2>1 DEF ShapeInv, Layers
    <3>3. IsSettled(outcome[p + 1])
      BY <1>1, <2>1, <3>1 DEF IsSettled
    <3>4. Handed(result, p + 1, outcome[p + 1])
      BY <3>2, <3>3 DEF OutcomeInv, SettledInv
    <3>5. result \in [Layers -> Outcome] /\ outcome[p + 1] \in Outcome
      BY <3>2 DEF TypeOK
    <3> QED
      BY <2>1, <3>1, <3>4, <3>5, HandedOn
  <2>2. CASE ~(result[p].tag = "undefined" /\ p # layers /\ called[p] /\ outcome[p + 1].tag # "threw")
    <3>1. SettledTo(p) = result[p]
      BY <2>2 DEF SettledTo
    <3> QED
      BY <1>1, <3>1 DEF OutcomeInv, ResultInv, ThrewInv, TypeOK
  <2> QED
    BY <2>1, <2>2
<1>3. /\ outcome'[p] = SettledTo(p)
      /\ \A q \in Layers : q # p => outcome'[q] = outcome[q]
  BY <1>1 DEF TypeOK
<1>4. SettledInv'
  BY <1>1, <1>2, <1>3 DEF OutcomeInv, SettledInv
<1>5. ResultInv' /\ ThrewInv'
  BY <1>1, <1>2, <1>3 DEF OutcomeInv, ResultInv, ThrewInv
<1>6. AwaitInv'
  <2> SUFFICES ASSUME NEW q \in Layers, mode[q] = "resumed", awaits[q] = "next"
               PROVE  IsSettled(outcome'[q + 1])
    BY <1>1 DEF AwaitInv
  <2>1. IsSettled(outcome[q + 1]) /\ q + 1 \in Layers
    BY DEF OutcomeInv, AwaitInv, ShapeInv, Layers
  <2> QED
    BY <1>1, <1>3, <2>1 DEF IsSettled
<1> QED
  BY <1>1, <1>4, <1>5, <1>6 DEF OutcomeInv, AnswerInv

LEMMA OutcomeInductive ==
  ASSUME TypeOK, ShapeInv, StartInv, ModeInv, OutcomeInv, [Next]_vars
  PROVE  OutcomeInv'
<1> USE DEF host, load, chain
<1>1. ASSUME UNCHANGED <<mode, awaits, result, outcome>>,
             \/ phase' # "over" \/ answer' # "ok"
             \/ UNCHANGED <<phase, answer>>
             \/ IsSettled(outcome[0])
      PROVE  OutcomeInv'
  BY <1>1 DEF OutcomeInv, ResultInv, SettledInv, ThrewInv, AwaitInv, AnswerInv
<1>2. ASSUME NEW p \in Layers, Dispatch(p), UNCHANGED <<awaits, result, outcome>>, phase' # "over"
      PROVE  OutcomeInv'
  <2>1. AwaitInv'
    BY <1>2 DEF OutcomeInv, AwaitInv, Dispatch, TypeOK
  <2> QED
    BY <1>2, <2>1 DEF OutcomeInv, ResultInv, SettledInv, ThrewInv, AnswerInv
<1>3. CASE LoadSkill
  BY <1>1, <1>3 DEF LoadSkill
<1>4. ASSUME NEW a \in Api, BeginCall(a) PROVE OutcomeInv'
  <2>1. \A p \in Layers : result'[p].tag = "pending" /\ outcome'[p].tag = "pending" /\ mode'[p] = "idle"
    BY <1>4 DEF BeginCall, FreshChain, Pending
  <2>2. ~(phase' = "over" /\ answer' = "ok")
    BY <1>4 DEF BeginCall
  <2> QED
    BY <2>1, <2>2 DEF OutcomeInv, ResultInv, SettledInv, ThrewInv, AwaitInv, AnswerInv, IsSettled
<1>5. CASE LoadEntry \/ (\E s \in Specifier : Require(s)) \/ BodyReturns \/ Registered
  BY <1>1, <1>5 DEF LoadEntry, Require, BodyReturns, Registered
<1>6. ASSUME NEW n \in 1 .. Cardinality(Module), BodyThrows(n) PROVE OutcomeInv'
  BY <1>1, <1>6 DEF BodyThrows, ErrorInLoad, End
<1>7. CASE CallApi
  <2>1. CASE api \in registered
    BY <1>2, <1>7, <2>1, LayersNat DEF CallApi
  <2>2. CASE api \notin registered
    BY <1>1, <1>7, <2>2 DEF CallApi, End
  <2> QED
    BY <2>1, <2>2
<1>8. CASE Scripts
  <2>1. ASSUME NEW a \in Api, RegisterAPI(a) PROVE OutcomeInv'
    BY <1>1, <2>1 DEF RegisterAPI
  <2>2. CASE Use
    BY <1>1, <2>2 DEF Use
  <2>3. ASSUME NEW p \in Layers, CallNext(p) PROVE OutcomeInv'
    <3>1. p + 1 \in Layers
      BY <2>3 DEF CallNext, Layers, TypeOK
    <3>2. Dispatch(p + 1) /\ UNCHANGED <<awaits, result, outcome>> /\ phase' # "over"
      BY <2>3 DEF CallNext
    <3> QED
      BY <1>2, <3>1, <3>2
  <2> QED
    BY <1>8, <2>1, <2>2, <2>3 DEF Scripts
<1>9. ASSUME NEW p \in Layers, NEW what \in Awaitable, Await(p, what) PROVE OutcomeInv'
  <2>1. /\ mode' = [mode EXCEPT ![p] = "waiting"] /\ awaits' = [awaits EXCEPT ![p] = what]
        /\ UNCHANGED <<result, outcome>> /\ phase' = "chain"
    BY <1>9 DEF Await, Leave
  <2>2. AwaitInv'
    BY <2>1 DEF OutcomeInv, AwaitInv, TypeOK
  <2> QED
    BY <2>1, <2>2 DEF OutcomeInv, ResultInv, SettledInv, ThrewInv, AnswerInv
<1>10. ASSUME NEW p \in Layers, Resume(p) PROVE OutcomeInv'
  <2>1. /\ mode' = [mode EXCEPT ![p] = "resumed"] /\ Arrived(p)
        /\ UNCHANGED <<awaits, result, outcome>> /\ phase' = "chain"
    BY <1>10 DEF Resume
  <2>2. awaits[p] = "next" => IsSettled(outcome[p + 1])
    BY <2>1 DEF Arrived
  <2>3. AwaitInv'
    BY <2>1, <2>2 DEF OutcomeInv, AwaitInv, TypeOK
  <2> QED
    BY <2>1, <2>3 DEF OutcomeInv, ResultInv, SettledInv, ThrewInv, AnswerInv
<1>11. ASSUME NEW p \in Layers, LayerStep(p) PROVE OutcomeInv'
  BY <1>9, <1>10, <1>11, ReturnKeepsOutcomes, ThrowKeepsOutcomes, SettleKeepsOutcomes DEF LayerStep
<1>12. CASE Finish
  <2>1. CASE IsSettled(outcome[0])
    BY <1>1, <1>12, <2>1 DEF Finish
  <2>2. CASE outcome[0].tag = "threw" /\ End(AnswerTo(result[0].tag))
    <3>1. result[0].tag \in {"failed", "interrupted"}
      BY <2>2, LayersNat DEF OutcomeInv, ThrewInv
    <3>2. answer' # "ok"
      BY <2>2, <3>1 DEF End, AnswerTo
    <3> QED
      BY <1>1, <1>12, <3>2 DEF Finish
  <2> QED
    BY <1>12, <2>1, <2>2 DEF Finish
<1>13. CASE Blocked
  BY <1>1, <1>13 DEF Blocked, End
<1>14. CASE UNCHANGED vars
  BY <1>1, <1>14 DEF vars
<1> QED
  BY <1>3, <1>4, <1>5, <1>6, <1>7, <1>8, <1>11, <1>12, <1>13, <1>14 DEF Next, LoadStep, ChainStep

----------------------------------------------------------------------------
(* The invariant, and what follows from it *)

LEMMA IInvInit == Init => IInv
<1> SUFFICES ASSUME Init
             PROVE  IInv
  OBVIOUS
<1>1. TypeOK
  BY TypeInit
<1>2. ShapeInv /\ CacheInv /\ StartInv /\ ApiInv
  BY DEF Init, ShapeInv, CacheInv, StartInv, ApiInv
<1>3. ModeInv
  BY DEF Init, ModeInv, Pending
<1>4. OutcomeInv
  BY DEF Init, OutcomeInv, ResultInv, SettledInv, ThrewInv, AwaitInv, AnswerInv, IsSettled, Pending
<1> QED
  BY <1>1, <1>2, <1>3, <1>4 DEF IInv, LoadInv

LEMMA TypeInductive ==
  ASSUME TypeOK, ShapeInv, [Next]_vars
  PROVE  TypeOK'
<1>1. CASE LoadSkill \/ (\E a \in Api : BeginCall(a)) \/ LoadStep \/ Scripts
  BY <1>1, LoadTypes
<1>2. CASE ChainStep
  BY <1>2, ChainTypes
<1>3. CASE UNCHANGED vars
  BY <1>3 DEF vars, host, load, chain, TypeOK
<1> QED
  BY <1>1, <1>2, <1>3 DEF Next

LEMMA IInvInductive == IInv /\ [Next]_vars => IInv'
BY TypeInductive, ShapeInductive, CacheInductive, StartInductive, ApiInductive, ModeInductive,
   OutcomeInductive DEF IInv, LoadInv

LEMMA IInvHolds == Spec => []IInv
BY IInvInit, IInvInductive, PTL DEF Spec

\* The state of a runtime, of its chain and of the host keeps its types: no step
\* of a script, of a layer or of the host leaves a state the next one cannot read.
THEOREM TypeCorrect == Spec => []TypeOK
<1>1. IInv => TypeOK
  BY DEF IInv, LoadInv
<1> QED
  BY <1>1, IInvHolds, PTL

\* A module body, a middleware and the handler run at most once in a runtime,
\* for every package, however often it requires in a circle, swallows errors and
\* passes next() around (__dockRequire, __dockRunMiddlewareChain).
THEOREM RunsAtMostOnce == Spec => []RunsOnce
<1>1. IInv => RunsOnce
  BY DEF IInv, LoadInv, CacheInv, StartInv, RunsOnce
<1> QED
  BY <1>1, IInvHolds, PTL

\* A chain runs for a declared API only, which the package has registered in this
\* very runtime, and never on half a module, unless a script swallowed an error
\* (validate_registration, __dockCallApi).
THEOREM WholePackagesRun == Spec => []RunsWholePackage
<1>1. IInv => RunsWholePackage
  <2> SUFFICES ASSUME IInv
               PROVE  RunsWholePackage
    OBVIOUS
  <2>1. \A p \in Layers : starts[p] > 0 => api \in Declared /\ api \in registered
    BY DEF IInv, LoadInv, ApiInv
  <2>2. ASSUME phase = "chain", ~swallowed, NEW m \in Module
        PROVE  cache[m] \in {"absent", "loaded"}
    <3>1. requiring = <<>>
      BY <2>2 DEF IInv, LoadInv, ShapeInv, Loading
    <3>2. cache[m] # "running"
      BY <3>1 DEF IInv, LoadInv, CacheInv
    <3>3. cache[m] # "failed"
      BY <2>2 DEF IInv, LoadInv, CacheInv
    <3> QED
      BY <3>2, <3>3 DEF IInv, LoadInv, TypeOK, CacheStates
  <2> QED
    BY <2>1, <2>2 DEF RunsWholePackage
<1> QED
  BY <1>1, IInvHolds, PTL

\* The value of a success was made by one layer, and every layer around that one
\* returned the same value or nothing: no error and no other value is lost on the
\* way out, for any number of layers (dispatch, finish).
THEOREM AnswersAreOutermost == Spec => []AnswerIsOutermost
<1>1. IInv => AnswerIsOutermost
  <2> SUFFICES ASSUME IInv, phase = "over", answer = "ok"
               PROVE  /\ result[outcome[0].from] = outcome[0]
                      /\ \A q \in 0 .. outcome[0].from - 1 :
                           result[q] = outcome[0] \/ result[q].tag = "undefined"
    BY DEF AnswerIsOutermost
  <2>1. IsSettled(outcome[0])
    BY DEF IInv, OutcomeInv, AnswerInv
  <2>2. Handed(result, 0, outcome[0])
    BY <2>1, LayersNat DEF IInv, OutcomeInv, SettledInv
  <2> QED
    BY <2>2 DEF Handed
<1> QED
  BY <1>1, IInvHolds, PTL
=============================================================================
