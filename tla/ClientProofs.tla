---------------------------- MODULE ClientProofs ----------------------------
(***************************************************************************)
(* What a host runs beside the API runtime: the safety of a card           *)
(* (ComponentVm), for any number of operations and actions, and of the     *)
(* client of signed requests (AnpClient), for any number of requests and   *)
(* tokens; and which templates the parser of cards takes (TemplateParser), *)
(* for every template.  They share nothing.                                *)
(***************************************************************************)
EXTENDS AnpClient, ComponentVm, TemplateParser, SequenceTheorems, FiniteSetTheorems,
        WellFoundedInduction, TLAPS

----------------------------------------------------------------------------
(* A card: the inductive invariant *)

\* Each action was queued after the one before it.
Ascending(s) == \A j, k \in DOMAIN s : j < k => s[j] < s[k]

\* What waits in the buffer comes after all that was delivered.
QueueInv ==
  /\ Ascending(delivered)
  /\ Ascending(buffer)
  /\ \A j \in DOMAIN delivered, k \in DOMAIN buffer : delivered[j] < buffer[k]

\* Between operations nothing is left to run, and an expire that has nothing left
\* to run has told the JS side.
OperationInv ==
  /\ op = "none" => todo = <<>>
  /\ op = "expire" =>
       \/ todo \in {<<"expire", "detached">>, <<"detached">>}
       \/ todo = <<>> /\ jsExpired
  /\ op = "none" /\ verdict = "ok" => state = Taken /\ buffer = <<>>

\* The flag of __dockExpire is set with the detached lifecycle, and before the
\* host's flag.
ExpiryInv ==
  /\ jsExpired <=> detached # 0
  /\ expired => jsExpired

CardInv == CardTypeOK /\ QueueInv /\ OperationInv /\ ExpiryInv

----------------------------------------------------------------------------
(* A card: its queue *)

\* What Push does to the buffer.
LEMMA QueueAppends ==
  ASSUME NEW p \in Nat, NEW n \in 0 .. 2, NEW s \in Seq(1 .. p),
         NEW t, t = s \o [k \in 1 .. n |-> p + k]
  PROVE  /\ t \in Seq(1 .. p + n)
         /\ Len(t) = Len(s) + n
         /\ \A j \in 1 .. Len(s) : t[j] = s[j]
         /\ \A j \in 1 .. n : t[Len(s) + j] = p + j
<1> DEFINE new == [k \in 1 .. n |-> p + k]
<1>1. new \in Seq(1 .. p + n) /\ Len(new) = n /\ \A j \in 1 .. n : new[j] = p + j
  BY n \in Nat, IsASeq, SeqDef
<1>2. s \in Seq(1 .. p + n)
  BY 1 .. p \subseteq 1 .. p + n, SeqMonotonic
<1>3. t = s \o new
  OBVIOUS
<1> HIDE DEF new
<1>4. /\ t \in Seq(1 .. p + n)
      /\ Len(t) = Len(s) + n
      /\ \A j \in 1 .. Len(s) + n : t[j] = IF j <= Len(s) THEN s[j] ELSE new[j - Len(s)]
  BY <1>1, <1>2, <1>3, ConcatProperties
<1>5. Len(s) \in Nat
  BY LenProperties
<1>6. \A j \in 1 .. n : t[Len(s) + j] = new[j]
  <2> TAKE j \in 1 .. n
  <2>1. /\ Len(s) + j \in 1 .. Len(s) + n
        /\ ~(Len(s) + j <= Len(s))
        /\ (Len(s) + j) - Len(s) = j
    BY <1>5
  <2> QED
    BY <1>4, <2>1
<1> QED
  BY <1>1, <1>4, <1>5, <1>6

LEMMA CardInvInit == CardInit => CardInv
<1> SUFFICES ASSUME CardInit
             PROVE  CardInv
  OBVIOUS
<1> USE DEF CardInit
<1>1. CardTypeOK
  <2>1. /\ <<>> \in Seq(1 .. pushed)
        /\ <<>> \in Seq(Handlers)
        /\ <<>> \in Seq(Seq(Handlers))
    BY EmptySeq
  <2>2. /\ todo \in Seq(Handlers)
        /\ buffer \in Seq(1 .. pushed)
        /\ delivered \in Seq(1 .. pushed)
        /\ suspended \in Seq(Seq(Handlers))
    BY <2>1, Zenon
  <2>3. /\ mounted \in BOOLEAN /\ expired \in BOOLEAN
        /\ jsExpired \in BOOLEAN /\ asked \in BOOLEAN
    OBVIOUS
  <2>4. /\ op \in {"none", "mount", "event", "expire"}
        /\ verdict \in {"none", "ok", "error"}
    OBVIOUS
  <2>5. /\ state \in Nat /\ instance \in Nat /\ data \in Nat /\ pushed \in Nat
        /\ detached \in Nat /\ calls \in Nat /\ stray \in 0..instance
    OBVIOUS
  <2> HIDE DEF CardInit
  <2> QED
    BY <2>2, <2>3, <2>4, <2>5 DEF CardTypeOK
<1>2. QueueInv
  BY DEF QueueInv, Ascending
<1>3. OperationInv /\ ExpiryInv
  BY DEF OperationInv, ExpiryInv
<1> QED
  BY <1>1, <1>2, <1>3 DEF CardInv

\* A handler that queues actions keeps the queue in order.
LEMMA PushKeepsQueue ==
  ASSUME CardInv, NEW n \in 0 .. 2, Push(n), UNCHANGED delivered
  PROVE  /\ pushed' \in Nat
         /\ buffer' \in Seq(1 .. pushed')
         /\ delivered' \in Seq(1 .. pushed')
         /\ QueueInv'
<1> USE DEF CardInv, CardTypeOK
<1>1. pushed' = pushed + n /\ pushed' \in Nat
  BY DEF Push
<1>2. /\ buffer' \in Seq(1 .. pushed')
      /\ Len(buffer') = Len(buffer) + n
      /\ \A j \in 1 .. Len(buffer) : buffer'[j] = buffer[j]
      /\ \A j \in 1 .. n : buffer'[Len(buffer) + j] = pushed + j
  BY <1>1, QueueAppends DEF Push
<1>3. delivered' \in Seq(1 .. pushed')
  BY <1>1, 1 .. pushed \subseteq 1 .. pushed', SeqMonotonic
<1>4. /\ Len(buffer) \in Nat /\ DOMAIN buffer = 1 .. Len(buffer)
      /\ Len(buffer') \in Nat /\ DOMAIN buffer' = 1 .. Len(buffer')
      /\ DOMAIN delivered = 1 .. Len(delivered)
      /\ \A j \in DOMAIN buffer : buffer[j] \in 1 .. pushed
      /\ \A j \in DOMAIN delivered : delivered[j] \in 1 .. pushed
  BY <1>2, LenProperties, ElementOfSeq
<1>5. \A j \in DOMAIN buffer' :
        \/ j \in DOMAIN buffer /\ buffer'[j] = buffer[j]
        \/ j > Len(buffer) /\ buffer'[j] = pushed + (j - Len(buffer))
  <2> TAKE j \in DOMAIN buffer'
  <2>1. CASE j <= Len(buffer)
    BY <1>2, <1>4, <2>1
  <2>2. CASE j > Len(buffer)
    <3>1. j - Len(buffer) \in 1 .. n /\ j = Len(buffer) + (j - Len(buffer))
      BY <1>2, <1>4, <2>2
    <3> QED
      BY <1>2, <2>2, <3>1
  <2> QED
    BY <1>4, <2>1, <2>2
<1>6. pushed \in Nat /\ DOMAIN buffer' \subseteq Int
  BY <1>4
<1> HIDE DEF CardInv, CardTypeOK
<1>7. Ascending(buffer')
  <2> SUFFICES ASSUME NEW j \in DOMAIN buffer', NEW k \in DOMAIN buffer', j < k
               PROVE  buffer'[j] < buffer'[k]
    BY DEF Ascending
  <2>1. CASE k \in DOMAIN buffer /\ buffer'[k] = buffer[k]
    <3>1. j \in DOMAIN buffer /\ buffer'[j] = buffer[j]
      BY <1>4, <1>5, <1>6, <2>1
    <3> QED
      BY <2>1, <3>1 DEF CardInv, QueueInv, Ascending
  <2>2. CASE k > Len(buffer) /\ buffer'[k] = pushed + (k - Len(buffer))
    BY <1>4, <1>5, <1>6, <2>2
  <2> QED
    BY <1>5, <2>1, <2>2
<1>8. \A j \in DOMAIN delivered, k \in DOMAIN buffer' : delivered[j] < buffer'[k]
  <2> SUFFICES ASSUME NEW j \in DOMAIN delivered, NEW k \in DOMAIN buffer'
               PROVE  delivered[j] < buffer'[k]
    OBVIOUS
  <2>1. CASE k \in DOMAIN buffer /\ buffer'[k] = buffer[k]
    BY <2>1 DEF CardInv, QueueInv
  <2>2. CASE k > Len(buffer) /\ buffer'[k] = pushed + (k - Len(buffer))
    BY <1>4, <1>6, <2>2
  <2> QED
    BY <1>5, <2>1, <2>2
<1> QED
  BY <1>1, <1>2, <1>3, <1>7, <1>8 DEF CardInv, QueueInv, Ascending

\* What a handler does besides ending keeps the types and the queue.
LEMMA EffectsKeep ==
  ASSUME CardInv, NEW n \in 0 .. 2, NEW changes \in BOOLEAN, NEW leaves \in BOOLEAN,
         Effects(n, changes, leaves), UNCHANGED <<instance, delivered>>
  PROVE  /\ pushed' \in Nat
         /\ buffer' \in Seq(1 .. pushed')
         /\ delivered' \in Seq(1 .. pushed')
         /\ data' \in Nat
         /\ stray' \in 0 .. instance'
         /\ QueueInv'
<1>1. Push(n) /\ UNCHANGED delivered
  BY DEF Effects
<1>2. data' \in Nat /\ stray' \in 0 .. instance'
  BY DEF Effects, SetData, CardInv, CardTypeOK
<1> QED
  BY <1>1, <1>2, PushKeepsQueue

\* Taking one of the operations given up out of their list.
LEMMA WithoutIsASeq ==
  ASSUME CardInv, NEW k \in DOMAIN suspended
  PROVE  Without(k) \in Seq(Seq(Handlers))
<1> DEFINE m == Len(suspended) - 1
           e(j) == suspended[IF j < k THEN j ELSE j + 1]
<1>1. /\ suspended \in Seq(Seq(Handlers))
      /\ Len(suspended) \in Nat
      /\ DOMAIN suspended = 1 .. Len(suspended)
  BY LenProperties DEF CardInv, CardTypeOK
<1>2. m \in Nat
  BY <1>1
<1>3. \A j \in 1 .. m : e(j) \in Seq(Handlers)
  <2> TAKE j \in 1 .. m
  <2>1. (IF j < k THEN j ELSE j + 1) \in 1 .. Len(suspended)
    BY <1>1
  <2> QED
    BY <1>1, <2>1, ElementOfSeq
<1>4. [j \in 1 .. m |-> e(j)] \in Seq(Seq(Handlers))
  BY <1>2, <1>3, IsASeq
<1> QED
  BY <1>4 DEF Without

\* What stays when a step leaves the queue alone, or hands it over as a whole.
LEMMA QueueStable ==
  ASSUME CardInv, UNCHANGED delivered, buffer' \in {buffer, <<>>}
  PROVE  QueueInv'
<1>1. CASE buffer' = buffer
  BY <1>1 DEF CardInv, QueueInv, Ascending
<1>2. CASE buffer' = <<>>
  BY <1>2 DEF CardInv, QueueInv, Ascending
<1> QED
  BY <1>1, <1>2

LEMMA QueueHandedOver ==
  ASSUME CardInv, buffer' = <<>>, delivered' = delivered \o buffer
  PROVE  delivered' \in Seq(1 .. pushed) /\ QueueInv'
<1>1. /\ delivered \in Seq(1 .. pushed) /\ buffer \in Seq(1 .. pushed)
      /\ Len(delivered) \in Nat /\ DOMAIN delivered = 1 .. Len(delivered)
      /\ Len(buffer) \in Nat /\ DOMAIN buffer = 1 .. Len(buffer)
  BY LenProperties DEF CardInv, CardTypeOK
<1>2. /\ delivered' \in Seq(1 .. pushed)
      /\ Len(delivered') = Len(delivered) + Len(buffer)
      /\ \A j \in 1 .. Len(delivered) + Len(buffer) :
           delivered'[j] = IF j <= Len(delivered) THEN delivered[j]
                           ELSE buffer[j - Len(delivered)]
  BY <1>1, ConcatProperties
<1>3. DOMAIN delivered' = 1 .. Len(delivered) + Len(buffer)
  BY <1>2, LenProperties
<1>4. Ascending(delivered')
  <2> SUFFICES ASSUME NEW j \in DOMAIN delivered', NEW k \in DOMAIN delivered', j < k
               PROVE  delivered'[j] < delivered'[k]
    BY DEF Ascending
  <2>1. CASE k <= Len(delivered)
    <3>1. /\ j \in DOMAIN delivered /\ k \in DOMAIN delivered
          /\ delivered'[j] = delivered[j] /\ delivered'[k] = delivered[k]
      BY <1>1, <1>2, <1>3, <2>1
    <3> QED
      BY <3>1 DEF CardInv, QueueInv, Ascending
  <2>2. CASE j <= Len(delivered) /\ k > Len(delivered)
    <3>1. /\ j \in DOMAIN delivered /\ k - Len(delivered) \in DOMAIN buffer
          /\ delivered'[j] = delivered[j]
          /\ delivered'[k] = buffer[k - Len(delivered)]
      BY <1>1, <1>2, <1>3, <2>2
    <3> QED
      BY <3>1 DEF CardInv, QueueInv
  <2>3. CASE j > Len(delivered)
    <3>1. /\ j - Len(delivered) \in DOMAIN buffer
          /\ k - Len(delivered) \in DOMAIN buffer
          /\ j - Len(delivered) < k - Len(delivered)
          /\ delivered'[j] = buffer[j - Len(delivered)]
          /\ delivered'[k] = buffer[k - Len(delivered)]
      BY <1>1, <1>2, <1>3, <2>3
    <3> QED
      BY <3>1 DEF CardInv, QueueInv, Ascending
  <2> QED
    BY <1>1, <1>3, <2>1, <2>2, <2>3
<1> QED
  BY <1>2, <1>4 DEF QueueInv, Ascending

----------------------------------------------------------------------------
(* A card: the steps: the host's calls *)

LEMMA CallsInductive ==
  ASSUME CardInv, Mount \/ (\E known \in BOOLEAN : Dispatch(known)) \/ Expire
  PROVE  CardInv'
<1> USE DEF CardInv, CardTypeOK, Call, host, js
<1>1. /\ <<"created", "input", "result", "attached">> \in Seq(Handlers)
      /\ <<"event">> \in Seq(Handlers)
      /\ <<"expire", "detached">> \in Seq(Handlers)
      /\ <<>> \in Seq(Handlers)
  BY DEF Handlers
<1>2. CASE Mount
  <2>1. QueueInv'
    BY <1>2, QueueStable DEF Mount
  <2>2. CardTypeOK'
    BY <1>1, <1>2 DEF Mount, Begin
  <2>3. OperationInv' /\ ExpiryInv'
    BY <1>2 DEF Mount, Begin, OperationInv, ExpiryInv
  <2> QED
    BY <2>1, <2>2, <2>3
<1>3. CASE \E known \in BOOLEAN : Dispatch(known)
  <2> PICK known \in BOOLEAN : Dispatch(known)
    BY <1>3
  <2>1. QueueInv'
    BY QueueStable DEF Dispatch
  <2>2. CardTypeOK'
    <3>1. todo' \in Seq(Handlers)
      BY <1>1, Zenon DEF Dispatch, Begin, Fail
    <3>2. /\ op' \in {"none", "event"} /\ verdict' \in {verdict, "error"}
          /\ calls' \in Nat
      BY DEF Dispatch, Begin, Fail
    <3> QED
      BY <3>1, <3>2 DEF Dispatch
  <2>3. OperationInv' /\ ExpiryInv'
    BY DEF Dispatch, Begin, Fail, OperationInv, ExpiryInv
  <2> QED
    BY <2>1, <2>2, <2>3
<1>4. CASE Expire
  <2>1. QueueInv'
    BY <1>4, QueueStable DEF Expire
  <2>2. CardTypeOK'
    <3>1. todo' \in Seq(Handlers)
      BY <1>1, <1>4, Zenon DEF Expire, Begin, Fail
    <3>2. /\ op' \in {"none", "expire"} /\ verdict' \in {verdict, "error"}
          /\ calls' \in Nat /\ asked' \in BOOLEAN
      BY <1>4 DEF Expire, Begin, Fail
    <3> QED
      BY <1>4, <3>1, <3>2 DEF Expire
  <2>3. OperationInv' /\ ExpiryInv'
    BY <1>4 DEF Expire, Begin, Fail, OperationInv, ExpiryInv
  <2> QED
    BY <2>1, <2>2, <2>3
<1> QED
  BY <1>2, <1>3, <1>4

----------------------------------------------------------------------------
(* A card: the steps: component code *)

\* The flag of __dockExpire and the detached lifecycle keep in step.
LEMMA ReturnedKeepsStep ==
  ASSUME CardInv, NEW h, Returned(h)
  PROVE  /\ detached' \in Nat /\ jsExpired' \in BOOLEAN
         /\ jsExpired' <=> detached' # 0
         /\ jsExpired \/ h = "detached" => jsExpired'
<1>1. detached \in Nat /\ (jsExpired <=> detached # 0)
  BY DEF CardInv, CardTypeOK, ExpiryInv
<1>2. jsExpired' \in BOOLEAN /\ (jsExpired' <=> jsExpired \/ h = "detached")
  BY Zenon DEF Returned
<1>3. detached' = detached + (IF h = "detached" THEN 1 ELSE 0)
  BY DEF Returned
<1>4. detached' \in Nat /\ (detached' # 0 <=> detached # 0 \/ h = "detached")
  BY <1>1, <1>3
<1> QED
  BY <1>1, <1>2, <1>4

\* Running handlers of one operation: what is left of it, and the flag that
\* __dockExpire sets behind the last of them.
LEMMA RunHandlerInductive ==
  ASSUME CardInv, NEW n \in 0 .. 2, NEW changes \in BOOLEAN, NEW leaves \in BOOLEAN,
         NEW throws \in BOOLEAN, RunHandler(n, changes, leaves, throws)
  PROVE  CardInv'
<1> USE DEF RunHandler, host
<1>1. /\ pushed' \in Nat /\ data' \in Nat /\ stray' \in 0 .. instance'
      /\ buffer' \in Seq(1 .. pushed') /\ delivered' \in Seq(1 .. pushed')
      /\ QueueInv'
  BY EffectsKeep
<1>2. todo # <<>> /\ op # "none"
  BY DEF CardInv, OperationInv
<1>3. CASE throws
  <2>1. /\ op' = "none" /\ todo' = <<>> /\ verdict' = "error"
        /\ UNCHANGED <<jsExpired, detached>>
    BY <1>3 DEF Fail
  <2>2. todo' \in Seq(Handlers)
    BY <2>1, EmptySeq
  <2>3. CardTypeOK'
    BY <1>1, <2>1, <2>2 DEF CardInv, CardTypeOK
  <2>4. OperationInv' /\ ExpiryInv'
    BY <2>1 DEF CardInv, OperationInv, ExpiryInv
  <2> QED
    BY <1>1, <2>3, <2>4 DEF CardInv
<1>4. CASE ~throws
  <2>1. UNCHANGED <<op, verdict>> /\ todo' = Tail(todo) /\ Returned(Head(todo))
    BY <1>4
  <2>2. todo' \in Seq(Handlers)
    BY <1>2, <2>1, HeadTailProperties DEF CardInv, CardTypeOK
  <2>3. /\ detached' \in Nat /\ jsExpired' \in BOOLEAN
        /\ jsExpired' <=> detached' # 0
        /\ jsExpired \/ Head(todo) = "detached" => jsExpired'
    BY <2>1, ReturnedKeepsStep
  <2>4. CardTypeOK'
    BY <1>1, <2>1, <2>2, <2>3 DEF CardInv, CardTypeOK
  <2>5. ExpiryInv'
    BY <2>1, <2>3 DEF CardInv, ExpiryInv
  <2>6. op = "expire" =>
          \/ todo = <<"expire", "detached">> /\ todo' = <<"detached">>
          \/ todo = <<"detached">> /\ todo' = <<>> /\ jsExpired'
    <3>1. /\ Tail(<<"expire", "detached">>) = <<"detached">>
          /\ Tail(<<"detached">>) = <<>> /\ Head(<<"detached">>) = "detached"
      OBVIOUS
    <3> QED
      BY <1>2, <2>1, <2>3, <3>1 DEF CardInv, OperationInv
  <2>7. OperationInv'
    BY <1>2, <2>1, <2>6 DEF OperationInv
  <2> QED
    BY <1>1, <2>4, <2>5, <2>7 DEF CardInv
<1> QED
  BY <1>3, <1>4

\* An operation given up fails for the host; what is left of it waits in JS.
LEMMA GiveUpInductive ==
  ASSUME CardInv, NEW n \in 0 .. 1, NEW changes \in BOOLEAN, NEW leaves \in BOOLEAN,
         GiveUp(n, changes, leaves)
  PROVE  CardInv'
<1> USE DEF GiveUp, host
<1>1. /\ pushed' \in Nat /\ data' \in Nat /\ stray' \in 0 .. instance'
      /\ buffer' \in Seq(1 .. pushed') /\ delivered' \in Seq(1 .. pushed')
      /\ QueueInv'
  BY n \in 0 .. 2, EffectsKeep
<1>2. op' = "none" /\ todo' = <<>> /\ verdict' = "error"
  BY DEF Fail
<1>3. todo' \in Seq(Handlers) /\ suspended' \in Seq(Seq(Handlers))
  BY <1>2, EmptySeq, AppendProperties DEF CardInv, CardTypeOK
<1>4. CardTypeOK'
  BY <1>1, <1>2, <1>3 DEF CardInv, CardTypeOK
<1>5. OperationInv' /\ ExpiryInv'
  BY <1>2 DEF CardInv, OperationInv, ExpiryInv
<1> QED
  BY <1>1, <1>4, <1>5 DEF CardInv

\* A promise left behind runs during an operation and leaves its course alone.
LEMMA RunStrayInductive ==
  ASSUME CardInv, NEW n \in 0 .. 1, NEW changes \in BOOLEAN, NEW leaves \in BOOLEAN,
         RunStray(n, changes, leaves)
  PROVE  CardInv'
<1> USE DEF RunStray, host
<1>1. /\ pushed' \in Nat /\ QueueInv'
      /\ buffer' \in Seq(1 .. pushed') /\ delivered' \in Seq(1 .. pushed')
  BY n \in 0 .. 2, PushKeepsQueue
<1>2. data' \in Nat /\ stray' \in 0 .. instance'
  BY DEF SetData, CardInv, CardTypeOK
<1>3. CardTypeOK'
  BY <1>1, <1>2 DEF CardInv, CardTypeOK
<1>4. OperationInv' /\ ExpiryInv'
  BY DEF CardInv, OperationInv, ExpiryInv
<1> QED
  BY <1>1, <1>3, <1>4 DEF CardInv

\* So does an operation given up that goes on: it may run the detached lifecycle
\* of an expire that failed for the host long ago.
LEMMA ResumeHandlerInductive ==
  ASSUME CardInv, NEW k \in 1 .. MaxSuspended, NEW n \in 0 .. 1,
         NEW changes \in BOOLEAN, NEW leaves \in BOOLEAN, NEW throws \in BOOLEAN,
         ResumeHandler(k, n, changes, leaves, throws)
  PROVE  CardInv'
<1> USE DEF ResumeHandler, host
<1>1. /\ pushed' \in Nat /\ data' \in Nat /\ stray' \in 0 .. instance'
      /\ buffer' \in Seq(1 .. pushed') /\ delivered' \in Seq(1 .. pushed')
      /\ QueueInv'
  BY n \in 0 .. 2, EffectsKeep
<1>2. /\ suspended \in Seq(Seq(Handlers)) /\ k \in 1 .. Len(suspended)
      /\ suspended[k] \in Seq(Handlers) /\ suspended[k] # <<>>
  BY LenProperties, ElementOfSeq DEF CardInv, CardTypeOK
<1>3. suspended' \in Seq(Seq(Handlers))
  <2>1. CASE throws
    BY <2>1, WithoutIsASeq
  <2>2. CASE ~throws
    <3>1. Tail(suspended[k]) \in Seq(Handlers)
      BY <1>2, HeadTailProperties
    <3>2. suspended' = [suspended EXCEPT ![k] = Tail(suspended[k])]
      BY <2>2
    <3> QED
      BY <1>2, <3>1, <3>2, ExceptSeq
  <2> QED
    BY <2>1, <2>2
<1>4. \/ UNCHANGED <<jsExpired, detached>>
      \/ Returned(Head(suspended[k]))
  OBVIOUS
<1>5. /\ detached' \in Nat /\ jsExpired' \in BOOLEAN
      /\ jsExpired' <=> detached' # 0
      /\ jsExpired => jsExpired'
  <2> HIDE DEF ResumeHandler
  <2> QED
    BY <1>4, ReturnedKeepsStep DEF CardInv, CardTypeOK, ExpiryInv
<1>6. CardTypeOK'
  <2>1. UNCHANGED <<host, op, todo, verdict, instance, asked, calls>>
    OBVIOUS
  <2> HIDE DEF ResumeHandler
  <2> QED
    BY <1>1, <1>3, <1>5, <2>1 DEF CardInv, CardTypeOK
<1>7. OperationInv' /\ ExpiryInv'
  BY <1>5 DEF CardInv, OperationInv, ExpiryInv
<1> QED
  BY <1>1, <1>6, <1>7 DEF CardInv

----------------------------------------------------------------------------
(* A card: the steps: the end of an operation *)

LEMMA ResumeSnapshotInductive ==
  ASSUME CardInv, NEW k \in 1 .. MaxSuspended, ResumeSnapshot(k)
  PROVE  CardInv'
<1> USE DEF ResumeSnapshot, host
<1>1. suspended' \in Seq(Seq(Handlers))
  BY WithoutIsASeq
<1>2. QueueInv'
  BY QueueStable
<1>3. buffer' \in Seq(1 .. pushed)
  BY EmptySeq DEF CardInv, CardTypeOK
<1>4. CardTypeOK'
  BY <1>1, <1>3 DEF CardInv, CardTypeOK
<1>5. OperationInv' /\ ExpiryInv'
  BY DEF CardInv, OperationInv, ExpiryInv
<1> QED
  BY <1>2, <1>4, <1>5 DEF CardInv

LEMMA SnapshotLost ==
  ASSUME CardInv, SnapshotFails \/ Unreadable
  PROVE  CardInv'
<1>1. /\ UNCHANGED <<mounted, expired, state, instance, data, jsExpired, stray, suspended,
                     pushed, detached, delivered, asked, calls>>
      /\ buffer' \in {buffer, <<>>}
      /\ op' = "none" /\ todo' = <<>> /\ verdict' = "error"
  BY DEF SnapshotFails, Unreadable, EmptyBuffer, Fail, host,
     js
<1>2. QueueInv'
  BY <1>1, QueueStable
<1>3. buffer' \in Seq(1 .. pushed) /\ todo' \in Seq(Handlers)
  BY <1>1, EmptySeq DEF CardInv, CardTypeOK
<1>4. CardTypeOK'
  BY <1>1, <1>3 DEF CardInv, CardTypeOK
<1>5. OperationInv' /\ ExpiryInv'
  BY <1>1 DEF CardInv, OperationInv, ExpiryInv
<1> QED
  BY <1>2, <1>4, <1>5 DEF CardInv

\* The host takes the snapshot over: when the card renders, it is told so.
LEMMA ApplyInductive ==
  ASSUME CardInv, NEW rendered \in BOOLEAN, Apply(rendered)
  PROVE  CardInv'
<1> USE DEF Apply, EmptyBuffer
<1>1. /\ op # "none" /\ todo = <<>> /\ todo' = <<>> /\ buffer' = <<>>
      /\ op' = "none" /\ verdict' \in {"ok", "error"}
      /\ UNCHANGED <<instance, data, jsExpired, stray, suspended, pushed, detached, asked,
                     calls>>
  BY DEF Fail
<1>2. delivered' \in Seq(1 .. pushed) /\ QueueInv'
  <2>1. CASE rendered
    BY <2>1, QueueHandedOver
  <2>2. CASE ~rendered
    BY <2>2, QueueStable DEF CardInv, CardTypeOK
  <2> QED
    BY <2>1, <2>2
<1>3. state' = Taken /\ state' = Taken' /\ state' \in Nat
  BY <1>1 DEF Taken, CardInv, CardTypeOK
<1>4. /\ mounted' \in BOOLEAN /\ expired' \in BOOLEAN
      /\ expired' => expired \/ op = "expire"
  BY Zenon DEF CardInv, CardTypeOK
<1>5. buffer' \in Seq(1 .. pushed) /\ todo' \in Seq(Handlers)
  BY <1>1, EmptySeq
<1>6. CardTypeOK'
  <2> HIDE DEF Apply
  <2> QED
    BY <1>1, <1>2, <1>3, <1>4, <1>5 DEF CardInv, CardTypeOK
<1>7. OperationInv'
  BY <1>1, <1>3 DEF OperationInv
<1>8. ExpiryInv'
  BY <1>1, <1>4 DEF CardInv, OperationInv, ExpiryInv
<1> QED
  BY <1>2, <1>6, <1>7, <1>8 DEF CardInv

LEMMA CardInductive == CardInv /\ [CardNext]_cardVars => CardInv'
<1> SUFFICES ASSUME CardInv, [CardNext]_cardVars
             PROVE  CardInv'
  OBVIOUS
<1>1. CASE Mount \/ (\E known \in BOOLEAN : Dispatch(known)) \/ Expire
  BY <1>1, CallsInductive
<1>2. CASE \E n \in 0..2, changes, leaves, throws \in BOOLEAN :
             RunHandler(n, changes, leaves, throws)
  BY <1>2, RunHandlerInductive
<1>3. CASE \E n \in 0..1, changes, leaves \in BOOLEAN : GiveUp(n, changes, leaves)
  BY <1>3, GiveUpInductive
<1>4. CASE \E n \in 0..1, changes, leaves \in BOOLEAN : RunStray(n, changes, leaves)
  BY <1>4, RunStrayInductive
<1>5. CASE \E k \in 1..MaxSuspended, n \in 0..1, changes, leaves, throws \in BOOLEAN :
             ResumeHandler(k, n, changes, leaves, throws)
  BY <1>5, ResumeHandlerInductive
<1>6. CASE \E k \in 1..MaxSuspended : ResumeSnapshot(k)
  BY <1>6, ResumeSnapshotInductive
<1>7. CASE SnapshotFails \/ Unreadable
  BY <1>7, SnapshotLost
<1>8. CASE \E rendered \in BOOLEAN : Apply(rendered)
  BY <1>8, ApplyInductive
<1>9. CASE UNCHANGED cardVars
  <2> USE <1>9 DEF cardVars, host, js
  <2>1. QueueInv'
    BY QueueStable
  <2>2. CardTypeOK'
    BY DEF CardInv, CardTypeOK
  <2>3. OperationInv' /\ ExpiryInv'
    BY DEF CardInv, OperationInv, ExpiryInv, Taken
  <2> QED
    BY <2>1, <2>2, <2>3 DEF CardInv
<1> QED
  BY <1>1, <1>2, <1>3, <1>4, <1>5, <1>6, <1>7, <1>8, <1>9 DEF CardNext

LEMMA CardInvHolds == CardSpec => []CardInv
BY CardInvInit, CardInductive, PTL DEF CardSpec

----------------------------------------------------------------------------
(* A card: the theorems *)

\* A card's state keeps its types: nothing is buffered or delivered that was not
\* queued, and what waits in JS is always a tail of some operation's handlers.
THEOREM CardTypeCorrect == CardSpec => []CardTypeOK
<1>1. CardInv => CardTypeOK
  BY DEF CardInv
<1> QED
  BY <1>1, CardInvHolds, PTL

\* The host gets the actions of a card in the order they were queued and none
\* twice, whatever failed, was given up or went on later in JS.
THEOREM CardActionsInOrder == CardSpec => []ActionsOnceInOrder
<1>1. CardInv => ActionsOnceInOrder
  <2> SUFFICES ASSUME CardInv
               PROVE  ActionsOnceInOrder
    OBVIOUS
  <2>1. DOMAIN delivered = 1 .. Len(delivered)
    BY LenProperties DEF CardInv, CardTypeOK
  <2> QED
    BY <2>1 DEF CardInv, QueueInv, Ascending, ActionsOnceInOrder
<1> QED
  BY <1>1, CardInvHolds, PTL

\* Whatever code of the component runs, also code of an operation that was given up,
\* its actions are in the buffer when it ends, and so are those before them.
LEMMA PushLosesNothing ==
  ASSUME CardInv, NEW n \in 0 .. 2, Push(n), UNCHANGED delivered
  PROVE  Lost' = Lost
<1>1. /\ pushed \in Nat /\ n \in Nat
      /\ buffer \in Seq(1 .. pushed) /\ Len(buffer) \in Nat
      /\ delivered \in Seq(1 .. pushed) /\ Len(delivered) \in Nat
  BY LenProperties DEF CardInv, CardTypeOK
<1>2. pushed' = pushed + n /\ Len(buffer') = Len(buffer) + n
  BY <1>1, QueueAppends DEF Push
<1> QED
  BY <1>1, <1>2 DEF Lost

\* A card that renders hands over all that waited.
LEMMA ApplyLosesNothing ==
  ASSUME CardInv, Apply(TRUE)
  PROVE  Lost' = Lost
<1>1. /\ pushed \in Nat
      /\ buffer \in Seq(1 .. pushed) /\ Len(buffer) \in Nat
      /\ delivered \in Seq(1 .. pushed) /\ Len(delivered) \in Nat
  BY LenProperties DEF CardInv, CardTypeOK
<1>2. buffer' = <<>> /\ delivered' = delivered \o buffer /\ UNCHANGED pushed
  BY DEF Apply, EmptyBuffer
<1>3. Len(delivered') = Len(delivered) + Len(buffer) /\ Len(buffer') = 0
  BY <1>1, <1>2, ConcatProperties, EmptySeq
<1> QED
  BY <1>1, <1>2, <1>3 DEF Lost

\* Actions are lost only with a snapshot that does not reach the host: the operation
\* that took it fails, or had failed before.  No throw, timeout, leftover or new
\* mount loses one.
THEOREM CardLosesOnlySnapshots == CardSpec => LostOnlyWithSnapshots
<1> DEFINE Reported == op # "none" /\ todo = <<>> /\ op' = "none" /\ verdict' = "error"
           Late == \E k \in DOMAIN suspended :
                     suspended[k] = <<>> /\ suspended' = Without(k)
           Explained == Lost' # Lost => Reported \/ Late
<1>1. CardInv /\ [CardNext]_cardVars => [Explained]_cardVars
  <2> SUFFICES ASSUME CardInv, CardNext
               PROVE  Lost' = Lost \/ Reported \/ Late
    OBVIOUS
  <2>1. CASE Mount \/ (\E known \in BOOLEAN : Dispatch(known)) \/ Expire
    <3>1. UNCHANGED <<buffer, pushed, delivered>>
      BY <2>1 DEF Mount, Dispatch, Expire, js
    <3> QED
      BY <3>1 DEF Lost
  <2>2. CASE \E n \in 0..2, changes, leaves, throws \in BOOLEAN :
               RunHandler(n, changes, leaves, throws)
    <3>1. PICK n \in 0..2 : Push(n) /\ UNCHANGED delivered
      BY <2>2 DEF RunHandler, Effects
    <3> QED
      BY <3>1, PushLosesNothing
  <2>3. CASE \/ \E n \in 0..1, changes, leaves \in BOOLEAN : GiveUp(n, changes, leaves)
             \/ \E n \in 0..1, changes, leaves \in BOOLEAN : RunStray(n, changes, leaves)
             \/ \E k \in 1..MaxSuspended, n \in 0..1, changes, leaves, throws \in BOOLEAN :
                  ResumeHandler(k, n, changes, leaves, throws)
    <3>1. PICK n \in 0..1 : Push(n) /\ UNCHANGED delivered
      BY <2>3 DEF GiveUp, RunStray, ResumeHandler, Effects
    <3> QED
      BY <3>1, n \in 0 .. 2, PushLosesNothing
  <2>4. CASE \E k \in 1..MaxSuspended : ResumeSnapshot(k)
    BY <2>4 DEF ResumeSnapshot
  <2>5. CASE SnapshotFails
    BY <2>5 DEF SnapshotFails, Lost, js
  <2>6. CASE Unreadable
    BY <2>6 DEF Unreadable, Fail
  <2>7. CASE \E rendered \in BOOLEAN : Apply(rendered)
    <3>1. CASE Apply(TRUE)
      BY <3>1, ApplyLosesNothing
    <3>2. CASE Apply(FALSE)
      BY <3>2 DEF Apply, Fail
    <3> QED
      BY <2>7, <3>1, <3>2
  <2> QED
    BY <2>1, <2>2, <2>3, <2>4, <2>5, <2>6, <2>7 DEF CardNext
<1> QED
  BY <1>1, CardInvHolds, PTL DEF CardSpec, LostOnlyWithSnapshots

\* After a success the host has all there is, and a card it holds expired went
\* through its detached lifecycle.
THEOREM CardInSync == CardSpec => []OkMeansInSync
<1>1. CardInv => OkMeansInSync
  BY DEF CardInv, OperationInv, ExpiryInv, OkMeansInSync
<1> QED
  BY <1>1, CardInvHolds, PTL

\* No event begins on a detached card, and a further expire runs no handler: the
\* flag of the JS side is set whenever a detached lifecycle has ended, also that of
\* an expire that failed for the host.
THEOREM CardQuiet == CardSpec => QuietAfterDetach
<1> DEFINE Quiet == op = "none" /\ detached # 0 =>
                      op' # "event" /\ (op' = "expire" => todo' = <<>>)
<1>1. CardInv /\ [CardNext]_cardVars => [Quiet]_cardVars
  <2> SUFFICES ASSUME CardInv, CardNext, op = "none", detached # 0
               PROVE  op' # "event" /\ (op' = "expire" => todo' = <<>>)
    OBVIOUS
  <2>1. jsExpired /\ todo = <<>>
    BY DEF CardInv, OperationInv, ExpiryInv
  <2>2. Mount \/ (\E known \in BOOLEAN : Dispatch(known)) \/ Expire
    BY <2>1 DEF CardNext, RunHandler, GiveUp, RunStray,
       ResumeHandler, ResumeSnapshot, SnapshotFails, Unreadable,
       Apply
  <2> QED
    BY <2>1, <2>2 DEF Mount, Dispatch, Expire, Begin, Fail
<1> QED
  BY <1>1, CardInvHolds, PTL DEF CardSpec, QuietAfterDetach

----------------------------------------------------------------------------
(* The signed requests: the inductive invariant *)

USE ClientAssumption

\* Where a request is tells how often it was sent and what was done for it.
RequestInv(q) ==
  /\ pc[q] = "new" => sends[q] = 0
  /\ pc[q] \in {"new", "sent"} => effects[q] = 0 /\ reply[q].token = NoToken
  /\ pc[q] \in {"sent", "answered"} => sends[q] \in {1, 2}
  /\ sends[q] = 2 => bearer[q] = NoToken
  /\ effects[q] <= 1
  /\ pc[q] \in {"answered", "store"} =>
       /\ reply[q].status \in Statuses
       /\ reply[q].status = "ok" => effects[q] = 1
       /\ reply[q].status = "401" => effects[q] = 0
  /\ pc[q] = "store" /\ reply[q].status = "401" => sends[q] = 2
  /\ pc[q] # "done" => answer[q] = "none"
  /\ answer[q] = "ok" => effects[q] = 1
  /\ answer[q] \in {"401", "unauthorized", "denied"} => effects[q] = 0
  /\ answer[q] = "401" => bearer[q] = NoToken /\ sends[q] = 2

\* A token that an answer brings and that is not stored yet is nowhere else.
ReplyInv(q) ==
  reply[q].token # NoToken =>
    /\ reply[q].token <= issued
    /\ reply[q].token # cache
    /\ reply[q].token \notin rejected
    /\ \A r \in Request : reply[q].token # bearer[r]
    /\ \A r \in Request \ {q} : reply[q].token # reply[r].token

\* Every token in use was handed out.
IssuedInv ==
  /\ cache # NoToken => cache <= issued
  /\ \A q \in Request : bearer[q] # NoToken => bearer[q] <= issued
  /\ \A t \in rejected : t <= issued

IInv ==
  /\ TypeOK
  /\ IssuedInv
  /\ RejectedStaysOut
  /\ \A q \in Request : RequestInv(q) /\ ReplyInv(q)

----------------------------------------------------------------------------
(* The signed requests: the steps *)

LEMMA IInvInit == Init => IInv
BY DEF Init, IInv, TypeOK, NoReply, Reply, Statuses, IssuedInv, RejectedStaysOut,
   RequestInv, ReplyInv

LEMMA TypeInductive == IInv /\ [Next]_vars => TypeOK'
<1> SUFFICES ASSUME IInv, [Next]_vars
             PROVE  TypeOK'
  OBVIOUS
<1> USE DEF IInv, TypeOK, server
<1>1. NoReply \in Reply
  BY DEF NoReply, Reply
<1>2. ASSUME NEW q \in Request, NEW code \in {"denied", "failed"}, Refuse(q, code)
      PROVE  TypeOK'
  BY <1>2 DEF Refuse, End, Goto
<1>3. ASSUME NEW q \in Request, SendFirst(q)
      PROVE  TypeOK'
  <2>1. cache' \in Token \cup {NoToken}
    BY <1>3 DEF SendFirst
  <2>2. sends[q] = 0
    BY <1>3 DEF SendFirst, RequestInv
  <2> QED
    BY <1>3, <2>1, <2>2 DEF SendFirst, Goto
<1>4. ASSUME NEW q \in Request, TransportFails(q) \/ Receive(q)
      PROVE  TypeOK'
  BY <1>4 DEF TransportFails, Receive, End, Goto
<1>5. ASSUME NEW q \in Request, NEW outcome \in {"signed", "failed", "unauthorized"},
             ReceiveRefusal(q, outcome)
      PROVE  TypeOK'
  <2>1. cache' \in Token \cup {NoToken} /\ rejected' \subseteq Token
    BY <1>5 DEF ReceiveRefusal, CacheAfterRefusal
  <2>2. CASE outcome = "signed"
    BY <1>1, <1>5, <2>1, <2>2 DEF ReceiveRefusal, SendAgain, Goto
  <2>3. CASE outcome # "signed"
    BY <1>5, <2>1, <2>3 DEF ReceiveRefusal, End, Goto
  <2> QED
    BY <2>2, <2>3
<1>6. ASSUME NEW q \in Request, Store(q)
      PROVE  TypeOK'
  <2>1. reply[q].status \in Statuses /\ reply[q].token \in Token \cup {NoToken}
    BY <1>6 DEF Store, RequestInv, Reply
  <2> QED
    BY <1>1, <1>6, <2>1 DEF Store, End, Goto
<1>7. ASSUME NEW q \in Request, NEW status \in Statuses, NEW retry \in BOOLEAN,
             NEW hands \in BOOLEAN, Serve(q, status, retry, hands)
      PROVE  TypeOK'
  <2>1. issued' \in 0 .. MaxToken /\ (hands => issued' \in Token)
    BY <1>7 DEF Serve, Token
  <2>2. reply' \in [Request -> Reply]
    BY <1>7, <2>1 DEF Serve, Reply
  <2>3. effects' \in [Request -> Nat]
    BY <1>7 DEF Serve
  <2> QED
    BY <1>7, <2>1, <2>2, <2>3 DEF Serve, Goto
<1>8. ASSUME NEW t \in Token, Revoke(t) \/ TokenExpires(t)
      PROVE  TypeOK'
  BY <1>8 DEF Revoke, TokenExpires
<1>9. CASE UNCHANGED vars
  BY <1>9 DEF vars
<1> QED
  BY <1>2, <1>3, <1>4, <1>5, <1>6, <1>7, <1>8, <1>9 DEF Next, RequestStep

LEMMA RequestInductive == IInv /\ [Next]_vars => \A d \in Request : RequestInv(d)'
<1> SUFFICES ASSUME IInv, [Next]_vars, NEW d \in Request
             PROVE  RequestInv(d)'
  OBVIOUS
<1> USE DEF IInv, TypeOK, server, RequestInv
<1>1. ASSUME NEW q \in Request, NEW code \in {"denied", "failed"}, Refuse(q, code)
      PROVE  RequestInv(d)'
  BY <1>1 DEF Refuse, End, Goto
<1>2. ASSUME NEW q \in Request, SendFirst(q)
      PROVE  RequestInv(d)'
  BY <1>2 DEF SendFirst, Goto
<1>3. ASSUME NEW q \in Request, TransportFails(q)
      PROVE  RequestInv(d)'
  BY <1>3 DEF TransportFails, End, Goto
<1>4. ASSUME NEW q \in Request, Receive(q)
      PROVE  RequestInv(d)'
  BY <1>4 DEF Receive, Goto
<1>5. ASSUME NEW q \in Request, NEW outcome \in {"signed", "failed", "unauthorized"},
             ReceiveRefusal(q, outcome)
      PROVE  RequestInv(d)'
  <2>1. CASE outcome = "signed"
    BY <1>5, <2>1 DEF ReceiveRefusal, SendAgain, Goto, NoReply
  <2>2. CASE outcome # "signed"
    BY <1>5, <2>2 DEF ReceiveRefusal, End, Goto
  <2> QED
    BY <2>1, <2>2
<1>6. ASSUME NEW q \in Request, Store(q)
      PROVE  RequestInv(d)'
  BY <1>6 DEF Store, End, Goto, NoReply, Statuses
<1>7. ASSUME NEW q \in Request, NEW status \in Statuses, NEW retry \in BOOLEAN,
             NEW hands \in BOOLEAN, Serve(q, status, retry, hands)
      PROVE  RequestInv(d)'
  BY <1>7 DEF Serve, Goto, Statuses
<1>8. ASSUME NEW t \in Token, Revoke(t) \/ TokenExpires(t)
      PROVE  RequestInv(d)'
  BY <1>8 DEF Revoke, TokenExpires
<1>9. CASE UNCHANGED vars
  BY <1>9 DEF vars
<1> QED
  BY <1>1, <1>2, <1>3, <1>4, <1>5, <1>6, <1>7, <1>8, <1>9 DEF Next, RequestStep

\* The cache is emptied, or takes a token that was on its way; a request carries
\* what the cache holds.
LEMMA TokensInductive ==
  IInv /\ [Next]_vars =>
    /\ IssuedInv' /\ RejectedStaysOut'
    /\ \A d \in Request : ReplyInv(d)'
<1> SUFFICES ASSUME IInv, [Next]_vars
             PROVE  /\ IssuedInv' /\ RejectedStaysOut'
                    /\ \A d \in Request : ReplyInv(d)'
  OBVIOUS
<1> DEFINE Goal == /\ IssuedInv' /\ RejectedStaysOut'
                   /\ \A d \in Request : ReplyInv(d)'
<1> USE DEF IInv, TypeOK, server, IssuedInv, RejectedStaysOut, ReplyInv
<1>1. ASSUME NEW q \in Request, NEW code \in {"denied", "failed"}, Refuse(q, code)
      PROVE  Goal
  BY <1>1 DEF Refuse, Token
<1>2. ASSUME NEW q \in Request, SendFirst(q)
      PROVE  Goal
  BY <1>2 DEF SendFirst, Token
<1>3. ASSUME NEW q \in Request, TransportFails(q) \/ Receive(q)
      PROVE  Goal
  BY <1>3 DEF TransportFails, Receive
<1>4. ASSUME NEW q \in Request, NEW outcome \in {"signed", "failed", "unauthorized"},
             ReceiveRefusal(q, outcome)
      PROVE  Goal
  <2>1. /\ cache' = CacheAfterRefusal(q) /\ issued' = issued
        /\ rejected' = rejected \cup ({bearer[q]} \ {NoToken})
    BY <1>4 DEF ReceiveRefusal
  <2>2. \A r \in Request : /\ bearer'[r] \in {bearer[r], NoToken}
                            /\ reply'[r].token \in {reply[r].token, NoToken}
    <3>1. CASE outcome = "signed"
      BY <1>4, <3>1 DEF ReceiveRefusal, SendAgain, NoReply
    <3>2. CASE outcome # "signed"
      BY <1>4, <3>2 DEF ReceiveRefusal
    <3> QED
      BY <3>1, <3>2
  <2>3. RejectedStaysOut' /\ IssuedInv'
    BY <2>1, <2>2 DEF CacheAfterRefusal, Token
  <2>4. \A d \in Request : ReplyInv(d)'
    BY <2>1, <2>2 DEF CacheAfterRefusal, Token
  <2> QED
    BY <2>3, <2>4
<1>5. ASSUME NEW q \in Request, Store(q)
      PROVE  Goal
  <2>1. /\ cache' = IF reply[q].token = NoToken THEN cache ELSE reply[q].token
        /\ UNCHANGED <<issued, rejected, bearer>>
        /\ reply'[q].token = NoToken
        /\ \A r \in Request \ {q} : reply'[r] = reply[r]
    BY <1>5 DEF Store, NoReply
  <2>2. RejectedStaysOut'
    BY <2>1
  <2>3. IssuedInv'
    BY <2>1
  <2>4. \A d \in Request : ReplyInv(d)'
    BY <2>1
  <2> QED
    BY <2>2, <2>3, <2>4
<1>6. ASSUME NEW q \in Request, NEW status \in Statuses, NEW retry \in BOOLEAN,
             NEW hands \in BOOLEAN, Serve(q, status, retry, hands)
      PROVE  Goal
  <2>1. /\ issued' = IF hands THEN issued + 1 ELSE issued
        /\ hands => issued + 1 \in Token
        /\ UNCHANGED <<cache, rejected, bearer>>
        /\ reply'[q].token = IF hands THEN issued + 1 ELSE NoToken
        /\ \A r \in Request \ {q} : reply'[r] = reply[r]
    BY <1>6 DEF Serve, Token
  <2>2. \A t \in Token : t <= issued => t <= issued' /\ t # issued + 1
    BY <2>1 DEF Token
  <2>3. IssuedInv' /\ RejectedStaysOut'
    BY <2>1, <2>2
  <2>4. \A d \in Request : reply[d].token \in Token \cup {NoToken}
    BY DEF Reply
  <2>5. \A d \in Request : ReplyInv(d)'
    BY <2>1, <2>2, <2>4
  <2> QED
    BY <2>3, <2>5
<1>7. ASSUME NEW t \in Token, Revoke(t) \/ TokenExpires(t)
      PROVE  Goal
  BY <1>7 DEF Revoke, TokenExpires
<1>8. CASE UNCHANGED vars
  BY <1>8 DEF vars
<1> QED
  BY <1>1, <1>2, <1>3, <1>4, <1>5, <1>6, <1>7, <1>8 DEF Next, RequestStep

LEMMA IInvHolds == Spec => []IInv
<1>1. IInv /\ [Next]_vars => IInv'
  BY TypeInductive, RequestInductive, TokensInductive DEF IInv
<1> QED
  BY <1>1, IInvInit, PTL DEF Spec

----------------------------------------------------------------------------
(* The signed requests: the theorems *)

\* The state keeps its types: no request is sent more than twice, and the cache
\* and the requests hold only tokens that can have been handed out.
THEOREM TypeCorrect == Spec => []TypeOK
<1>1. IInv => TypeOK
  BY DEF IInv
<1> QED
  BY <1>1, IInvHolds, PTL

\* The one retry of request never repeats what was done, and the caller sees a
\* 401 only of a signed request.
THEOREM AnswersAreTrue == Spec => []AnswersTellEffect
<1>1. IInv => AnswersTellEffect
  BY DEF IInv, RequestInv, AnswersTellEffect
<1> QED
  BY <1>1, IInvHolds, PTL

\* A token whose 401 was dealt with never comes back into the shared cache,
\* although answers are stored without looking at it.
THEOREM RejectedNeverReturns == Spec => []RejectedStaysOut
<1>1. IInv => RejectedStaysOut
  BY DEF IInv
<1> QED
  BY <1>1, IInvHolds, PTL

----------------------------------------------------------------------------
(* Templates: sequences *)

IsSeq(s) == \E S : s \in Seq(S)

LEMMA SeqShape ==
  ASSUME NEW s, IsSeq(s)
  PROVE  /\ Len(s) \in Nat /\ DOMAIN s = 1 .. Len(s)
         /\ s = <<>> <=> Len(s) = 0
BY LenProperties, EmptySeq DEF IsSeq

LEMMA AppendShape ==
  ASSUME NEW s, IsSeq(s), NEW x
  PROVE  /\ IsSeq(Append(s, x)) /\ Append(s, x) # <<>>
         /\ Len(Append(s, x)) = Len(s) + 1
         /\ Append(s, x)[Len(s) + 1] = x /\ \A i \in 1 .. Len(s) : Append(s, x)[i] = s[i]
<1>1. PICK S : s \in Seq(S)
  BY DEF IsSeq
<1> DEFINE T == S \cup {x}
<1>2. s \in Seq(T) /\ x \in T
  <2>1. Len(s) \in Nat /\ s \in [1 .. Len(s) -> S] /\ S \subseteq T
    BY <1>1, LenProperties
  <2>2. s \in [1 .. Len(s) -> T]
    BY <2>1
  <2> QED BY <2>1, <2>2
<1> HIDE DEF T
<1>3. Append(s, x) \in Seq(T) /\ Append(s, x) # <<>>
  BY <1>2, AppendProperties
<1> QED BY <1>2, <1>3, AppendProperties DEF IsSeq

LEMMA FrontShape ==
  ASSUME NEW s, IsSeq(s), s # <<>>
  PROVE  /\ IsSeq(Front(s)) /\ Len(Front(s)) = Len(s) - 1 /\ Len(s) \in Nat \ {0}
         /\ \A i \in 1 .. Len(s) - 1 : Front(s)[i] = s[i]
         /\ Last(s) = s[Len(s)]
<1>1. PICK S : s \in Seq(S)
  BY DEF IsSeq
<1>2. Len(s) \in Nat \ {0} /\ \A i \in 1 .. Len(s) : s[i] \in S
  BY <1>1, LenProperties, EmptySeq, ElementOfSeq
<1>3. Front(s) \in Seq(S) /\ Len(Front(s)) = Len(s) - 1 /\ \A i \in 1 .. Len(s) - 1 : Front(s)[i] = s[i]
  <2>1. Front(s) = SubSeq(s, 1, Len(s) - 1)
    BY DEF Front
  <2>2. Len(s) - 1 \in Int /\ (Len(s) - 1) - 1 + 1 = Len(s) - 1 /\ \A i \in 1 .. Len(s) - 1 : s[i] \in S
    BY <1>2
  <2> QED BY <1>1, <1>2, <2>1, <2>2, SubSeqProperties
<1> QED BY <1>2, <1>3 DEF IsSeq, Last

----------------------------------------------------------------------------
(* How deep a template is *)

\* What a tag adds to the depth.
Rise(token) == IF token.is = "opening" THEN 1 ELSE IF token.is = "closing" THEN -1 ELSE 0

\* How many of the first n tokens are of a kind.
CountOf(tokens, is, n) == Cardinality({j \in 1 .. n : tokens[j].is = is})

LEMMA CountStep ==
  ASSUME NEW tokens, NEW is, NEW n \in Nat
  PROVE  /\ CountOf(tokens, is, n) \in Nat
         /\ CountOf(tokens, is, n + 1) =
              IF tokens[n + 1].is = is THEN CountOf(tokens, is, n) + 1 ELSE CountOf(tokens, is, n)
<1> DEFINE S(i) == {j \in 1 .. i : tokens[j].is = is}
<1>1. IsFiniteSet(S(n))
  <2>1. IsFiniteSet(1 .. n) /\ S(n) \subseteq 1 .. n
    BY FS_Interval
  <2> QED BY <2>1, FS_Subset
<1>2. Cardinality(S(n)) \in Nat
  BY <1>1, FS_CardinalityType
<1>3. n + 1 \notin S(n)
  OBVIOUS
<1>4. CASE tokens[n + 1].is = is
  <2>1. S(n + 1) = S(n) \cup {n + 1}
    BY <1>4
  <2>2. Cardinality(S(n) \cup {n + 1}) = Cardinality(S(n)) + 1
    BY <1>1, <1>3, FS_AddElement
  <2> QED BY <1>2, <1>4, <2>1, <2>2 DEF CountOf
<1>5. CASE tokens[n + 1].is # is
  <2>1. S(n + 1) = S(n)
    BY <1>5
  <2> QED BY <1>2, <1>5, <2>1 DEF CountOf
<1> QED BY <1>4, <1>5

LEMMA DepthStep ==
  ASSUME NEW tokens, NEW n \in Nat
  PROVE  /\ Depth(tokens, n) \in Int
         /\ Depth(tokens, n + 1) = Depth(tokens, n) + Rise(tokens[n + 1])
<1>1. \A i : Depth(tokens, i) = CountOf(tokens, "opening", i) - CountOf(tokens, "closing", i)
  BY DEF Depth, CountOf
<1>2. /\ CountOf(tokens, "opening", n) \in Nat
      /\ CountOf(tokens, "opening", n + 1) =
           CountOf(tokens, "opening", n) + (IF tokens[n + 1].is = "opening" THEN 1 ELSE 0)
  BY CountStep
<1>3. /\ CountOf(tokens, "closing", n) \in Nat
      /\ CountOf(tokens, "closing", n + 1) =
           CountOf(tokens, "closing", n) + (IF tokens[n + 1].is = "closing" THEN 1 ELSE 0)
  BY CountStep
<1> QED BY <1>1, <1>2, <1>3 DEF Rise

LEMMA DepthStart == \A tokens : Depth(tokens, 0) = 0
<1> SUFFICES ASSUME NEW tokens PROVE Depth(tokens, 0) = 0
  OBVIOUS
<1>1. \A is : {j \in 1 .. 0 : tokens[j].is = is} = {}
  OBVIOUS
<1>2. Cardinality({}) = 0
  BY FS_EmptySet
<1> QED BY <1>1, <1>2 DEF Depth

\* Of two tags that are open in as many others, one is the other.
LEMMA OpenUnique ==
  ASSUME NEW tokens, NEW n \in Nat, NEW d \in Int, NEW i \in 1 .. n, NEW j \in 1 .. n,
         IsOpen(tokens, i, n, d), IsOpen(tokens, j, n, d)
  PROVE  i = j
<1>1. ASSUME NEW a \in 1 .. n, NEW b \in 1 .. n, a < b, IsOpen(tokens, a, n, d), IsOpen(tokens, b, n, d)
      PROVE  FALSE
  <2>1. b - 1 \in a .. n /\ b - 1 \in Nat
    BY <1>1
  <2>2. Depth(tokens, b - 1) > d /\ Depth(tokens, b - 1) = d
    BY <1>1, <2>1 DEF IsOpen
  <2> QED BY <2>2
<1>2. i < j \/ j < i \/ i = j
  OBVIOUS
<1> QED BY <1>1, <1>2

----------------------------------------------------------------------------
(* What the parser has read *)

\* What is open after each of the first n tokens.
IsRun(tokens, n, w) ==
  w = [i \in 0 .. n |-> IF i = 0 THEN Document ELSE Read(w[i - 1], tokens[i])]

\* Induction over the numbers, for a set of them.
LEMMA NatSetInduction ==
  ASSUME NEW S, 0 \in S, \A n \in Nat : n \in S => n + 1 \in S
  PROVE  Nat \subseteq S
<1> DEFINE T == {n \in Nat : n \notin S}
           R == OpToRel(<, Nat)
<1> SUFFICES ASSUME T # {} PROVE FALSE
  OBVIOUS
<1>1. IsWellFoundedOn(R, Nat)
  BY NatLessThanWellFounded
<1>2. \A x, y \in Nat : x < y => <<x, y>> \in R
  BY DEF OpToRel
<1> HIDE DEF R
<1>3. PICK x \in T : \A y \in T : ~ (<<y, x>> \in R)
  BY <1>1, WFMin
<1>4. x # 0 /\ x \in Nat
  OBVIOUS
<1>5. x - 1 \in Nat /\ x - 1 < x /\ (x - 1) + 1 = x
  BY <1>4
<1>6. x - 1 \in T
  BY <1>5, <1>3
<1> QED BY <1>3, <1>2, <1>5, <1>6

LEMMA RunStep ==
  ASSUME NEW tokens, NEW n \in Nat, NEW w, IsRun(tokens, n, w)
  PROVE  \E v : IsRun(tokens, n + 1, v)
<1> DEFINE v == [i \in 0 .. n + 1 |-> IF i = n + 1 THEN Read(w[n], tokens[n + 1]) ELSE w[i]]
<1>1. \A i \in 0 .. n : w[i] = IF i = 0 THEN Document ELSE Read(w[i - 1], tokens[i])
  BY DEF IsRun
<1>2. ASSUME NEW i \in 0 .. n + 1
      PROVE  v[i] = IF i = 0 THEN Document ELSE Read(v[i - 1], tokens[i])
  <2>1. CASE i = n + 1
    <3>1. v[n + 1] = Read(w[n], tokens[n + 1]) /\ v[n] = w[n] /\ i - 1 = n
      BY <2>1
    <3> QED BY <2>1, <3>1
  <2>2. CASE i # n + 1
    <3>1. i \in 0 .. n /\ v[i] = w[i] /\ (i # 0 => i - 1 \in 0 .. n /\ v[i - 1] = w[i - 1])
      BY <2>2
    <3> QED BY <1>1, <3>1
  <2> QED BY <2>1, <2>2
<1>3. v = [i \in 0 .. n + 1 |-> v[i]]
  OBVIOUS
<1> HIDE DEF v
<1> QED BY <1>2, <1>3 DEF IsRun

LEMMA RunExists ==
  ASSUME NEW tokens, NEW n \in Nat
  PROVE  \E w : IsRun(tokens, n, w)
<1> DEFINE Good == {m \in Nat : \E w : IsRun(tokens, m, w)}
<1>1. 0 \in Good
  <2>1. IsRun(tokens, 0, [i \in 0 .. 0 |-> Document])
    BY DEF IsRun
  <2> QED BY <2>1
<1>2. \A m \in Nat : m \in Good => m + 1 \in Good
  BY RunStep
<1> HIDE DEF Good
<1>3. Nat \subseteq Good
  BY <1>1, <1>2, NatSetInduction
<1> QED BY <1>3 DEF Good

\* The parser reads one token after the other.
LEMMA OpenAfterSteps ==
  ASSUME NEW tokens, Len(tokens) \in Nat
  PROVE  /\ OpenAfter(tokens)[0] = Document
         /\ \A n \in 0 .. Len(tokens) - 1 :
              OpenAfter(tokens)[n + 1] = Read(OpenAfter(tokens)[n], tokens[n + 1])
<1> DEFINE w == CHOOSE w : IsRun(tokens, Len(tokens), w)
<1>1. IsRun(tokens, Len(tokens), w)
  BY RunExists
<1>2. OpenAfter(tokens) = w
  BY DEF OpenAfter, IsRun
<1> HIDE DEF w
<1>3. \A i \in 0 .. Len(tokens) : w[i] = IF i = 0 THEN Document ELSE Read(w[i - 1], tokens[i])
  BY <1>1 DEF IsRun
<1>4. ASSUME NEW n \in 0 .. Len(tokens) - 1
      PROVE  w[n + 1] = Read(w[n], tokens[n + 1])
  <2>1. n + 1 \in 0 .. Len(tokens) /\ n + 1 # 0 /\ (n + 1) - 1 = n
    OBVIOUS
  <2> QED BY <1>3, <2>1
<1>5. w[0] = Document
  BY <1>3
<1> QED BY <1>2, <1>4, <1>5

----------------------------------------------------------------------------
(* What is open, and what has been read *)

\* What a template is made of.
IsToken(token) ==
  \/ \E tag, attrs : token \in {Opening(tag, attrs), SelfClosing(tag, attrs)}
  \/ \E tag : token = Closing(tag)
  \/ \E source : token = Written(source)
  \/ token = Malformed

Blank == Written(Literal(""))

\* There is more than blank text, and tags are closed as they were opened, in the
\* first n tokens.
HasContent(tokens, n) == \E i \in 1 .. n : tokens[i].is # "closing" /\ tokens[i] # Blank

ClosesRightly(tokens, i) ==
  tokens[i].is = "closing" =>
    \E j \in 1 .. i - 1 : IsOpen(tokens, j, i - 1, Depth(tokens, i)) /\ tokens[j].tag = tokens[i].tag

NestsSoFar(tokens, n) ==
  \A i \in 1 .. n : /\ tokens[i].is # "malformed" /\ Depth(tokens, i) >= 0
                    /\ ClosesRightly(tokens, i)

IsContent(children) == \E i \in DOMAIN children : IsMeaningful(children[i])

\* The elements that are open are those of the tags that are.
IsReading(tokens, n, open) ==
  /\ IsSeq(open)
  /\ Len(open) = Depth(tokens, n) + 1 /\ Len(open) > 0
  /\ \A l \in 1 .. Len(open) : open[l].is = "element" /\ IsSeq(open[l].children)
  /\ \A l \in 2 .. Len(open) :
       \E j \in 1 .. n : IsOpen(tokens, j, n, l - 2) /\ tokens[j].tag = open[l].tag
  /\ HasContent(tokens, n) <=> Len(open) > 1 \/ IsContent(open[1].children)

LEMMA TokenKinds ==
  ASSUME NEW token, IsToken(token)
  PROVE  /\ token.is \in {"opening", "self-closing", "closing", "written", "malformed"}
         /\ token.is = "written" => token = Written(token.source)
         /\ token.is # "written" => token # Blank
<1>1. Blank.is = "written"
  BY DEF Blank, Written
<1>2. CASE \E tag, attrs : token \in {Opening(tag, attrs), SelfClosing(tag, attrs)}
  <2>1. token.is \in {"opening", "self-closing"}
    BY <1>2 DEF Opening, SelfClosing
  <2> QED BY <1>1, <2>1
<1>3. CASE \E tag : token = Closing(tag)
  <2>1. token.is = "closing"
    BY <1>3 DEF Closing
  <2> QED BY <1>1, <2>1
<1>4. CASE \E source : token = Written(source)
  BY <1>4 DEF Written
<1>5. CASE token = Malformed
  <2>1. token.is = "malformed"
    BY <1>5 DEF Malformed
  <2> QED BY <1>1, <2>1
<1> QED BY <1>2, <1>3, <1>4, <1>5 DEF IsToken

\* One more child.
LEMMA ChildAdded ==
  ASSUME NEW open, IsSeq(open), open # <<>>, NEW node
  PROVE  LET more == AddChild(open, node) IN
         /\ IsSeq(more) /\ Len(more) = Len(open) /\ Len(open) \in Nat \ {0}
         /\ \A l \in 1 .. Len(open) - 1 : more[l] = open[l]
         /\ more[Len(open)] = WithChild(open[Len(open)], node)
<1>1. /\ IsSeq(Front(open)) /\ Len(Front(open)) = Len(open) - 1 /\ Len(open) \in Nat \ {0}
      /\ \A l \in 1 .. Len(open) - 1 : Front(open)[l] = open[l]
      /\ Last(open) = open[Len(open)]
  BY FrontShape
<1>2. (Len(open) - 1) + 1 = Len(open)
  BY <1>1
<1> QED BY <1>1, <1>2, AppendShape DEF AddChild

LEMMA ChildInside ==
  ASSUME NEW element, IsSeq(element.children), NEW node
  PROVE  LET more == WithChild(element, node) IN
         /\ more.is = "element" /\ more.tag = element.tag /\ IsSeq(more.children)
         /\ IsContent(more.children) <=> IsContent(element.children) \/ IsMeaningful(node)
<1> DEFINE s == element.children
           t == Append(s, node)
<1>1. /\ WithChild(element, node).is = "element"
      /\ WithChild(element, node).tag = element.tag
      /\ WithChild(element, node).children = t
  BY DEF WithChild, Element
<1>2. /\ Len(s) \in Nat /\ DOMAIN s = 1 .. Len(s) /\ IsSeq(t)
      /\ Len(t) = Len(s) + 1 /\ t[Len(s) + 1] = node /\ \A i \in 1 .. Len(s) : t[i] = s[i]
  BY SeqShape, AppendShape
<1>3. DOMAIN t = 1 .. Len(s) + 1
  BY <1>2, SeqShape
<1> HIDE DEF s, t
<1>4. IsContent(t) <=> IsContent(s) \/ IsMeaningful(node)
  <2>1. ASSUME IsContent(t) PROVE IsContent(s) \/ IsMeaningful(node)
    <3>1. PICK i \in 1 .. Len(s) + 1 : IsMeaningful(t[i])
      BY <1>3, <2>1 DEF IsContent
    <3>2. i = Len(s) + 1 \/ i \in 1 .. Len(s)
      BY <1>2
    <3> QED BY <1>2, <3>1, <3>2 DEF IsContent
  <2>2. ASSUME IsContent(s) PROVE IsContent(t)
    <3>1. PICK i \in 1 .. Len(s) : IsMeaningful(s[i])
      BY <1>2, <2>2 DEF IsContent
    <3>2. i \in 1 .. Len(s) + 1 /\ t[i] = s[i]
      BY <1>2
    <3> QED BY <1>3, <3>1, <3>2 DEF IsContent
  <2>3. ASSUME IsMeaningful(node) PROVE IsContent(t)
    <3>1. Len(s) + 1 \in 1 .. Len(s) + 1
      BY <1>2
    <3> QED BY <1>2, <1>3, <2>3, <3>1 DEF IsContent
  <2> QED BY <2>1, <2>2, <2>3
<1> QED BY <1>1, <1>2, <1>4 DEF s

\* One more token.
LEMMA ContentStep ==
  ASSUME NEW tokens, NEW n \in Nat
  PROVE  HasContent(tokens, n + 1) <=>
           HasContent(tokens, n) \/ (tokens[n + 1].is # "closing" /\ tokens[n + 1] # Blank)
<1>1. \A i \in 1 .. n + 1 : i \in 1 .. n \/ i = n + 1
  OBVIOUS
<1>2. 1 .. n \subseteq 1 .. n + 1 /\ n + 1 \in 1 .. n + 1
  OBVIOUS
<1> QED BY <1>1, <1>2 DEF HasContent

LEMMA NestsStep ==
  ASSUME NEW tokens, NEW n \in Nat
  PROVE  NestsSoFar(tokens, n + 1) <=>
           /\ NestsSoFar(tokens, n)
           /\ tokens[n + 1].is # "malformed" /\ Depth(tokens, n + 1) >= 0
           /\ ClosesRightly(tokens, n + 1)
<1>1. \A i \in 1 .. n + 1 : i \in 1 .. n \/ i = n + 1
  OBVIOUS
<1>2. 1 .. n \subseteq 1 .. n + 1 /\ n + 1 \in 1 .. n + 1
  OBVIOUS
<1> QED BY <1>1, <1>2 DEF NestsSoFar

\* A tag stays open as long as the template is deeper.
LEMMA StaysOpen ==
  ASSUME NEW tokens, NEW n \in Nat, NEW j \in 1 .. n, NEW d,
         IsOpen(tokens, j, n, d), Depth(tokens, n + 1) > d
  PROVE  IsOpen(tokens, j, n + 1, d)
<1>1. \A k \in j .. n + 1 : k \in j .. n \/ k = n + 1
  OBVIOUS
<1> QED BY <1>1 DEF IsOpen

\* A text, or an element that is read at once.
LEMMA ChildStep ==
  ASSUME NEW tokens, NEW n \in Nat, NEW open, IsReading(tokens, n, open), NEW node,
         Rise(tokens[n + 1]) = 0, tokens[n + 1].is # "closing",
         IsMeaningful(node) <=> tokens[n + 1] # Blank
  PROVE  IsReading(tokens, n + 1, AddChild(open, node))
<1> DEFINE more == AddChild(open, node)
           m == Len(open)
<1>1. /\ IsSeq(open) /\ m = Depth(tokens, n) + 1 /\ m > 0
      /\ \A l \in 1 .. m : open[l].is = "element" /\ IsSeq(open[l].children)
  BY DEF IsReading
<1>2. /\ IsSeq(more) /\ Len(more) = m /\ m \in Nat \ {0}
      /\ \A l \in 1 .. m - 1 : more[l] = open[l]
      /\ more[m] = WithChild(open[m], node)
  BY <1>1, SeqShape, ChildAdded
<1>3. Depth(tokens, n + 1) = m - 1 /\ Depth(tokens, n) = m - 1
  <2>1. Depth(tokens, n) \in Int /\ Depth(tokens, n + 1) = Depth(tokens, n) + 0
    BY DepthStep
  <2> QED BY <1>1, <1>2, <2>1
<1>4. /\ more[m].is = "element" /\ more[m].tag = open[m].tag /\ IsSeq(more[m].children)
      /\ IsContent(more[m].children) <=> IsContent(open[m].children) \/ IsMeaningful(node)
  BY <1>1, <1>2, ChildInside
<1>5. \A l \in 1 .. m : l \in 1 .. m - 1 \/ l = m
  BY <1>2
<1> HIDE DEF more, m
<1>6. \A l \in 1 .. m : more[l].is = "element" /\ more[l].tag = open[l].tag /\ IsSeq(more[l].children)
  BY <1>1, <1>2, <1>4, <1>5
<1>7. ASSUME NEW l \in 2 .. m
      PROVE  \E j \in 1 .. n + 1 : IsOpen(tokens, j, n + 1, l - 2) /\ tokens[j].tag = more[l].tag
  <2>1. PICK j \in 1 .. n : IsOpen(tokens, j, n, l - 2) /\ tokens[j].tag = open[l].tag
    BY DEF IsReading, m
  <2>2. Depth(tokens, n + 1) > l - 2 /\ l \in 1 .. m /\ j \in 1 .. n + 1
    BY <1>2, <1>3
  <2> QED BY <1>6, <2>1, <2>2, StaysOpen
<1>8. HasContent(tokens, n + 1) <=> m > 1 \/ IsContent(more[1].children)
  <2>1. HasContent(tokens, n) <=> m > 1 \/ IsContent(open[1].children)
    BY DEF IsReading, m
  <2>2. HasContent(tokens, n + 1) <=> HasContent(tokens, n) \/ IsMeaningful(node)
    BY ContentStep
  <2>3. CASE m > 1
    BY <2>1, <2>2, <2>3
  <2>4. CASE m = 1
    BY <1>4, <2>1, <2>2, <2>4
  <2> QED BY <1>2, <2>3, <2>4
<1> QED BY <1>2, <1>3, <1>6, <1>7, <1>8 DEF IsReading, more

\* An opening tag.
LEMMA OpeningStep ==
  ASSUME NEW tokens, NEW n \in Nat, NEW open, IsReading(tokens, n, open),
         tokens[n + 1].is = "opening", IsToken(tokens[n + 1])
  PROVE  IsReading(tokens, n + 1,
                   Append(open, Element(tokens[n + 1].tag, tokens[n + 1].attrs, <<>>)))
<1> DEFINE new == Element(tokens[n + 1].tag, tokens[n + 1].attrs, <<>>)
           more == Append(open, new)
           m == Len(open)
<1>1. /\ IsSeq(open) /\ m = Depth(tokens, n) + 1 /\ m > 0 /\ m \in Nat
      /\ \A l \in 1 .. m : open[l].is = "element" /\ IsSeq(open[l].children)
  BY SeqShape DEF IsReading
<1>2. /\ IsSeq(more) /\ Len(more) = m + 1
      /\ \A l \in 1 .. m : more[l] = open[l]
      /\ more[m + 1] = new
  BY <1>1, AppendShape
<1>3. new.is = "element" /\ new.tag = tokens[n + 1].tag /\ IsSeq(new.children)
  <2>1. <<>> \in Seq({})
    OBVIOUS
  <2> QED BY <2>1 DEF IsSeq, Element
<1>4. Depth(tokens, n + 1) = m /\ Depth(tokens, n) = m - 1
  <2>1. Rise(tokens[n + 1]) = 1
    BY DEF Rise
  <2>2. Depth(tokens, n) \in Int /\ Depth(tokens, n + 1) = Depth(tokens, n) + 1
    BY <2>1, DepthStep
  <2> QED BY <1>1, <2>2
<1>5. \A l \in 1 .. m + 1 : l \in 1 .. m \/ l = m + 1
  BY <1>1
<1> HIDE DEF more, m, new
<1>6. \A l \in 1 .. m + 1 : more[l].is = "element" /\ IsSeq(more[l].children)
  BY <1>1, <1>2, <1>3, <1>5
<1>7. ASSUME NEW l \in 2 .. m + 1
      PROVE  \E j \in 1 .. n + 1 : IsOpen(tokens, j, n + 1, l - 2) /\ tokens[j].tag = more[l].tag
  <2>1. CASE l \in 1 .. m
    <3>1. PICK j \in 1 .. n : IsOpen(tokens, j, n, l - 2) /\ tokens[j].tag = open[l].tag
      BY <2>1 DEF IsReading, m
    <3>2. Depth(tokens, n + 1) > l - 2 /\ j \in 1 .. n + 1
      BY <1>1, <1>4, <2>1
    <3> QED BY <1>2, <2>1, <3>1, <3>2, StaysOpen
  <2>2. CASE l = m + 1
    <3>1. \A k \in n + 1 .. n + 1 : k = n + 1
      OBVIOUS
    <3>2. IsOpen(tokens, n + 1, n + 1, l - 2)
      <4>1. (n + 1) - 1 = n /\ l - 2 = m - 1 /\ m > m - 1
        BY <1>1, <2>2
      <4> QED BY <1>4, <3>1, <4>1 DEF IsOpen
    <3> QED BY <1>2, <1>3, <2>2, <3>2
  <2> QED BY <1>5, <2>1, <2>2, <1>1
<1>8. HasContent(tokens, n + 1)
  <2>1. tokens[n + 1] # Blank
    BY TokenKinds
  <2> QED BY <2>1, ContentStep
<1>9. IsReading(tokens, n + 1, more)
  <2>1. Len(more) = Depth(tokens, n + 1) + 1 /\ Len(more) > 1
    BY <1>1, <1>2, <1>4
  <2> QED BY <1>2, <1>6, <1>7, <1>8, <2>1 DEF IsReading
<1> QED BY <1>9 DEF more, new

\* A closing tag that closes the innermost element.
LEMMA ClosingStep ==
  ASSUME NEW tokens, NEW n \in Nat, NEW open, IsReading(tokens, n, open),
         tokens[n + 1].is = "closing", Closes(tokens[n + 1].tag, open)
  PROVE  /\ IsReading(tokens, n + 1, AddChild(Front(open), Last(open)))
         /\ Depth(tokens, n + 1) >= 0 /\ ClosesRightly(tokens, n + 1)
<1> DEFINE rest == Front(open)
           more == AddChild(rest, Last(open))
           m == Len(open)
<1>1. /\ IsSeq(open) /\ m = Depth(tokens, n) + 1 /\ m \in Nat /\ m > 1
      /\ open # <<>>
      /\ \A l \in 1 .. m : open[l].is = "element" /\ IsSeq(open[l].children)
  BY SeqShape DEF IsReading, Closes
<1>2. /\ IsSeq(rest) /\ Len(rest) = m - 1 /\ \A l \in 1 .. m - 1 : rest[l] = open[l]
      /\ Last(open) = open[m] /\ rest # <<>> /\ tokens[n + 1].tag = open[m].tag
  <2>1. /\ IsSeq(rest) /\ Len(rest) = m - 1 /\ \A l \in 1 .. m - 1 : rest[l] = open[l]
        /\ Last(open) = open[m]
    BY <1>1, FrontShape
  <2>2. rest # <<>>
    BY <1>1, <2>1, SeqShape
  <2> QED BY <2>1, <2>2 DEF Closes
<1>3. /\ IsSeq(more) /\ Len(more) = m - 1
      /\ \A l \in 1 .. m - 2 : more[l] = open[l]
      /\ more[m - 1] = WithChild(open[m - 1], open[m])
  <2>1. /\ IsSeq(more) /\ Len(more) = Len(rest)
        /\ \A l \in 1 .. Len(rest) - 1 : more[l] = rest[l]
        /\ more[Len(rest)] = WithChild(rest[Len(rest)], Last(open))
    BY <1>2, ChildAdded
  <2>2. m - 1 \in 1 .. m - 1 /\ (m - 1) - 1 = m - 2 /\ \A l \in 1 .. m - 2 : l \in 1 .. m - 1
    BY <1>1
  <2> QED BY <1>2, <2>1, <2>2
<1>4. Depth(tokens, n + 1) = m - 2 /\ Depth(tokens, n) = m - 1
  <2>1. Rise(tokens[n + 1]) = -1
    BY DEF Rise
  <2>2. Depth(tokens, n) \in Int /\ Depth(tokens, n + 1) = Depth(tokens, n) + (-1)
    BY <2>1, DepthStep
  <2> QED BY <1>1, <2>2
<1>5. /\ more[m - 1].is = "element" /\ more[m - 1].tag = open[m - 1].tag
      /\ IsSeq(more[m - 1].children) /\ IsContent(more[m - 1].children)
  <2>1. IsSeq(open[m - 1].children) /\ open[m].is = "element"
    BY <1>1
  <2>2. IsMeaningful(open[m])
    BY <2>1 DEF IsMeaningful
  <2> QED BY <1>3, <2>1, <2>2, ChildInside
<1>6. \A l \in 1 .. m - 1 : l \in 1 .. m - 2 \/ l = m - 1
  BY <1>1
<1> HIDE DEF rest, more, m
<1>7. \A l \in 1 .. m - 1 : more[l].is = "element" /\ more[l].tag = open[l].tag /\ IsSeq(more[l].children)
  <2>1. \A l \in 1 .. m - 2 : l \in 1 .. m
    BY <1>1
  <2> QED BY <1>1, <1>3, <1>5, <1>6, <2>1
<1>8. ASSUME NEW l \in 2 .. m - 1
      PROVE  \E j \in 1 .. n + 1 : IsOpen(tokens, j, n + 1, l - 2) /\ tokens[j].tag = more[l].tag
  <2>1. l \in 2 .. m /\ l \in 1 .. m - 1
    BY <1>1
  <2>2. PICK j \in 1 .. n : IsOpen(tokens, j, n, l - 2) /\ tokens[j].tag = open[l].tag
    BY <2>1 DEF IsReading, m
  <2>3. Depth(tokens, n + 1) > l - 2 /\ j \in 1 .. n + 1
    BY <1>1, <1>4
  <2> QED BY <1>7, <2>1, <2>2, <2>3, StaysOpen
<1>9. HasContent(tokens, n + 1) /\ (m - 1 > 1 \/ IsContent(more[1].children))
  <2>1. HasContent(tokens, n)
    BY <1>1 DEF IsReading, m
  <2>2. m - 1 > 1 \/ m - 1 = 1
    BY <1>1
  <2> QED BY <1>5, <2>1, <2>2, ContentStep
<1>10. IsReading(tokens, n + 1, more)
  <2>1. Len(more) = Depth(tokens, n + 1) + 1 /\ Len(more) > 0
    BY <1>1, <1>3, <1>4
  <2> QED BY <1>3, <1>7, <1>8, <1>9, <2>1 DEF IsReading
<1>11. Depth(tokens, n + 1) >= 0
  BY <1>1, <1>4
<1>12. ClosesRightly(tokens, n + 1)
  <2>1. PICK j \in 1 .. n : IsOpen(tokens, j, n, m - 2) /\ tokens[j].tag = open[m].tag
    BY <1>1 DEF IsReading, m
  <2>2. (n + 1) - 1 = n
    OBVIOUS
  <2> QED BY <1>2, <1>4, <2>1, <2>2 DEF ClosesRightly
<1> QED BY <1>10, <1>11, <1>12 DEF more, rest

\* A closing tag that the template may have here closes the innermost element.
LEMMA ClosingAccepted ==
  ASSUME NEW tokens, NEW n \in Nat, NEW open, IsReading(tokens, n, open),
         tokens[n + 1].is = "closing",
         Depth(tokens, n + 1) >= 0, ClosesRightly(tokens, n + 1)
  PROVE  Closes(tokens[n + 1].tag, open)
<1> DEFINE m == Len(open)
<1>1. IsSeq(open) /\ m = Depth(tokens, n) + 1 /\ m \in Nat /\ m > 0 /\ open # <<>>
  BY SeqShape DEF IsReading
<1>2. Depth(tokens, n + 1) = m - 2
  <2>1. Rise(tokens[n + 1]) = -1
    BY DEF Rise
  <2>2. Depth(tokens, n) \in Int /\ Depth(tokens, n + 1) = Depth(tokens, n) + (-1)
    BY <2>1, DepthStep
  <2> QED BY <1>1, <2>2
<1>3. m > 1 /\ m \in 2 .. m /\ m - 2 \in Int
  BY <1>1, <1>2
<1>4. PICK i \in 1 .. n : IsOpen(tokens, i, n, m - 2) /\ tokens[i].tag = open[m].tag
  BY <1>3 DEF IsReading
<1>5. PICK j \in 1 .. n : IsOpen(tokens, j, n, m - 2) /\ tokens[j].tag = tokens[n + 1].tag
  <2>1. (n + 1) - 1 = n
    OBVIOUS
  <2> QED BY <1>2, <2>1 DEF ClosesRightly
<1>6. i = j
  BY <1>3, <1>4, <1>5, OpenUnique
<1>7. Last(open) = open[m]
  BY <1>1, FrontShape
<1> QED BY <1>3, <1>4, <1>5, <1>6, <1>7 DEF Closes

\* One more token is read, and what is open is again what it should be, if and only
\* if the template still nests.
LEMMA ReadStep ==
  ASSUME NEW tokens, NEW n \in Nat, NEW open, IsReading(tokens, n, open),
         IsToken(tokens[n + 1]), NestsSoFar(tokens, n)
  PROVE  LET next == Read(open, tokens[n + 1]) IN
         IF NestsSoFar(tokens, n + 1) THEN IsReading(tokens, n + 1, next) ELSE next = Failed
<1> DEFINE token == tokens[n + 1]
           next == Read(open, token)
<1>1. open # Failed /\ Len(open) \in Nat /\ Len(open) > 0 /\ Len(open) = Depth(tokens, n) + 1
  BY SeqShape DEF IsReading, Failed
<1>2. token.is # "closing" => ClosesRightly(tokens, n + 1)
  BY DEF ClosesRightly
<1>3. /\ Depth(tokens, n) \in Int
      /\ Depth(tokens, n + 1) = Depth(tokens, n) + Rise(token)
  BY DepthStep
<1>4. token.is # "closing" => Depth(tokens, n + 1) >= 0
  <2>1. token.is # "closing" => Rise(token) \in {0, 1}
    BY DEF Rise
  <2> QED BY <1>1, <1>3, <2>1
<1>5. CASE token.is = "malformed"
  <2>1. next = Failed
    BY <1>1, <1>5 DEF Read
  <2>2. ~NestsSoFar(tokens, n + 1)
    BY <1>5, NestsStep
  <2> QED BY <2>1, <2>2
<1>6. CASE token.is = "written"
  <2>1. next = AddChild(open, TextNode(token.source))
    BY <1>1, <1>6 DEF Read
  <2>2. NestsSoFar(tokens, n + 1)
    BY <1>2, <1>4, <1>6, NestsStep
  <2>3. IsMeaningful(TextNode(token.source)) <=> token # Blank
    <3>1. token = Written(token.source) /\ Blank.source = Literal("") /\ Blank = Written(Literal(""))
      BY <1>6, TokenKinds DEF Blank, Written
    <3>2. token = Blank <=> token.source = Literal("")
      BY <3>1
    <3>3. IsMeaningful(TextNode(token.source)) <=> token.source # Literal("")
      BY DEF IsMeaningful, TextNode
    <3> QED BY <3>2, <3>3
  <2>4. Rise(token) = 0
    BY <1>6 DEF Rise
  <2> QED BY <1>6, <2>1, <2>2, <2>3, <2>4, ChildStep
<1>7. CASE token.is = "self-closing"
  <2> DEFINE node == Element(token.tag, token.attrs, <<>>)
  <2>1. next = AddChild(open, node)
    BY <1>1, <1>7 DEF Read
  <2>2. NestsSoFar(tokens, n + 1)
    BY <1>2, <1>4, <1>7, NestsStep
  <2>3. IsMeaningful(node)
    BY DEF IsMeaningful, Element
  <2>4. Rise(token) = 0 /\ token # Blank
    BY <1>7, TokenKinds DEF Rise
  <2> QED BY <1>7, <2>1, <2>2, <2>3, <2>4, ChildStep
<1>8. CASE token.is = "opening"
  <2>1. next = Append(open, Element(token.tag, token.attrs, <<>>))
    BY <1>1, <1>8 DEF Read
  <2>2. NestsSoFar(tokens, n + 1)
    BY <1>2, <1>4, <1>8, NestsStep
  <2> QED BY <1>8, <2>1, <2>2, OpeningStep
<1>9. CASE token.is = "closing"
  <2>1. CASE Closes(token.tag, open)
    <3>1. next = AddChild(Front(open), Last(open))
      BY <1>1, <1>9, <2>1 DEF Read
    <3>2. /\ IsReading(tokens, n + 1, next)
          /\ Depth(tokens, n + 1) >= 0 /\ ClosesRightly(tokens, n + 1)
      BY <1>9, <2>1, <3>1, ClosingStep
    <3>3. NestsSoFar(tokens, n + 1)
      BY <1>9, <3>2, NestsStep
    <3> QED BY <3>2, <3>3
  <2>2. CASE ~Closes(token.tag, open)
    <3>1. next = Failed
      BY <1>1, <1>9, <2>2 DEF Read
    <3>2. ~NestsSoFar(tokens, n + 1)
      BY <1>9, <2>2, NestsStep, ClosingAccepted
    <3> QED BY <3>1, <3>2
  <2> QED BY <2>1, <2>2
<1>10. token.is \in {"opening", "self-closing", "closing", "written", "malformed"}
  BY TokenKinds
<1> QED BY <1>5, <1>6, <1>7, <1>8, <1>9, <1>10

LEMMA ReadStart == \A tokens : NestsSoFar(tokens, 0) /\ IsReading(tokens, 0, Document)
<1> SUFFICES ASSUME NEW tokens
             PROVE  NestsSoFar(tokens, 0) /\ IsReading(tokens, 0, Document)
  OBVIOUS
<1> DEFINE root == Element("", NoAttrs, <<>>)
<1>1. Document = <<root>> /\ Len(Document) = 1 /\ Document[1] = root
  BY DEF Document
<1>2. root.is = "element" /\ root.children = <<>> /\ ~IsContent(<<>>)
  BY DEF Element, IsContent
<1>3. IsSeq(Document) /\ IsSeq(<<>>)
  <2>1. \A x : <<x>> \in Seq({x})
    OBVIOUS
  <2>2. <<>> \in Seq({})
    OBVIOUS
  <2>3. Document \in Seq({root})
    BY <1>1, <2>1
  <2> QED BY <2>2, <2>3 DEF IsSeq
<1>4. ~HasContent(tokens, 0) /\ NestsSoFar(tokens, 0)
  BY DEF HasContent, NestsSoFar
<1> HIDE DEF root
<1>5. \A l \in 1 .. Len(Document) : l = 1
  BY <1>1
<1> QED BY <1>1, <1>2, <1>3, <1>4, <1>5, DepthStart DEF IsReading

\* parse_document accepts a template if and only if its tags nest and it has more than
\* blank text: no two mistakes cancel out, however long and deep it is.
THEOREM ParsesWhatNests ==
  ASSUME NEW S, \A token \in S : IsToken(token), NEW tokens \in Seq(S)
  PROVE  ParseDocument(tokens).ok <=> IsWellFormed(tokens)
<1> DEFINE N == Len(tokens)
           open == OpenAfter(tokens)
<1>1. N \in Nat /\ DOMAIN tokens = 1 .. N /\ \A n \in 0 .. N - 1 : IsToken(tokens[n + 1])
  <2>1. N \in Nat /\ DOMAIN tokens = 1 .. N /\ \A i \in 1 .. N : tokens[i] \in S
    BY LenProperties, ElementOfSeq
  <2>2. \A n \in 0 .. N - 1 : n + 1 \in 1 .. N
    BY <2>1
  <2> QED BY <2>1, <2>2
<1>2. open[0] = Document /\ \A n \in 0 .. N - 1 : open[n + 1] = Read(open[n], tokens[n + 1])
  BY <1>1, OpenAfterSteps
<1> HIDE DEF N, open
<1> DEFINE Good == {n \in Nat : n <= N =>
                     IF NestsSoFar(tokens, n) THEN IsReading(tokens, n, open[n]) ELSE open[n] = Failed}
<1>3. 0 \in Good
  BY <1>2, ReadStart
<1>4. ASSUME NEW n \in Nat, n \in Good
      PROVE  n + 1 \in Good
  <2> SUFFICES ASSUME n + 1 <= N
               PROVE  IF NestsSoFar(tokens, n + 1) THEN IsReading(tokens, n + 1, open[n + 1])
                      ELSE open[n + 1] = Failed
    OBVIOUS
  <2>1. n \in 0 .. N - 1 /\ n <= N
    BY <1>1
  <2>2. open[n + 1] = Read(open[n], tokens[n + 1]) /\ IsToken(tokens[n + 1])
    BY <1>1, <1>2, <2>1
  <2>3. CASE NestsSoFar(tokens, n)
    BY <1>4, <2>1, <2>2, <2>3, ReadStep
  <2>4. CASE ~NestsSoFar(tokens, n)
    <3>1. open[n] = Failed
      BY <1>4, <2>1, <2>4
    <3>2. open[n + 1] = Failed
      BY <2>2, <3>1 DEF Read
    <3>3. ~NestsSoFar(tokens, n + 1)
      BY <2>4, NestsStep
    <3> QED BY <3>2, <3>3
  <2> QED BY <2>3, <2>4
<1> HIDE DEF Good
<1>5. IF NestsSoFar(tokens, N) THEN IsReading(tokens, N, open[N]) ELSE open[N] = Failed
  <2>1. Nat \subseteq Good
    BY <1>3, <1>4, NatSetInduction
  <2>2. N \in Good /\ N <= N
    BY <1>1, <2>1
  <2> QED BY <2>2 DEF Good
<1>6. ParseDocument(tokens).ok <=> Len(open[N]) = 1 /\ IsContent(open[N][1].children)
  BY DEF ParseDocument, NotParsed, Parsed, IsContent, open, N
<1>7. IsWellFormed(tokens) <=>
        NestsSoFar(tokens, N) /\ Depth(tokens, N) = 0 /\ HasContent(tokens, N)
  BY <1>1 DEF IsWellFormed, NestsSoFar, ClosesRightly, HasContent, Blank, N
<1>8. CASE NestsSoFar(tokens, N)
  <2>1. /\ Len(open[N]) = Depth(tokens, N) + 1
        /\ HasContent(tokens, N) <=> Len(open[N]) > 1 \/ IsContent(open[N][1].children)
    BY <1>5, <1>8 DEF IsReading
  <2>2. Depth(tokens, N) \in Int
    BY <1>1, DepthStep
  <2> QED BY <1>6, <1>7, <1>8, <2>1, <2>2
<1>9. CASE ~NestsSoFar(tokens, N)
  <2>1. Len(open[N]) = 0
    BY <1>5, <1>9 DEF Failed
  <2> QED BY <1>6, <1>7, <1>9, <2>1
<1> QED BY <1>8, <1>9

=============================================================================
