---------------------------- MODULE ComponentVm ----------------------------
(***************************************************************************)
(* One card of crates/component-runtime: a ComponentInstance and the       *)
(* QuickJS context it owns (component_vm.rs).                              *)
(*                                                                         *)
(* The host mounts the card, dispatches events to it and expires it, one   *)
(* operation at a time.  An operation is an async function in JS: it runs  *)
(* handlers of the component, takes a snapshot of its data and of the      *)
(* actions it has queued, and the Rust side applies that.  Handlers are    *)
(* the Skill's own code: they change data, queue actions, throw or run     *)
(* into the timeout, wait for something that does not come, and leave      *)
(* promises behind.  An operation that fails while it waits stays in JS,   *)
(* and goes on when a later operation drives the job queue.                *)
(*                                                                         *)
(* Both sides keep an expired flag and both buffer: what an operation that *)
(* failed has done in JS stays there.  The trace travels exactly as the    *)
(* actions do and is not modelled apart from them.                         *)
(***************************************************************************)
EXTENDS Naturals, Sequences

CONSTANTS
  MaxActions,   \* bound: actions queued
  MaxCalls,     \* bound: operations the host starts
  MaxData,      \* bound: changes of the component's data
  MaxSuspended  \* bound: operations that wait in JS at a time

ASSUME BoundsAssumption ==
  /\ MaxActions \in Nat
  /\ MaxCalls \in Nat
  /\ MaxData \in Nat
  /\ MaxSuspended \in Nat

VARIABLES
  mounted,      \* ComponentInstance.mounted
  expired,      \* ComponentInstance.expired
  state,        \* ComponentInstance.state, as a version of the data
  op,           \* the operation that is running
  todo,         \* the handlers it has yet to run
  verdict,      \* how the last operation ended
  instance,     \* __dockInstance: 0 for null, else how often it was built
  data,         \* the instance's data, as a version
  jsExpired,    \* __dockExpired
  buffer,       \* __dockActions: queued actions, numbered in their order
  stray,        \* the instance whose handlers left a promise behind, 0 if none
  suspended,    \* what the operations that failed while they waited have left to do
  pushed,       \* history: actions queued so far
  delivered,    \* history: the actions the host was given
  detached,     \* history: detach lifecycles that ran to their end
  asked,        \* history: expire was called on a mounted card
  calls         \* how many operations were started

host == <<mounted, expired, state>>
js == <<instance, data, jsExpired, buffer, stray, suspended, pushed, detached>>
cardVars == <<host, op, todo, verdict, js, delivered, asked, calls>>

Handlers == {"created", "input", "result", "attached", "event", "expire", "detached"}

CardTypeOK ==
  /\ mounted \in BOOLEAN
  /\ expired \in BOOLEAN
  /\ state \in Nat
  /\ op \in {"none", "mount", "event", "expire"}
  /\ todo \in Seq(Handlers)
  /\ verdict \in {"none", "ok", "error"}
  /\ instance \in Nat
  /\ data \in Nat
  /\ jsExpired \in BOOLEAN
  /\ buffer \in Seq(1..pushed)
  /\ stray \in 0..instance
  /\ suspended \in Seq(Seq(Handlers))
  /\ pushed \in Nat
  /\ delivered \in Seq(1..pushed)
  /\ detached \in Nat
  /\ asked \in BOOLEAN
  /\ calls \in Nat

CardInit ==
  /\ mounted = FALSE
  /\ expired = FALSE
  /\ state = 0
  /\ op = "none"
  /\ todo = <<>>
  /\ verdict = "none"
  /\ instance = 0
  /\ data = 0
  /\ jsExpired = FALSE
  /\ buffer = <<>>
  /\ stray = 0
  /\ suspended = <<>>
  /\ pushed = 0
  /\ delivered = <<>>
  /\ detached = 0
  /\ asked = FALSE
  /\ calls = 0

----------------------------------------------------------------------------
(* The host starts an operation; &mut self keeps them apart. *)

Call ==
  /\ op = "none"
  /\ calls < MaxCalls
  /\ calls' = calls + 1

Begin(name, handlers) ==
  /\ op' = name
  /\ todo' = handlers
  /\ UNCHANGED verdict

Fail ==
  /\ op' = "none"
  /\ todo' = <<>>
  /\ verdict' = "error"

MountAfresh ==
  /\ Call
  /\ data < MaxData
  /\ instance' = instance + 1
  /\ data' = data + 1
  /\ buffer' = <<>>
  /\ Begin("mount", <<"created", "input", "result", "attached">>)
  /\ UNCHANGED <<host, jsExpired, stray, suspended, pushed, detached, asked, delivered>>

\* __dockMount builds a new instance, whatever was there, with fresh data.
Mount ==
  /\ Call
  /\ data < MaxData
  /\ instance' = instance + 1
  /\ data' = data + 1
  /\ Begin("mount", <<"created", "input", "result", "attached">>)
  /\ UNCHANGED <<host, jsExpired, buffer, stray, suspended, pushed, detached, asked,
                 delivered>>

\* dispatch_event looks at the Rust flag, __dockDispatchEvent at its own.
DispatchUnchecked(known) ==
  /\ Call
  /\ IF expired \/ ~known THEN Fail ELSE Begin("event", <<"event">>)
  /\ UNCHANGED <<host, js, asked, delivered>>

Dispatch(known) ==
  /\ Call
  /\ IF expired \/ jsExpired \/ ~known THEN Fail ELSE Begin("event", <<"event">>)
  /\ UNCHANGED <<host, js, asked, delivered>>

\* __dockExpire runs no handler a second time; without an instance it throws.
ExpireUnmounted ==
  /\ Call
  /\ asked' = (asked \/ mounted)
  /\ IF jsExpired \/ instance = 0 THEN Begin("expire", <<>>)
     ELSE Begin("expire", <<"expire", "detached">>)
  /\ UNCHANGED <<host, js, delivered>>

Expire ==
  /\ Call
  /\ asked' = (asked \/ mounted)
  /\ IF jsExpired THEN Begin("expire", <<>>)
     ELSE IF instance = 0 THEN Fail
     ELSE Begin("expire", <<"expire", "detached">>)
  /\ UNCHANGED <<host, js, delivered>>

----------------------------------------------------------------------------
(* Component code. *)

\* __dockPushAction: a follow-up message with an api/call block queues two.
Push(n) ==
  /\ pushed + n <= MaxActions
  /\ pushed' = pushed + n
  /\ buffer' = buffer \o [k \in 1..n |-> pushed + k]

SetData(changes) ==
  IF changes THEN data < MaxData /\ data' = data + 1 ELSE UNCHANGED data

\* What the code of a handler does besides ending: it changes data if there is an
\* instance, queues actions, and may leave a promise behind.
Effects(n, changes, leaves) ==
  /\ changes => instance # 0
  /\ Push(n)
  /\ SetData(changes)
  /\ stray' = IF leaves THEN instance ELSE stray

\* __dockExpire sets its flag once the detached lifecycle has returned.
Returned(h) ==
  /\ jsExpired' = (jsExpired \/ h = "detached")
  /\ detached' = detached + (IF h = "detached" THEN 1 ELSE 0)

\* A handler runs and returns, or it throws or runs into the timeout.
RunHandler(n, changes, leaves, throws) ==
  /\ todo # <<>>
  /\ Effects(n, changes, leaves)
  /\ IF throws
       THEN Fail /\ UNCHANGED <<jsExpired, detached>>
       ELSE /\ Returned(Head(todo))
            /\ todo' = Tail(todo)
            /\ UNCHANGED <<op, verdict>>
  /\ UNCHANGED <<host, instance, suspended, delivered, asked, calls>>

\* finish() finds no job left while the handler waits, or another job used up the
\* time: the operation fails for the host, and its function stays in JS.
GiveUp(n, changes, leaves) ==
  /\ todo # <<>>
  /\ Len(suspended) < MaxSuspended
  /\ Effects(n, changes, leaves)
  /\ suspended' = Append(suspended, todo)
  /\ Fail
  /\ UNCHANGED <<host, instance, jsExpired, detached, delivered, asked, calls>>

\* A promise left behind goes on whenever an operation drives the job queue.
RunStray(n, changes, leaves) ==
  /\ op # "none"
  /\ stray # 0
  /\ changes => stray = instance
  /\ Push(n)
  /\ SetData(changes)
  /\ stray' = IF leaves THEN stray ELSE 0
  /\ UNCHANGED <<host, op, todo, verdict, instance, jsExpired, suspended, detached,
                 delivered, asked, calls>>

Without(k) == [j \in 1..(Len(suspended) - 1) |-> suspended[IF j < k THEN j ELSE j + 1]]

\* An operation given up earlier goes on with its next handler.
ResumeHandler(k, n, changes, leaves, throws) ==
  /\ op # "none"
  /\ k \in DOMAIN suspended
  /\ suspended[k] # <<>>
  /\ Effects(n, changes, leaves)
  /\ IF throws
       THEN suspended' = Without(k) /\ UNCHANGED <<jsExpired, detached>>
       ELSE /\ suspended' = [suspended EXCEPT ![k] = Tail(@)]
            /\ Returned(Head(suspended[k]))
  /\ UNCHANGED <<host, op, todo, verdict, instance, delivered, asked, calls>>

----------------------------------------------------------------------------
(* The end of an operation: __dockSnapshot, then apply_snapshot. *)

KeptBuffer == buffer
EmptyBuffer == <<>>

\* An operation given up earlier ends: nobody receives its snapshot, which has
\* emptied the buffer all the same unless the clone of the data threw.
ResumeSnapshot(k) ==
  /\ op # "none"
  /\ k \in DOMAIN suspended
  /\ suspended[k] = <<>>
  /\ suspended' = Without(k)
  /\ buffer' \in {buffer, <<>>}
  /\ UNCHANGED <<host, op, todo, verdict, instance, data, jsExpired, stray, pushed,
                 detached, delivered, asked, calls>>

\* The clone of the data throws, or the time is up: the buffer stays as it is.
SnapshotFails ==
  /\ op # "none"
  /\ todo = <<>>
  /\ Fail
  /\ UNCHANGED <<host, js, delivered, asked, calls>>

Taken == IF instance = 0 THEN 0 ELSE data

\* The snapshot empties the buffer.  When it does not parse on the Rust side,
\* nothing of it is applied.
Unreadable ==
  /\ op # "none"
  /\ todo = <<>>
  /\ buffer # <<>>
  /\ buffer' = EmptyBuffer
  /\ Fail
  /\ UNCHANGED <<host, instance, data, jsExpired, stray, suspended, pushed, detached,
                 delivered, asked, calls>>

ApplyStaleState(rendered) ==
  /\ op # "none"
  /\ todo = <<>>
  /\ buffer' = EmptyBuffer
  /\ mounted' = (mounted \/ op = "mount")
  /\ expired' = (expired \/ op = "expire")
  /\ IF rendered
       THEN /\ state' = IF op = "expire" THEN state ELSE Taken
            /\ delivered' = delivered \o buffer
            /\ verdict' = "ok"
            /\ op' = "none"
            /\ todo' = todo
       ELSE Fail /\ UNCHANGED <<state, delivered>>
  /\ UNCHANGED <<instance, data, jsExpired, stray, suspended, pushed, detached, asked,
                 calls>>

\* mounted and expired are set, the state is taken over, and then the card is
\* rendered: when that fails the operation fails and its actions are lost.
Apply(rendered) ==
  /\ op # "none"
  /\ todo = <<>>
  /\ buffer' = EmptyBuffer
  /\ mounted' = (mounted \/ op = "mount")
  /\ expired' = (expired \/ op = "expire")
  /\ state' = Taken
  /\ IF rendered
       THEN /\ delivered' = delivered \o buffer
            /\ verdict' = "ok"
            /\ op' = "none"
            /\ todo' = todo
       ELSE Fail /\ UNCHANGED delivered
  /\ UNCHANGED <<instance, data, jsExpired, stray, suspended, pushed, detached, asked,
                 calls>>

CardNext ==
  \/ Mount
  \/ \E known \in BOOLEAN : Dispatch(known)
  \/ Expire
  \/ \E n \in 0..2, changes, leaves, throws \in BOOLEAN :
       RunHandler(n, changes, leaves, throws)
  \/ \E n \in 0..1, changes, leaves \in BOOLEAN : GiveUp(n, changes, leaves)
  \/ \E n \in 0..1, changes, leaves \in BOOLEAN : RunStray(n, changes, leaves)
  \/ \E k \in 1..MaxSuspended, n \in 0..1, changes, leaves, throws \in BOOLEAN :
       ResumeHandler(k, n, changes, leaves, throws)
  \/ \E k \in 1..MaxSuspended : ResumeSnapshot(k)
  \/ SnapshotFails
  \/ Unreadable
  \/ \E rendered \in BOOLEAN : Apply(rendered)

CardSpec == CardInit /\ [][CardNext]_cardVars

----------------------------------------------------------------------------
(* Properties *)

\* The host gets a card's actions in the order they were queued and none twice,
\* although those of a failed operation stay in the buffer and come with the
\* next one (an api/call delivered twice would execute twice).
ActionsOnceInOrder ==
  \A j, k \in 1..Len(delivered) : j < k => delivered[j] < delivered[k]

\* The actions that were queued and neither reached the host nor wait for it.
Lost == pushed - Len(delivered) - Len(buffer)

\* No action gets lost behind the host's back, and none comes back: actions are lost
\* only with a snapshot that was taken and did not reach the host, which is told that
\* the operation failed, or was taken at the end of an operation that had failed
\* before and was resumed.  What a handler queued before it threw, ran into the
\* timeout or was given up, or a promise that was left behind, outlives that failure,
\* and the mounts, events and expiries that begin after it (__dockActions is one
\* buffer for all of them, and only __dockSnapshot empties it).
LostOnlyWithSnapshots ==
  [][Lost' # Lost =>
       \/ op # "none" /\ todo = <<>> /\ op' = "none" /\ verdict' = "error"
       \/ \E k \in DOMAIN suspended :
            suspended[k] = <<>> /\ suspended' = Without(k)]_cardVars

\* After an operation that succeeded the host has all there is: its state is the
\* component's data and no action is left in the buffer, whatever failed before.
\* And a card that the host holds expired, after any operation, went through its
\* detached lifecycle, and its JS side knows: no path sets the Rust flag alone.
OkMeansInSync ==
  /\ op = "none" /\ verdict = "ok" => state = Taken /\ buffer = <<>>
  /\ expired => detached # 0 /\ jsExpired

\* No event begins on a card that was detached, and a further expire runs no
\* handler, also when the expire that detached it failed for the host.
QuietAfterDetach ==
  [][op = "none" /\ detached # 0 =>
       op' # "event" /\ (op' = "expire" => todo' = <<>>)]_cardVars

\* docs/architecture/miniapp-mcp-component-runtime.md puts "mark card expired" at
\* the head of an expire request, before the notification: no event after it.
NoEventAfterExpireRequest == [][op = "none" /\ asked => op' # "event"]_cardVars

============================================================================
