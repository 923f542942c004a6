----------------------------- MODULE DockCore -----------------------------
(***************************************************************************)
(* The orchestrator of crates/dock-core: call_api takes a call through     *)
(* schema validation, permission, consent, execution, result validation,   *)
(* rendering and audit, and handle_component_action sends the calls that   *)
(* components ask for through the same chain.                              *)
(*                                                                         *)
(* An Orchestrator is shared by reference and keeps no state of its own:   *)
(* any number of calls are in flight, and every answer of the host, the    *)
(* consent gate, the executor, the renderer and the audit sink (traits the *)
(* application implements) comes at any time and may be a failure.         *)
(***************************************************************************)
EXTENDS Naturals, Sequences

CONSTANTS
  Call,          \* calls, each made at most once
  Api,           \* the API names in the Skill's manifest
  Declared,      \* their declarations
  UnknownApi,    \* a name that is not registered
  Host           \* the origin of a call no component asked for

Levels == 0..4

NoLabel == 99

Topics == {"privacy", "trade", "write", "read"}

\* What the risk policy reads of an ApiDeclaration (the label of its metadata,
\* the topics that words of its name and description fall under) and whether it
\* has a componentPath.
Declaration == [label : Levels \cup {NoLabel}, topics : SUBSET Topics,
                component : BOOLEAN]

ASSUME DeclarationsAssumption ==
  /\ Declared \in [Api -> Declaration]
  /\ UnknownApi \notin Api
  /\ Host \notin Call

VARIABLES
  step,      \* where call_api is
  api,       \* ApiCallContext.api_name
  origin,    \* the call whose component asked for this one, or Host
  proof,     \* whether call_api holds a ConsentProof
  outcome,   \* the AuditOutcome about to be recorded
  log,       \* the audit sink: the records of each call
  answer,    \* what call_api returned
  approved,  \* history: the calls the consent gate approved
  ran,       \* history: the calls handed to the executor
  cards,     \* history: the calls whose component was rendered
  lost       \* history: the calls whose record the sink refused

vars == <<step, api, origin, proof, outcome, log, answer, approved, ran, cards,
          lost>>

Steps == {"new", "permission", "consent", "execute", "render", "audit", "done"}

AuditOutcomes == {"ok", "blocked_consent_required", "blocked_permission_denied",
                  "validation_failed", "error"}

Answers == {"none", "ok", "ApiNotFound", "ValidationFailed", "PermissionDenied",
            "ConsentRequired", "HostFailed", "GateFailed", "ExecutorFailed",
            "SinkFailed"}

AuditRecord == [outcome : AuditOutcomes, proof : BOOLEAN]

TypeOK ==
  /\ step \in [Call -> Steps]
  /\ api \in [Call -> Api \cup {UnknownApi}]
  /\ origin \in [Call -> Call \cup {Host}]
  /\ proof \in [Call -> BOOLEAN]
  /\ outcome \in [Call -> AuditOutcomes \cup {"none"}]
  /\ log \in [Call -> Seq(AuditRecord)]
  /\ answer \in [Call -> Answers]
  /\ approved \subseteq Call
  /\ ran \subseteq Call
  /\ cards \subseteq Call
  /\ lost \subseteq Call

Init ==
  /\ step = [c \in Call |-> "new"]
  /\ api = [c \in Call |-> UnknownApi]
  /\ origin = [c \in Call |-> Host]
  /\ proof = [c \in Call |-> FALSE]
  /\ outcome = [c \in Call |-> "none"]
  /\ log = [c \in Call |-> <<>>]
  /\ answer = [c \in Call |-> "none"]
  /\ approved = {}
  /\ ran = {}
  /\ cards = {}
  /\ lost = {}

----------------------------------------------------------------------------
(* RiskPolicy: the label of the metadata decides, else the words do. *)

LevelByTopic(topics) ==
  IF "privacy" \in topics THEN 4
  ELSE IF "trade" \in topics THEN 3
  ELSE IF "write" \in topics THEN 2
  ELSE IF "read" \in topics THEN 0
  ELSE 2

RiskOf(declaration) ==
  IF declaration.label # NoLabel THEN declaration.label
  ELSE LevelByTopic(declaration.topics)

RequiresConsentAboveL3(level) == level > 3

RequiresConsent(level) == level >= 3

Risky(c) == RequiresConsent(RiskOf(Declared[api[c]]))

----------------------------------------------------------------------------
(* call_api, from one answer of its collaborators to the next. *)

Goto(c, next) ==
  /\ step' = [step EXCEPT ![c] = next]
  /\ UNCHANGED <<outcome, answer>>

\* An early return without a record.
Return(c, result) ==
  /\ step' = [step EXCEPT ![c] = "done"]
  /\ answer' = [answer EXCEPT ![c] = result]
  /\ UNCHANGED outcome

\* The next thing call_api does is record_audit with this outcome.
Record(c, result) ==
  /\ step' = [step EXCEPT ![c] = "audit"]
  /\ outcome' = [outcome EXCEPT ![c] = result]
  /\ UNCHANGED answer

\* Entry, by the host or by a component on screen: registry, risk and inputSchema.
Begin(c, a, from, valid) ==
  /\ step[c] = "new"
  /\ from = Host \/ from \in cards
  /\ api' = [api EXCEPT ![c] = a]
  /\ origin' = [origin EXCEPT ![c] = from]
  /\ IF a = UnknownApi THEN Return(c, "ApiNotFound")
     ELSE IF ~valid THEN Record(c, "validation_failed")
     ELSE Goto(c, "permission")
  /\ UNCHANGED <<proof, log, approved, ran, cards, lost>>

\* check_permission; a call below L3 never reaches the consent gate.
Permission(c, reply) ==
  /\ step[c] = "permission"
  /\ \/ reply = "Allow" /\ Goto(c, IF Risky(c) THEN "consent" ELSE "execute")
     \/ reply = "Deny" /\ Record(c, "blocked_permission_denied")
     \/ reply = "Err" /\ Return(c, "HostFailed")
  /\ UNCHANGED <<api, origin, proof, log, approved, ran, cards, lost>>

ConsentFailsOpen(c, reply) ==
  /\ step[c] = "consent"
  /\ \/ /\ reply = "Approved"
        /\ approved' = approved \cup {c}
        /\ proof' = [proof EXCEPT ![c] = TRUE]
        /\ Goto(c, "execute")
     \/ /\ reply = "Required"
        /\ Record(c, "blocked_consent_required")
        /\ UNCHANGED <<approved, proof>>
     \/ /\ reply = "Err"
        /\ Goto(c, "execute")
        /\ UNCHANGED <<approved, proof>>
  /\ UNCHANGED <<api, origin, log, ran, cards, lost>>

Consent(c, reply) ==
  /\ step[c] = "consent"
  /\ \/ /\ reply = "Approved"
        /\ approved' = approved \cup {c}
        /\ proof' = [proof EXCEPT ![c] = TRUE]
        /\ Goto(c, "execute")
     \/ /\ reply = "Required"
        /\ Record(c, "blocked_consent_required")
        /\ UNCHANGED <<approved, proof>>
     \/ /\ reply = "Err"
        /\ Return(c, "GateFailed")
        /\ UNCHANGED <<approved, proof>>
  /\ UNCHANGED <<api, origin, log, ran, cards, lost>>

\* The executor, then validate_api_result: a result without text is refused,
\* one marked isError passes and is not rendered.
Execute(c, reply) ==
  /\ step[c] = "execute"
  /\ ran' = ran \cup {c}
  /\ \/ reply = "Err" /\ Record(c, "error")
     \/ reply = "empty" /\ Record(c, "validation_failed")
     \/ reply = "isError" /\ Record(c, "ok")
     \/ reply = "result" /\ Goto(c, "render")
  /\ UNCHANGED <<api, origin, proof, log, approved, cards, lost>>

\* route_result: a text fallback without a component or when rendering fails.
Render(c, rendered) ==
  /\ step[c] = "render"
  /\ cards' = IF Declared[api[c]].component /\ rendered THEN cards \cup {c} ELSE cards
  /\ Record(c, "ok")
  /\ UNCHANGED <<api, origin, proof, log, approved, ran, lost>>

AnswerFor(c) ==
  CASE outcome[c] = "ok" -> "ok"
    [] outcome[c] = "blocked_consent_required" -> "ConsentRequired"
    [] outcome[c] = "blocked_permission_denied" -> "PermissionDenied"
    [] outcome[c] = "validation_failed" -> "ValidationFailed"
    [] outcome[c] = "error" -> "ExecutorFailed"

RecordWithoutProof(c) == [outcome |-> outcome[c], proof |-> FALSE]

RecordOf(c) == [outcome |-> outcome[c], proof |-> proof[c]]

\* record_audit: when the sink refuses, its error replaces the call's outcome.
AuditIgnoringSink(c, written) ==
  /\ step[c] = "audit"
  /\ IF written
       THEN /\ log' = [log EXCEPT ![c] = Append(@, RecordOf(c))]
            /\ lost' = lost
       ELSE /\ log' = log
            /\ lost' = lost \cup {c}
  /\ Return(c, AnswerFor(c))
  /\ UNCHANGED <<api, origin, proof, approved, ran, cards>>

Audit(c, written) ==
  /\ step[c] = "audit"
  /\ IF written
       THEN /\ log' = [log EXCEPT ![c] = Append(@, RecordOf(c))]
            /\ Return(c, AnswerFor(c))
            /\ lost' = lost
       ELSE /\ Return(c, "SinkFailed")
            /\ lost' = lost \cup {c}
            /\ log' = log
  /\ UNCHANGED <<api, origin, proof, approved, ran, cards>>

Next ==
  \E c \in Call :
    \/ \E a \in Api \cup {UnknownApi}, from \in Call \cup {Host}, valid \in BOOLEAN :
         Begin(c, a, from, valid)
    \/ \E reply \in {"Allow", "Deny", "Err"} : Permission(c, reply)
    \/ \E reply \in {"Approved", "Required", "Err"} : Consent(c, reply)
    \/ \E reply \in {"Err", "empty", "isError", "result"} : Execute(c, reply)
    \/ \E rendered \in BOOLEAN : Render(c, rendered)
    \/ \E written \in BOOLEAN : Audit(c, written)

Spec == Init /\ [][Next]_vars

----------------------------------------------------------------------------
(* Properties *)

\* The calls the documentation reserves to the user: transactions and privacy,
\* by the level the Skill declares or, failing that, by what the API is about.
NeedsUser(c) ==
  LET d == Declared[api[c]] IN
  IF d.label = NoLabel THEN d.topics \cap {"privacy", "trade"} # {}
                       ELSE d.label \in {3, 4}

\* Consent fails closed: whatever the gate, the host or a component does, a
\* transaction or privacy API runs only in a call the user approved.
ApprovedBeforeRun == \A c \in ran : NeedsUser(c) => c \in approved

\* The audit log does not lie: one record per call, blocked calls never ran, ok
\* and error ones did, and the record has the proof of what the user approved.
RecordsAreTrue ==
  \A c \in Call : log[c] # <<>> =>
    /\ Len(log[c]) = 1
    /\ log[c][1].outcome \in {"blocked_consent_required",
                              "blocked_permission_denied"} => c \notin ran
    /\ log[c][1].outcome \in {"ok", "error"} => c \in ran
    /\ c \in approved <=> log[c][1].proof

\* A caller that was told ok has a record that says ok; what ran left a record,
\* unless the sink refused it, and then the caller was told an error although the
\* API ran: no other answer hides an execution.
AnswersMatchRecords ==
  \A c \in Call : step[c] = "done" =>
    /\ answer[c] = "ok" => log[c] # <<>> /\ log[c][1].outcome = "ok"
    /\ c \in ran => log[c] # <<>> \/ answer[c] = "SinkFailed"
    /\ answer[c] \in {"ApiNotFound", "HostFailed", "GateFailed",
                      "PermissionDenied", "ConsentRequired"} => c \notin ran

\* The orchestrator implements gated execution.  Calls of unknown APIs are not
\* part of what it promises.
Asked == {c \in Call : step[c] # "new" /\ api[c] # UnknownApi}

Gated == INSTANCE GatedExecution WITH
  asked <- Asked,
  risky <- {c \in Asked : Risky(c)},
  accounted <- {c \in Call : log[c] # <<>>} \cup lost,
  over <- {c \in Asked : step[c] = "done"}

ImplementsGatedExecution == Gated!Spec

============================================================================
