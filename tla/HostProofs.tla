----------------------------- MODULE HostProofs -----------------------------
(***************************************************************************)
(* Theorems about what runs a Skill.                                       *)
(*                                                                         *)
(* DockCore, for every Skill and any number of overlapping calls: type     *)
(* correctness, consent before execution, a truthful audit log and the     *)
(* refinement of GatedExecution.                                           *)
(*                                                                         *)
(* DockCli and MacChat, for any number of processes, commands, taps and    *)
(* sessions, every store of identities and menu, and every renderer that   *)
(* agrees with RendererAssumption: a process acts for the identity that    *)
(* its command names, a tap in the chat pays the order on its card, and a  *)
(* demo buys what it shows and fails only for a cause outside.             *)
(*                                                                         *)
(* SkillPackage, for every package whose tree a file system can hold: what *)
(* validate takes can be shown, and what nothing is wrong with is taken.   *)
(***************************************************************************)
EXTENDS DockCore, MacChat, SequenceTheorems, FiniteSetTheorems, WellFoundedInduction, TLAPS

----------------------------------------------------------------------------
(* Type correctness *)

\* What call_api has to record when it reaches record_audit.
HasOutcome == \A c \in Call : step[c] = "audit" => outcome[c] \in AuditOutcomes

\* An early return, a record to be made and a plain step keep the types.
LEMMA MoveTypes ==
  ASSUME TypeOK, HasOutcome, NEW c \in Call,
         \/ \E next \in Steps \ {"audit"} : Goto(c, next)
         \/ \E result \in Answers : Return(c, result)
         \/ \E result \in AuditOutcomes : Record(c, result)
  PROVE  /\ step' \in [Call -> Steps]
         /\ outcome' \in [Call -> AuditOutcomes \cup {"none"}]
         /\ answer' \in [Call -> Answers]
         /\ HasOutcome'
<1>1. CASE \E next \in Steps \ {"audit"} : Goto(c, next)
  BY <1>1 DEF TypeOK, HasOutcome, Goto
<1>2. CASE \E result \in Answers : Return(c, result)
  BY <1>2 DEF TypeOK, HasOutcome, Return, Steps
<1>3. CASE \E result \in AuditOutcomes : Record(c, result)
  BY <1>3 DEF TypeOK, HasOutcome, Record, Steps
<1> QED BY <1>1, <1>2, <1>3

\* Every step of the orchestrator keeps the variables typed.
LEMMA TypeOKInductive ==
  TypeOK /\ HasOutcome /\ [Next]_vars => TypeOK' /\ HasOutcome'
<1> SUFFICES ASSUME TypeOK, HasOutcome, [Next]_vars
             PROVE  TypeOK' /\ HasOutcome'
  OBVIOUS
<1> USE DEF Steps, Answers, AuditOutcomes
<1>1. ASSUME NEW c \in Call, NEW a \in Api \cup {UnknownApi},
             NEW from \in Call \cup {Host}, NEW valid \in BOOLEAN,
             Begin(c, a, from, valid)
      PROVE  TypeOK' /\ HasOutcome'
  <2>1. \/ \E next \in Steps \ {"audit"} : Goto(c, next)
        \/ \E result \in Answers : Return(c, result)
        \/ \E result \in AuditOutcomes : Record(c, result)
    BY <1>1 DEF Begin
  <2> QED BY <1>1, <2>1, MoveTypes DEF TypeOK, Begin
<1>2. ASSUME NEW c \in Call, NEW reply, Permission(c, reply)
      PROVE  TypeOK' /\ HasOutcome'
  <2>1. \/ \E next \in Steps \ {"audit"} : Goto(c, next)
        \/ \E result \in Answers : Return(c, result)
        \/ \E result \in AuditOutcomes : Record(c, result)
    BY <1>2 DEF Permission
  <2> QED BY <1>2, <2>1, MoveTypes DEF TypeOK, Permission
<1>3. ASSUME NEW c \in Call, NEW reply, Consent(c, reply)
      PROVE  TypeOK' /\ HasOutcome'
  <2>1. \/ \E next \in Steps \ {"audit"} : Goto(c, next)
        \/ \E result \in Answers : Return(c, result)
        \/ \E result \in AuditOutcomes : Record(c, result)
    BY <1>3 DEF Consent
  <2>2. proof' \in [Call -> BOOLEAN] /\ approved' \subseteq Call
    BY <1>3 DEF TypeOK, Consent
  <2> QED BY <1>3, <2>1, <2>2, MoveTypes DEF TypeOK, Consent
<1>4. ASSUME NEW c \in Call, NEW reply, Execute(c, reply)
      PROVE  TypeOK' /\ HasOutcome'
  <2>1. \/ \E next \in Steps \ {"audit"} : Goto(c, next)
        \/ \E result \in Answers : Return(c, result)
        \/ \E result \in AuditOutcomes : Record(c, result)
    BY <1>4 DEF Execute
  <2> QED BY <1>4, <2>1, MoveTypes DEF TypeOK, Execute
<1>5. ASSUME NEW c \in Call, NEW rendered, Render(c, rendered)
      PROVE  TypeOK' /\ HasOutcome'
  <2>1. \E result \in AuditOutcomes : Record(c, result)
    BY <1>5 DEF Render
  <2> QED BY <1>5, <2>1, MoveTypes DEF TypeOK, Render
<1>6. ASSUME NEW c \in Call, NEW written \in BOOLEAN, Audit(c, written)
      PROVE  TypeOK' /\ HasOutcome'
  <2>1. outcome[c] \in AuditOutcomes
    BY <1>6 DEF HasOutcome, Audit
  <2>2. AnswerFor(c) \in Answers
    BY <2>1 DEF AnswerFor
  <2>3. \E result \in Answers : Return(c, result)
    BY <1>6, <2>2 DEF Audit
  <2>4. RecordOf(c) \in AuditRecord
    BY <2>1 DEF TypeOK, RecordOf, AuditRecord
  <2>5. log' \in [Call -> Seq(AuditRecord)]
    <3>1. log[c] \in Seq(AuditRecord)
      BY DEF TypeOK
    <3>2. Append(log[c], RecordOf(c)) \in Seq(AuditRecord)
      BY <2>4, <3>1
    <3> QED BY <1>6, <3>2 DEF TypeOK, Audit
  <2> QED BY <1>6, <2>3, <2>5, MoveTypes DEF TypeOK, Audit
<1>7. CASE UNCHANGED vars
  BY <1>7 DEF TypeOK, HasOutcome, vars
<1> QED BY <1>1, <1>2, <1>3, <1>4, <1>5, <1>6, <1>7 DEF Next

LEMMA TypeOKInit == Init => TypeOK /\ HasOutcome
BY DEF Init, TypeOK, HasOutcome, Steps, Answers, AuditOutcomes

\* The orchestrator's calls stay typed whatever its collaborators answer.
THEOREM TypeCorrect == Spec => []TypeOK
<1>1. Spec => [](TypeOK /\ HasOutcome)
  BY TypeOKInit, TypeOKInductive, PTL DEF Spec
<1> QED BY <1>1, PTL

----------------------------------------------------------------------------
(* The invariant of a call *)

Before == {"new", "permission", "consent", "execute"}

\* The record of call c, if it has one, is what the audit log promises.
TrueRecord(c) ==
  log[c] # <<>> =>
    /\ Len(log[c]) = 1
    /\ log[c][1].outcome \in {"blocked_consent_required",
                              "blocked_permission_denied"} => c \notin ran
    /\ log[c][1].outcome \in {"ok", "error"} => c \in ran
    /\ c \in approved <=> log[c][1].proof

\* Where a call is tells what was asked, run and written for it so far.
CallInv(c) ==
  /\ step[c] \in Before => c \notin ran
  /\ step[c] = "new" => api[c] = UnknownApi
  /\ step[c] \in {"new", "permission", "consent"} => c \notin approved
  /\ step[c] = "execute" /\ Risky(c) => c \in approved
  /\ step[c] = "render" => c \in ran
  /\ c \in ran /\ Risky(c) => c \in approved
  /\ proof[c] <=> c \in approved
  /\ step[c] \notin {"new", "done"} => api[c] # UnknownApi
  /\ step[c] # "done" => log[c] = <<>> /\ c \notin lost /\ answer[c] = "none"
  /\ step[c] = "audit" =>
       /\ outcome[c] \in {"blocked_consent_required",
                          "blocked_permission_denied"} => c \notin ran
       /\ outcome[c] \in {"ok", "error"} => c \in ran
  /\ TrueRecord(c)
  /\ step[c] = "done" =>
       /\ answer[c] = "ok" => log[c] # <<>> /\ log[c][1].outcome = "ok"
       /\ c \in ran => log[c] # <<>> \/ answer[c] = "SinkFailed"
       /\ answer[c] = "SinkFailed" => c \in lost
       /\ answer[c] \in {"ApiNotFound", "HostFailed", "GateFailed",
                         "PermissionDenied", "ConsentRequired"} => c \notin ran
       /\ api[c] = UnknownApi => c \notin ran \cup approved

IInv == TypeOK /\ HasOutcome /\ \A c \in Call : CallInv(c)

\* What call c has, and what it has done.
Of(c) == <<step[c], api[c], proof[c], outcome[c], log[c], answer[c],
           c \in approved, c \in ran, c \in lost>>

\* Calls do not touch one another.
LEMMA CallInvStable ==
  ASSUME NEW c \in Call, CallInv(c), UNCHANGED Of(c)
  PROVE  CallInv(c)'
BY DEF CallInv, TrueRecord, Risky, Of

\* Every step keeps the invariant of the call it moves.
LEMMA IInvInductive == IInv /\ [Next]_vars => IInv'
<1> SUFFICES ASSUME IInv, [Next]_vars
             PROVE  IInv'
  OBVIOUS
<1>0. TypeOK' /\ HasOutcome'
  BY TypeOKInductive DEF IInv
<1>1. ASSUME NEW c \in Call, NEW a \in Api \cup {UnknownApi},
             NEW from \in Call \cup {Host}, NEW valid \in BOOLEAN,
             Begin(c, a, from, valid), NEW d \in Call
      PROVE  CallInv(d)'
  <2>1. CASE d = c
    BY <1>1, <2>1 DEF IInv, TypeOK, CallInv, TrueRecord, Before, Begin, Goto,
       Return, Record, Risky
  <2>2. CASE d # c
    <3>1. UNCHANGED Of(d)
      BY <1>1, <2>2 DEF IInv, TypeOK, Begin, Goto, Return, Record, Of
    <3> QED BY <3>1, CallInvStable DEF IInv
  <2> QED BY <2>1, <2>2
<1>2. ASSUME NEW c \in Call, NEW reply, Permission(c, reply), NEW d \in Call
      PROVE  CallInv(d)'
  <2>1. CASE d = c
    BY <1>2, <2>1 DEF IInv, TypeOK, CallInv, TrueRecord, Before, Permission, Goto,
       Return, Record, Risky
  <2>2. CASE d # c
    <3>1. UNCHANGED Of(d)
      BY <1>2, <2>2 DEF IInv, TypeOK, Permission, Goto, Return, Record, Of
    <3> QED BY <3>1, CallInvStable DEF IInv
  <2> QED BY <2>1, <2>2
<1>3. ASSUME NEW c \in Call, NEW reply, Consent(c, reply), NEW d \in Call
      PROVE  CallInv(d)'
  <2>1. CASE d = c
    BY <1>3, <2>1 DEF IInv, TypeOK, CallInv, TrueRecord, Before, Consent, Goto,
       Return, Record, Risky
  <2>2. CASE d # c
    <3>1. UNCHANGED Of(d)
      BY <1>3, <2>2 DEF IInv, TypeOK, Consent, Goto, Return, Record, Of
    <3> QED BY <3>1, CallInvStable DEF IInv
  <2> QED BY <2>1, <2>2
<1>4. ASSUME NEW c \in Call, NEW reply, Execute(c, reply), NEW d \in Call
      PROVE  CallInv(d)'
  <2>1. CASE d = c
    BY <1>4, <2>1 DEF IInv, TypeOK, CallInv, TrueRecord, Before, Execute, Goto,
       Return, Record, Risky
  <2>2. CASE d # c
    <3>1. UNCHANGED Of(d)
      BY <1>4, <2>2 DEF IInv, TypeOK, Execute, Goto, Return, Record, Of
    <3> QED BY <3>1, CallInvStable DEF IInv
  <2> QED BY <2>1, <2>2
<1>5. ASSUME NEW c \in Call, NEW rendered, Render(c, rendered), NEW d \in Call
      PROVE  CallInv(d)'
  <2>1. CASE d = c
    BY <1>5, <2>1 DEF IInv, TypeOK, CallInv, TrueRecord, Before, Render, Record,
       Risky
  <2>2. CASE d # c
    <3>1. UNCHANGED Of(d)
      BY <1>5, <2>2 DEF IInv, TypeOK, Render, Record, Of
    <3> QED BY <3>1, CallInvStable DEF IInv
  <2> QED BY <2>1, <2>2
<1>6. ASSUME NEW c \in Call, NEW written \in BOOLEAN, Audit(c, written),
             NEW d \in Call
      PROVE  CallInv(d)'
  <2>1. CASE d = c
    <3>1. /\ step[c] = "audit" /\ step'[c] = "done"
          /\ UNCHANGED <<api, proof, approved, ran, outcome>>
      BY <1>6 DEF IInv, TypeOK, Audit, Return
    <3>2. log[c] = <<>> /\ outcome[c] \in AuditOutcomes
      BY <3>1 DEF IInv, CallInv, HasOutcome
    <3>3. CASE written
      <4>1. log'[c] = <<RecordOf(c)>>
        BY <1>6, <3>2, <3>3 DEF IInv, TypeOK, Audit
      <4>2. answer'[c] = AnswerFor(c) /\ lost' = lost
        BY <1>6, <3>3 DEF IInv, TypeOK, Audit, Return
      <4>3. log'[c] # <<>> /\ Len(log'[c]) = 1 /\ log'[c][1] = RecordOf(c)
        BY <4>1
      <4>4. (RecordOf(c).proof <=> proof[c]) /\ RecordOf(c).outcome = outcome[c]
        BY DEF RecordOf
      <4>5. TrueRecord(c)'
        BY <3>1, <4>3, <4>4 DEF IInv, CallInv, TrueRecord
      <4>6. /\ answer'[c] = "ok" => outcome[c] = "ok"
            /\ answer'[c] # "SinkFailed"
            /\ answer'[c] \in {"ApiNotFound", "HostFailed", "GateFailed",
                               "PermissionDenied", "ConsentRequired"} =>
                 outcome[c] \in {"blocked_consent_required",
                                 "blocked_permission_denied"}
        BY <3>2, <4>2 DEF AnswerFor, AuditOutcomes
      <4> QED BY <2>1, <3>1, <4>2, <4>3, <4>4, <4>5, <4>6
              DEF IInv, CallInv, Before, Risky
    <3>4. CASE ~written
      <4>1. answer'[c] = "SinkFailed" /\ lost' = lost \cup {c} /\ log' = log
        BY <1>6, <3>4 DEF IInv, TypeOK, Audit, Return
      <4> QED BY <2>1, <3>1, <3>2, <4>1
              DEF IInv, CallInv, TrueRecord, Before, Risky
    <3> QED BY <3>3, <3>4
  <2>2. CASE d # c
    <3>1. UNCHANGED Of(d)
      BY <1>6, <2>2 DEF IInv, TypeOK, Audit, Return, Of
    <3> QED BY <3>1, CallInvStable DEF IInv
  <2> QED BY <2>1, <2>2
<1>7. ASSUME UNCHANGED vars, NEW d \in Call PROVE CallInv(d)'
  BY <1>7 DEF IInv, vars, CallInv, TrueRecord, Risky
<1>8. \A d \in Call : CallInv(d)'
  BY <1>1, <1>2, <1>3, <1>4, <1>5, <1>6, <1>7 DEF Next
<1> QED BY <1>0, <1>8 DEF IInv

LEMMA IInvInit == Init => IInv
<1> SUFFICES ASSUME Init PROVE IInv
  OBVIOUS
<1>1. TypeOK /\ HasOutcome
  BY TypeOKInit
<1>2. \A c \in Call : CallInv(c)
  BY DEF Init, CallInv, TrueRecord
<1> QED BY <1>1, <1>2 DEF IInv

LEMMA SpecInvariant == Spec => []IInv
BY IInvInit, IInvInductive, PTL DEF Spec

----------------------------------------------------------------------------
(* What follows of every call *)

\* The risk policy asks for consent wherever the documentation reserves the API
\* to the user.
LEMMA PolicyCoversReserved ==
  ASSUME NEW c \in Call, api[c] \in Api, NeedsUser(c)
  PROVE  Risky(c)
<1>1. Declared[api[c]] \in Declaration
  BY DeclarationsAssumption DEF DeclarationsAssumption
<1> QED
  BY <1>1 DEF NeedsUser, Risky, RequiresConsent, RiskOf, LevelByTopic, NoLabel,
     Declaration, Levels, Topics

\* What ran has a registered API.
LEMMA RanIsRegistered == IInv => \A c \in ran : api[c] \in Api
BY DEF IInv, TypeOK, CallInv, Before, Steps

\* Consent fails closed: a transaction or privacy API runs only in a call the
\* user approved, whatever the collaborators answer and whoever made the call.
THEOREM ConsentFailsClosed == Spec => []ApprovedBeforeRun
<1>1. IInv => ApprovedBeforeRun
  BY PolicyCoversReserved, RanIsRegistered DEF IInv, TypeOK, CallInv, ApprovedBeforeRun
<1> QED BY <1>1, SpecInvariant, PTL

\* The audit log tells what ran and what the user approved.
THEOREM AuditIsTrue == Spec => []RecordsAreTrue
<1>1. IInv => RecordsAreTrue
  BY DEF IInv, CallInv, TrueRecord, RecordsAreTrue
<1> QED BY <1>1, SpecInvariant, PTL

\* Only a refusing audit sink makes call_api answer an error that leaves no trace
\* of an execution.
THEOREM AnswersAreAudited == Spec => []AnswersMatchRecords
<1>1. IInv => AnswersMatchRecords
  BY DEF IInv, CallInv, AnswersMatchRecords
<1> QED BY <1>1, SpecInvariant, PTL

----------------------------------------------------------------------------
(* The orchestrator implements gated execution *)

RiskyCalls == {c \in Asked : Risky(c)}

Accounted == {c \in Call : log[c] # <<>>} \cup lost

Over == {c \in Asked : step[c] = "done"}

\* Every step of call_api asks, approves, runs or ends one call, or shows nothing.
LEMMA StepSimulation == IInv /\ [Next]_vars => [Gated!Next]_Gated!vars
<1> SUFFICES ASSUME IInv, [Next]_vars
             PROVE  [Gated!Next]_Gated!vars
  OBVIOUS
<1> DEFINE Rest == UNCHANGED <<approved, ran>>
           Same == /\ Asked' = Asked /\ RiskyCalls' = RiskyCalls
                   /\ Accounted' = Accounted /\ Over' = Over
<1>0. TypeOK
  BY DEF IInv
<1>stutter. Rest /\ Same => UNCHANGED Gated!vars
  BY DEF Gated!vars, RiskyCalls, Accounted, Over
<1>end. ASSUME NEW c \in Call, c \in Asked \ Over, Rest,
               Asked' = Asked, RiskyCalls' = RiskyCalls, Over' = Over \cup {c},
               \/ Accounted' = Accounted /\ c \notin ran
               \/ Accounted' = Accounted \cup {c}
        PROVE  Gated!Next
  <2>1. Gated!End(c)
    BY <1>end DEF Gated!End, RiskyCalls, Accounted, Over
  <2> QED BY <2>1 DEF Gated!Next
<1>1. ASSUME NEW c \in Call, NEW a \in Api \cup {UnknownApi},
             NEW from \in Call \cup {Host}, NEW valid \in BOOLEAN,
             Begin(c, a, from, valid)
      PROVE  [Gated!Next]_Gated!vars
  <2>1. /\ step[c] = "new" /\ step'[c] # "new" /\ api'[c] = a
        /\ \A d \in Call \ {c} : step'[d] = step[d] /\ api'[d] = api[d]
        /\ log' = log /\ lost' = lost /\ Rest
    BY <1>1 DEF IInv, TypeOK, Begin, Goto, Return, Record
  <2>2. Accounted' = Accounted
    BY <2>1 DEF Accounted
  <2>3. CASE a = UnknownApi
    <3>1. Same
      BY <2>1, <2>2, <2>3 DEF Asked, RiskyCalls, Over, Risky
    <3> QED BY <1>stutter, <2>1, <3>1
  <2>4. CASE a # UnknownApi
    <3>1. step'[c] # "done"
      BY <1>1, <2>4 DEF IInv, TypeOK, Begin, Goto, Record
    <3>2. c \notin Asked /\ Asked' = Asked \cup {c} /\ Over' = Over
      BY <2>1, <2>4, <3>1 DEF Asked, Over
    <3>3. RiskyCalls' \in {RiskyCalls, RiskyCalls \cup {c}}
      <4>1. \A d \in Asked : Risky(d)' = Risky(d)
        BY <2>1, <3>2 DEF Risky, Asked
      <4>2. CASE Risky(c)'
        BY <3>2, <4>1, <4>2 DEF RiskyCalls
      <4>3. CASE ~Risky(c)'
        BY <3>2, <4>1, <4>3 DEF RiskyCalls
      <4> QED BY <4>2, <4>3
    <3>4. Gated!Ask(c)
      BY <2>1, <2>2, <3>2, <3>3 DEF Gated!Ask, RiskyCalls, Accounted, Over
    <3> QED BY <3>4 DEF Gated!Next
  <2> QED BY <2>3, <2>4
<1>2. ASSUME NEW c \in Call, c \in Asked, step[c] # "done", UNCHANGED api,
             step'[c] \notin {"new", "done"},
             \A d \in Call \ {c} : step'[d] = step[d]
      PROVE  c \in Asked \ Over /\ Asked' = Asked /\ RiskyCalls' = RiskyCalls
             /\ Over' = Over
  BY <1>2 DEF Asked, RiskyCalls, Over, Risky
<1>3. ASSUME NEW c \in Call, c \in Asked, step[c] # "done", UNCHANGED api,
             step'[c] = "done", \A d \in Call \ {c} : step'[d] = step[d]
      PROVE  c \in Asked \ Over /\ Asked' = Asked /\ RiskyCalls' = RiskyCalls
             /\ Over' = Over \cup {c}
  BY <1>3 DEF Asked, RiskyCalls, Over, Risky
<1>4. ASSUME NEW c \in Call, step[c] \notin {"new", "done"}
      PROVE  c \in Asked
  BY <1>4 DEF Asked, IInv, CallInv
<1>5. ASSUME NEW c \in Call, NEW reply, Permission(c, reply)
      PROVE  [Gated!Next]_Gated!vars
  <2>1. /\ step[c] = "permission" /\ UNCHANGED api /\ Rest
        /\ \A d \in Call \ {c} : step'[d] = step[d]
        /\ Accounted' = Accounted
        /\ c \notin ran
    BY <1>5 DEF IInv, TypeOK, CallInv, Before, Permission, Goto, Return, Record,
       Accounted
  <2>2. CASE step'[c] = "done"
    BY <1>3, <1>4, <1>end, <2>1, <2>2
  <2>3. CASE step'[c] # "done"
    <3>1. step'[c] # "new"
      BY <1>0, <1>5 DEF TypeOK, Permission, Goto, Return, Record
    <3> QED BY <1>2, <1>4, <1>stutter, <2>1, <2>3, <3>1
  <2> QED BY <2>2, <2>3
<1>6. ASSUME NEW c \in Call, NEW reply, Consent(c, reply)
      PROVE  [Gated!Next]_Gated!vars
  <2>1. /\ step[c] = "consent" /\ UNCHANGED api /\ ran' = ran
        /\ \A d \in Call \ {c} : step'[d] = step[d]
        /\ Accounted' = Accounted
        /\ c \notin ran
    BY <1>6 DEF IInv, TypeOK, CallInv, Before, Consent, Goto, Return, Record,
       Accounted
  <2>2. CASE reply = "Approved"
    <3>1. approved' = approved \cup {c} /\ step'[c] = "execute"
      BY <1>0, <1>6, <2>2 DEF TypeOK, Consent, Goto
    <3>2. Gated!Approve(c)
      BY <1>2, <1>4, <2>1, <3>1 DEF Gated!Approve, RiskyCalls, Accounted, Over
    <3> QED BY <3>2 DEF Gated!Next
  <2>3. CASE reply = "Required"
    <3>1. approved' = approved /\ step'[c] = "audit"
      BY <1>0, <1>6, <2>3 DEF TypeOK, Consent, Record
    <3> QED BY <1>2, <1>4, <1>stutter, <2>1, <3>1
  <2>4. CASE reply = "Err"
    <3>1. approved' = approved /\ step'[c] = "done"
      BY <1>0, <1>6, <2>4 DEF TypeOK, Consent, Return
    <3> QED BY <1>3, <1>4, <1>end, <2>1, <3>1
  <2> QED BY <1>6, <2>2, <2>3, <2>4 DEF Consent
<1>7. ASSUME NEW c \in Call, NEW reply, Execute(c, reply)
      PROVE  [Gated!Next]_Gated!vars
  <2>1. /\ step[c] = "execute" /\ UNCHANGED <<api, approved>>
        /\ ran' = ran \cup {c}
        /\ \A d \in Call \ {c} : step'[d] = step[d]
        /\ step'[c] \in {"audit", "render"}
        /\ Accounted' = Accounted
    BY <1>7 DEF IInv, TypeOK, Execute, Goto, Record, Accounted
  <2>2. c \notin ran /\ (Risky(c) => c \in approved)
    BY <2>1 DEF IInv, CallInv, Before
  <2>3. Gated!Run(c)
    BY <1>2, <1>4, <2>1, <2>2 DEF Gated!Run, RiskyCalls, Accounted, Over
  <2> QED BY <2>3 DEF Gated!Next
<1>8. ASSUME NEW c \in Call, NEW rendered, Render(c, rendered)
      PROVE  [Gated!Next]_Gated!vars
  <2>1. /\ step[c] = "render" /\ step'[c] = "audit" /\ UNCHANGED api /\ Rest
        /\ \A d \in Call \ {c} : step'[d] = step[d]
        /\ Accounted' = Accounted
    BY <1>8 DEF IInv, TypeOK, Render, Record, Accounted
  <2> QED BY <1>2, <1>4, <1>stutter, <2>1
<1>9. ASSUME NEW c \in Call, NEW written \in BOOLEAN, Audit(c, written)
      PROVE  [Gated!Next]_Gated!vars
  <2>1. /\ step[c] = "audit" /\ step'[c] = "done" /\ UNCHANGED api /\ Rest
        /\ \A d \in Call \ {c} : step'[d] = step[d]
    BY <1>9 DEF IInv, TypeOK, Audit, Return
  <2>2. Accounted' = Accounted \cup {c}
    <3>1. CASE written
      <4>1. log' = [log EXCEPT ![c] = Append(log[c], RecordOf(c))] /\ lost' = lost
        BY <1>9, <3>1 DEF Audit
      <4>2. log'[c] # <<>>
        <5>1. log[c] = <<>>
          BY <2>1 DEF IInv, CallInv
        <5> QED BY <4>1, <5>1 DEF IInv, TypeOK
      <4>3. \A d \in Call \ {c} : log'[d] = log[d]
        BY <4>1 DEF IInv, TypeOK
      <4> QED BY <4>1, <4>2, <4>3 DEF Accounted
    <3>2. CASE ~written
      BY <1>9, <3>2 DEF Audit, Accounted
    <3> QED BY <3>1, <3>2
  <2> QED BY <1>3, <1>4, <1>end, <2>1, <2>2
<1>10. ASSUME UNCHANGED vars PROVE UNCHANGED Gated!vars
  <2>1. Rest /\ Same
    BY <1>10 DEF vars, Asked, RiskyCalls, Accounted, Over, Risky
  <2> QED BY <1>stutter, <2>1
<1> QED BY <1>1, <1>5, <1>6, <1>7, <1>8, <1>9, <1>10 DEF Next

\* call_api implements gated execution for every Skill: an approval belongs to
\* one call, a call runs at most once, and what ran is accounted for when its
\* call is over.
THEOREM Implements == Spec => ImplementsGatedExecution
<1>1. Init => Gated!Init
  BY DEF Init, Gated!Init, Asked
<1>2. Spec => Gated!Spec
  BY <1>1, StepSimulation, SpecInvariant, PTL DEF Spec, Gated!Spec
<1> QED BY <1>2 DEF ImplementsGatedExecution

----------------------------------------------------------------------------
(* Whom a command names *)

InputNames == {"document", "key", "user", "handle", "root"}

LEMMA MergeInput ==
  ASSUME NEW flags, NEW env, IsNaming(flags), IsNaming(env), NEW name \in InputNames
  PROVE  /\ Merge(flags, env)[name] = IF Given(flags[name]) THEN flags[name] ELSE env[name]
         /\ flags[name] # DefaultIdentity /\ env[name] # DefaultIdentity
BY DEF IsNaming, Merge, InputNames, NoInputs

\* The store has no entry of the default identity.
LEMMA StoredIdentity ==
  ASSUME NEW handle \in DOMAIN Store
  PROVE  FindIdentity(handle) # DefaultIdentity
<1> DEFINE entry == Store[handle]
<1>1. entry.index # DefaultIdentity /\ DefaultIdentity \notin entry.directories
  BY DockCliAssumption
<1>2. Nobody # DefaultIdentity
  BY DEF Nobody, DefaultIdentity
<1>3. CASE Given(entry.index)
  BY <1>1, <1>3 DEF FindIdentity
<1>4. CASE ~Given(entry.index) /\ Cardinality(entry.directories) = 1
  <2>1. entry.directories # {}
    BY <1>4, FS_EmptySet
  <2>2. (CHOOSE i \in entry.directories : TRUE) \in entry.directories
    BY <2>1
  <2> QED BY <1>1, <1>4, <2>2 DEF FindIdentity
<1>5. CASE ~Given(entry.index) /\ Cardinality(entry.directories) # 1
  BY <1>2, <1>5 DEF FindIdentity
<1> QED BY <1>3, <1>4, <1>5

LEMMA WithoutInputs ==
  ASSUME NEW inputs, IsNaming(inputs), \A name \in InputNames : ~Given(inputs[name])
  PROVE  inputs = NoInputs
BY DEF IsNaming, NoInputs, InputNames, Given

\* An identity that was found and may sign is the one that the flags name, and the
\* default one only when nobody named any.
LEMMA NamedIdentity ==
  ASSUME NEW flags, NEW env, IsNaming(flags), IsNaming(env),
         NEW who, who = ResolveIdentity(Merge(flags, env)),
         Given(who.document), who.user = who.document
  PROVE  /\ {flags.document, flags.user, IF Given(flags.handle) THEN FindIdentity(flags.handle) ELSE Nobody}
              \ {Nobody} \subseteq {who.user}
         /\ who.user = DefaultIdentity => flags = NoInputs /\ env = NoInputs
<1> DEFINE in == Merge(flags, env)
           Paths == Given(in.document) \/ Given(in.key) \/ Given(in.user)
           Stored == Given(in.handle) \/ Given(in.root)
           all(one) == [NoInputs EXCEPT !.document = one, !.key = one, !.user = one]
<1>1. \A name \in InputNames :
        /\ in[name] = IF Given(flags[name]) THEN flags[name] ELSE env[name]
        /\ flags[name] # DefaultIdentity /\ env[name] # DefaultIdentity
  BY MergeInput
<1>2. ~Given(NoInputs.document)
  BY DEF Given, NoInputs
<1>3. \A one : all(one).document = one /\ all(one).user = one
  BY DEF NoInputs
<1>4. CASE Paths
  <2>1. /\ Given(in.document) /\ ~Given(in.handle)
        /\ who = [NoInputs EXCEPT !.document = in.document, !.key = in.key,
                    !.user = IF Given(in.user) THEN in.user ELSE in.document]
    BY <1>2, <1>4 DEF ResolveIdentity
  <2>2. who.document = in.document /\ who.user = IF Given(in.user) THEN in.user ELSE in.document
    BY <2>1 DEF NoInputs
  <2> QED BY <1>1, <2>1, <2>2 DEF InputNames, Given
<1>5. CASE ~Paths /\ Stored
  <2>1. Given(in.handle) /\ who = all(FindIdentity(in.handle))
    BY <1>2, <1>5 DEF ResolveIdentity
  <2>2. who.user = FindIdentity(in.handle)
    BY <1>3, <2>1
  <2>3. in.handle \in DOMAIN Store
    BY <1>1, <2>1 DEF IsNaming, InputNames, Given
  <2>4. who.user # DefaultIdentity
    BY <2>2, <2>3, StoredIdentity
  <2>5. ~Given(flags.document) /\ ~Given(flags.user)
    BY <1>1, <1>5 DEF InputNames, Given
  <2>6. Given(flags.handle) => in.handle = flags.handle
    BY <1>1 DEF InputNames
  <2> QED BY <2>2, <2>4, <2>5, <2>6 DEF Given
<1>6. CASE ~Paths /\ ~Stored
  <2>1. \A name \in InputNames : ~Given(flags[name]) /\ ~Given(env[name])
    BY <1>1, <1>6 DEF InputNames, Given
  <2>2. flags = NoInputs /\ env = NoInputs
    BY <2>1, WithoutInputs
  <2> QED BY <2>1, <2>2 DEF InputNames, Given
<1> QED BY <1>4, <1>5, <1>6

----------------------------------------------------------------------------
(* What a process has done by the step it has reached *)

Resolved(c) ==
  /\ identity[c] = ResolveIdentity(Merge(command[c].flags, command[c].env))
  /\ Given(identity[c].document)

SignsAsItself(c) == identity[c].user = identity[c].document

\* A demo that is past its login has signed it.
DemoInv(c) ==
  command[c].run = "run-demo" =>
    /\ position[c] \in 1 .. 12
    /\ position[c] > 1 => Resolved(c)
    /\ position[c] > 3 => SignsAsItself(c)

\* A call-api works on its own arguments until it has its result.
CallApiInv(c) ==
  command[c].run = "call-api" =>
    /\ position[c] \in DOMAIN Script(c)
    /\ Doing(c) = command[c].api /\ printed[c] # "ok" => arguments[c] = command[c].args
    /\ IsRemote(command[c].args) =>
         /\ position[c] > 1 => Resolved(c)
         /\ printed[c] = "ok" => position[c] > 1 /\ SignsAsItself(c)

\* Only what may be signed is sent, and a process that has its result has its answer.
WireInv(c) ==
  /\ wire[c].state \in {"idle", "sent", "answered", "lost"}
  /\ wire[c].state # "idle" =>
       /\ command[c].run \in {"call-api", "run-demo"}
       /\ Doing(c) \in Requests
       /\ Signs(c)
       /\ printed[c] # "ok"

ProcessInv(c) == IsCommand(command[c]) /\ DemoInv(c) /\ CallApiInv(c) /\ WireInv(c)

\* The variables that have a value for each process.
Domains ==
  /\ DOMAIN command = Cli /\ DOMAIN position = Cli /\ DOMAIN wire = Cli /\ DOMAIN identity = Cli
  /\ DOMAIN card = Cli /\ DOMAIN arguments = Cli /\ DOMAIN audit = Cli /\ DOMAIN printed = Cli
  /\ DOMAIN served = Cli /\ DOMAIN hindered = Cli

ProcessesInv ==
  /\ Domains
  /\ turn \in DOMAIN Waiting => child \in Cli
  /\ \A c \in Cli : ProcessInv(c)

ProcessOf(c) ==
  <<command[c], position[c], wire[c], identity[c], card[c], arguments[c], printed[c], served[c]>>

LEMMA DemoScript ==
  ASSUME NEW c, command[c].run = "run-demo"
  PROVE  Script(c) = <<"resolve", "challenge", "login", "drinks", "confirm", "pay", "load",
                       "searchDrinks", "confirmOrder", "payOrder", "expire", "health">>
BY DEF Script

LEMMA ScriptOfCall ==
  ASSUME NEW remote \in BOOLEAN, NEW callee
  PROVE  (IF remote THEN <<"resolve">> ELSE <<>>) \o <<"load", callee>>
           = IF remote THEN <<"resolve", "load", callee>> ELSE <<"load", callee>>
  <1> DEFINE S == {"resolve", "load", callee}
             s == <<"resolve">>
             t == <<"load", callee>>
             all == <<"resolve", "load", callee>>
  <1>1. s \in Seq(S) /\ t \in Seq(S) /\ all \in Seq(S) /\ s \o t \in Seq(S)
    OBVIOUS
  <1>2. Len(s) = 1 /\ Len(t) = 2 /\ Len(all) = 3
    OBVIOUS
  <1>3. /\ Len(s \o t) = 3
        /\ \A i \in 1 .. 3 : (s \o t)[i] = IF i <= 1 THEN s[i] ELSE t[i - 1]
    BY <1>1, <1>2, ConcatProperties
  <1>4. \A i \in 1 .. 3 : (s \o t)[i] = all[i]
    <2>1. \A i \in 1 .. 3 : i = 1 \/ i = 2 \/ i = 3
      OBVIOUS
    <2>2. all[1] = s[1] /\ all[2] = t[1] /\ all[3] = t[2]
      OBVIOUS
    <2> QED BY <1>3, <2>1, <2>2
  <1>5. s \o t = all
    <2> HIDE DEF s, t, all, S
    <2> QED BY <1>1, <1>2, <1>3, <1>4, SeqEqual
  <1>6. <<>> \o t = t
    BY <1>1, ConcatEmptySeq
  <1> QED BY <1>5, <1>6

LEMMA CallApiScript ==
  ASSUME NEW c, command[c].run = "call-api"
  PROVE  Script(c) = IF IsRemote(command[c].args) THEN <<"resolve", "load", command[c].api>>
                                                  ELSE <<"load", command[c].api>>
BY ScriptOfCall DEF Script

\* The invariant is about one process at a time.
LEMMA ProcessInvStable ==
  ASSUME NEW c, ProcessInv(c), UNCHANGED ProcessOf(c)
  PROVE  ProcessInv(c)'
BY DEF ProcessInv, DemoInv, CallApiInv, WireInv, ProcessOf, Resolved, SignsAsItself, Signs, Doing, Script

LEMMA DemoDoing ==
  ASSUME NEW c, command[c].run = "run-demo", position[c] \in 1 .. 12
  PROVE  /\ Doing(c) = "resolve" <=> position[c] = 1
         /\ Doing(c) = "login" <=> position[c] = 3
         /\ Doing(c) = "load" <=> position[c] = 7
         /\ Doing(c) = "expire" <=> position[c] = 11
         /\ Doing(c) = "health" <=> position[c] = 12
         /\ Doing(c) \in Apis <=> position[c] \in 8 .. 10
<1>1. Doing(c) = <<"resolve", "challenge", "login", "drinks", "confirm", "pay", "load",
                   "searchDrinks", "confirmOrder", "payOrder", "expire", "health">>[position[c]]
  BY DemoScript DEF Doing
<1>2. \/ position[c] = 1 \/ position[c] = 2 \/ position[c] = 3 \/ position[c] = 4
      \/ position[c] = 5 \/ position[c] = 6 \/ position[c] = 7 \/ position[c] = 8
      \/ position[c] = 9 \/ position[c] = 10 \/ position[c] = 11 \/ position[c] = 12
  OBVIOUS
<1> QED BY <1>1, <1>2 DEF Apis

LEMMA CallApiDoing ==
  ASSUME NEW c, command[c].run = "call-api", IsCommand(command[c]), position[c] \in DOMAIN Script(c)
  PROVE  /\ position[c] \in 1 .. (IF IsRemote(command[c].args) THEN 3 ELSE 2)
         /\ Doing(c) = IF IsRemote(command[c].args)
                          THEN <<"resolve", "load", command[c].api>>[position[c]]
                          ELSE <<"load", command[c].api>>[position[c]]
         /\ Doing(c) = "resolve" <=> IsRemote(command[c].args) /\ position[c] = 1
         /\ Doing(c) = "load" <=> position[c] = IF IsRemote(command[c].args) THEN 2 ELSE 1
         /\ Doing(c) = command[c].api <=> position[c] = IF IsRemote(command[c].args) THEN 3 ELSE 2
         /\ command[c].api \in Apis
<1>1. command[c].api \in Apis
  BY DEF IsCommand
<1>2. CASE IsRemote(command[c].args)
  <2>1. Script(c) = <<"resolve", "load", command[c].api>>
    BY <1>2, CallApiScript
  <2>2. position[c] = 1 \/ position[c] = 2 \/ position[c] = 3
    BY <2>1
  <2> QED BY <1>1, <1>2, <2>1, <2>2 DEF Doing, Apis
<1>3. CASE ~IsRemote(command[c].args)
  <2>1. Script(c) = <<"load", command[c].api>>
    BY <1>3, CallApiScript
  <2>2. position[c] = 1 \/ position[c] = 2
    BY <2>1
  <2> QED BY <1>1, <1>3, <2>1, <2>2 DEF Doing, Apis
<1> QED BY <1>2, <1>3

\* A process that stays where it is, or ends with an error, has what it had.
LEMMA Stays ==
  ASSUME NEW c, ProcessInv(c), UNCHANGED <<command[c], position[c], identity[c], arguments[c]>>,
         printed'[c] = printed[c] \/ (printed[c] # "ok" /\ printed'[c] = "error")
  PROVE  /\ IsCommand(command[c])' /\ DemoInv(c)' /\ CallApiInv(c)'
         /\ Doing(c)' = Doing(c) /\ Signs(c)' = Signs(c)
<1>1. Script(c)' = Script(c) /\ Doing(c)' = Doing(c)
  BY DEF Doing, Script
<1>2. Signs(c)' = Signs(c)
  BY <1>1 DEF Signs
<1>3. CallApiInv(c)'
  <2>1. Resolved(c)' = Resolved(c) /\ SignsAsItself(c)' = SignsAsItself(c)
    BY DEF Resolved, SignsAsItself
  <2>2. printed'[c] = "ok" <=> printed[c] = "ok"
    OBVIOUS
  <2> QED BY <1>1, <2>1, <2>2 DEF ProcessInv, CallApiInv
<1> QED BY <1>1, <1>2, <1>3 DEF ProcessInv, DemoInv, Resolved, SignsAsItself

\* A step of one process is no step of another.
LEMMA OthersStay ==
  ASSUME Domains, NEW c \in Cli, ProcessStep(c)
  PROVE  Domains' /\ UNCHANGED command /\ \A d \in Cli \ {c} : UNCHANGED ProcessOf(d)
<1> USE DEF Domains, ProcessOf
<1>1. CASE ValidatePackage(c)
  BY <1>1 DEF ValidatePackage, local, server
<1>2. CASE PreviewComponent(c)
  BY <1>2 DEF PreviewComponent, server
<1>3. ASSUME NEW fine \in BOOLEAN, Resolve(c, fine)
      PROVE  Domains' /\ UNCHANGED command /\ \A d \in Cli \ {c} : UNCHANGED ProcessOf(d)
  BY <1>3 DEF Resolve, Proceed, Fail, Hinder, server
<1>4. ASSUME NEW fine \in BOOLEAN, LoadHarness(c, fine)
      PROVE  Domains' /\ UNCHANGED command /\ \A d \in Cli \ {c} : UNCHANGED ProcessOf(d)
  BY <1>4 DEF LoadHarness, Proceed, Fail, Hinder, server
<1>5. ASSUME NEW fine \in BOOLEAN, Expire(c, fine)
      PROVE  Domains' /\ UNCHANGED command /\ \A d \in Cli \ {c} : UNCHANGED ProcessOf(d)
  BY <1>5 DEF Expire, Proceed, Fail, Hinder, server, local
<1>6. CASE Send(c)
  BY <1>6 DEF Send, local, server
<1>7. CASE CannotSend(c)
  BY <1>7 DEF CannotSend, Fail, Hinder, local, server
<1>8. CASE Serve(c)
  BY <1>8 DEF Serve, ServeConfirm, ServePay, Effect, Reply, Hinder, local, server
<1>9. CASE Refuse(c)
  BY <1>9 DEF Refuse, Reply, Hinder, local, server
<1>10. CASE GiveUp(c)
  BY <1>10 DEF GiveUp, Fail, Hinder, local, server
<1>11. CASE Receive(c)
  BY <1>11 DEF Receive, Fail, Succeed, Proceed, local, server
<1>12. ASSUME NEW callee \in Apis, NEW fine \in BOOLEAN, CallApi(c, callee, fine)
       PROVE  Domains' /\ UNCHANGED command /\ \A d \in Cli \ {c} : UNCHANGED ProcessOf(d)
  BY <1>12 DEF CallApi, Fail, Succeed, Proceed, Hinder, server
<1> QED BY <1>1, <1>2, <1>3, <1>4, <1>5, <1>6, <1>7, <1>8, <1>9, <1>10, <1>11, <1>12 DEF ProcessStep

\* The next step of a demo, or of a call-api: it was not at its last one.
LEMMA Proceeds ==
  ASSUME NEW c \in Cli, DOMAIN position = Cli, ProcessInv(c), Proceed(c), UNCHANGED command,
         wire'[c].state = "idle",
         command[c].run \in {"call-api", "run-demo"},
         Doing(c) # "health", command[c].run = "call-api" => Doing(c) # command[c].api,
         Resolved(c)' \/ (position[c] = 1 /\ Doing(c) # "resolve"),
         Doing(c) # "resolve" => UNCHANGED identity[c],
         Doing(c) = "login" => SignsAsItself(c),
         Doing(c) = "load" /\ command[c].run = "call-api" => arguments'[c] = command[c].args,
         printed[c] = "none"
  PROVE  ProcessInv(c)'
<1>1. position'[c] = position[c] + 1 /\ printed'[c] = "none"
  BY DEF Proceed
<1>2. WireInv(c)' /\ IsCommand(command[c])'
  BY DEF WireInv, ProcessInv
<1>3. ASSUME command[c].run = "run-demo"
      PROVE  DemoInv(c)' /\ CallApiInv(c)'
  <2>1. position[c] \in 1 .. 12
    BY <1>3 DEF ProcessInv, DemoInv
  <2>2. /\ position[c] # 12
        /\ Doing(c) = "resolve" <=> position[c] = 1
        /\ Doing(c) = "login" <=> position[c] = 3
    BY <1>3, <2>1, DemoDoing
  <2>3. position'[c] > 3 => SignsAsItself(c)'
    BY <1>1, <1>3, <2>1, <2>2 DEF ProcessInv, DemoInv, SignsAsItself
  <2> QED BY <1>1, <1>3, <2>1, <2>2, <2>3 DEF DemoInv, CallApiInv
<1>4. ASSUME command[c].run = "call-api"
      PROVE  DemoInv(c)' /\ CallApiInv(c)'
  <2> DEFINE remote == IsRemote(command[c].args)
  <2>1. Script(c)' = Script(c)
    BY DEF Script
  <2>2. /\ position[c] \in 1 .. (IF remote THEN 3 ELSE 2)
        /\ Doing(c) = "resolve" <=> remote /\ position[c] = 1
        /\ Doing(c) = "load" <=> position[c] = IF remote THEN 2 ELSE 1
        /\ Doing(c) = command[c].api <=> position[c] = IF remote THEN 3 ELSE 2
    BY <1>4, CallApiDoing DEF ProcessInv, CallApiInv
  <2>3. Script(c) = IF remote THEN <<"resolve", "load", command[c].api>> ELSE <<"load", command[c].api>>
    BY <1>4, CallApiScript
  <2>4. /\ position'[c] \in DOMAIN Script(c)'
        /\ Doing(c)' = command'[c].api => Doing(c) = "load"
    <3>1. Doing(c)' = Script(c)[position[c] + 1] /\ command'[c] = command[c]
      BY <1>1, <2>1 DEF Doing
    <3>2. command[c].api \in Apis
      BY <1>4 DEF ProcessInv, IsCommand
    <3>3. CASE remote
      <4>1. position[c] = 1 \/ position[c] = 2
        BY <1>4, <2>2, <3>3
      <4> QED BY <1>1, <2>1, <2>2, <2>3, <3>1, <3>2, <3>3, <4>1 DEF Apis
    <3>4. CASE ~remote
      <4>1. position[c] = 1
        BY <1>4, <2>2, <3>4
      <4> QED BY <1>1, <2>1, <2>2, <2>3, <3>1, <3>2, <3>4, <4>1 DEF Apis
    <3> QED BY <3>3, <3>4
  <2>5. remote => Resolved(c)'
    BY <1>4, <2>2
  <2> QED BY <1>1, <1>4, <2>4, <2>5 DEF DemoInv, CallApiInv
<1> QED BY <1>2, <1>3, <1>4 DEF ProcessInv

\* Past its first step a demo has its identity, and a call-api that needs one has it
\* when it loads the Skill.
LEMMA HasIdentity ==
  ASSUME NEW c, ProcessInv(c), Doing(c) # "resolve",
         command[c].run = "run-demo" \/ (command[c].run = "call-api" /\ Doing(c) = "load")
  PROVE  Resolved(c) \/ position[c] = 1
<1>1. CASE command[c].run = "run-demo"
  <2>1. position[c] \in 1 .. 12
    BY <1>1 DEF ProcessInv, DemoInv
  <2> QED BY <1>1, <2>1, DemoDoing DEF ProcessInv, DemoInv
<1>2. CASE command[c].run = "call-api"
  <2>1. /\ position[c] \in 1 .. (IF IsRemote(command[c].args) THEN 3 ELSE 2)
        /\ Doing(c) = "load" <=> position[c] = IF IsRemote(command[c].args) THEN 2 ELSE 1
        /\ Doing(c) = command[c].api <=> position[c] = IF IsRemote(command[c].args) THEN 3 ELSE 2
    BY <1>2, CallApiDoing DEF ProcessInv, CallApiInv
  <2> QED BY <1>2, <2>1 DEF ProcessInv, CallApiInv
<1> QED BY <1>1, <1>2

LEMMA ApiSteps ==
  ASSUME NEW c, ProcessInv(c), command[c].run \in {"call-api", "run-demo"}
  PROVE  /\ command[c].run = "call-api" => command[c].api \in Apis /\ Doing(c) \in {"resolve", "load", command[c].api}
         /\ {"resolve", "load", "expire"} \cap Requests = {}
         /\ Apis \subseteq Requests /\ "health" \notin Apis
<1>1. command[c].run = "call-api" => command[c].api \in Apis /\ Doing(c) \in {"resolve", "load", command[c].api}
  <2> SUFFICES ASSUME command[c].run = "call-api"
               PROVE  command[c].api \in Apis /\ Doing(c) \in {"resolve", "load", command[c].api}
    OBVIOUS
  <2>1. /\ position[c] \in 1 .. (IF IsRemote(command[c].args) THEN 3 ELSE 2)
        /\ Doing(c) = IF IsRemote(command[c].args)
                         THEN <<"resolve", "load", command[c].api>>[position[c]]
                         ELSE <<"load", command[c].api>>[position[c]]
        /\ command[c].api \in Apis
    BY CallApiDoing DEF ProcessInv, CallApiInv
  <2>2. CASE IsRemote(command[c].args)
    <3>1. position[c] = 1 \/ position[c] = 2 \/ position[c] = 3
      BY <2>1, <2>2
    <3> QED BY <2>1, <2>2, <3>1
  <2>3. CASE ~IsRemote(command[c].args)
    <3>1. position[c] = 1 \/ position[c] = 2
      BY <2>1, <2>3
    <3> QED BY <2>1, <2>3, <3>1
  <2> QED BY <2>2, <2>3
<1> QED BY <1>1 DEF Requests, Apis

\* Whatever a process does keeps its invariant.
LEMMA OwnStep ==
  ASSUME Domains, NEW c \in Cli, ProcessInv(c), ProcessStep(c)
  PROVE  ProcessInv(c)'
<1> DEFINE active == command[c].run \in {"call-api", "run-demo"}
<1>0. /\ DOMAIN command = Cli /\ DOMAIN position = Cli /\ DOMAIN wire = Cli /\ DOMAIN identity = Cli
      /\ DOMAIN arguments = Cli /\ DOMAIN printed = Cli
  BY DEF Domains
<1>1. UNCHANGED command
  BY OthersStay
<1>2. CASE ValidatePackage(c) \/ PreviewComponent(c)
  <2>1. ~active /\ UNCHANGED wire
    BY <1>2 DEF ValidatePackage, PreviewComponent
  <2> QED BY <1>1, <2>1 DEF ProcessInv, DemoInv, CallApiInv, WireInv
<1>3. ASSUME NEW fine \in BOOLEAN, Resolve(c, fine)
      PROVE  ProcessInv(c)'
  <2>1. active /\ printed[c] = "none" /\ Doing(c) = "resolve" /\ UNCHANGED <<wire, arguments>>
    BY <1>3 DEF Resolve, At, IsBusy
  <2>2. wire[c].state = "idle"
    BY <2>1, ApiSteps DEF ProcessInv, WireInv
  <2>3. CASE Proceed(c)
    <3>1. Resolved(c)'
      BY <1>0, <1>1, <1>3, <2>1, <2>3 DEF Resolve, Proceed, Fail, Resolved
    <3> QED BY <1>0, <1>1, <2>1, <2>2, <2>3, <3>1, ApiSteps, Proceeds DEF Apis
  <2>4. CASE ~Proceed(c)
    <3>1. Fail(c) /\ UNCHANGED identity
      BY <1>3, <2>4 DEF Resolve
    <3>2. /\ IsCommand(command[c])' /\ DemoInv(c)' /\ CallApiInv(c)'
      BY <1>0, <1>1, <2>1, <3>1, Stays DEF Fail
    <3> QED BY <2>1, <2>2, <3>2 DEF ProcessInv, WireInv
  <2> QED BY <2>3, <2>4
<1>4. ASSUME NEW fine \in BOOLEAN, LoadHarness(c, fine)
      PROVE  ProcessInv(c)'
  <2>1. active /\ printed[c] = "none" /\ Doing(c) = "load" /\ UNCHANGED <<wire, identity>>
    BY <1>4 DEF LoadHarness, At, IsBusy
  <2>2. wire[c].state = "idle"
    BY <2>1, ApiSteps DEF ProcessInv, WireInv
  <2>3. command[c].run = "call-api" => arguments'[c] = command[c].args
    BY <1>0, <1>4 DEF LoadHarness
  <2>4. Resolved(c)' \/ position[c] = 1
    <3>1. Resolved(c)' = Resolved(c)
      BY <1>1, <2>1 DEF Resolved
    <3> QED BY <2>1, <3>1, HasIdentity
  <2>5. CASE Proceed(c)
    BY <1>0, <1>1, <2>1, <2>2, <2>3, <2>4, <2>5, ApiSteps, Proceeds DEF Apis
  <2>6. CASE ~Proceed(c)
    <3>1. Fail(c)
      BY <1>4, <2>6 DEF LoadHarness
    <3>2. UNCHANGED position /\ printed'[c] = "error"
      BY <1>0, <3>1 DEF Fail
    <3>3. Script(c)' = Script(c) /\ Doing(c)' = "load"
      BY <1>1, <2>1, <3>2 DEF Doing, Script
    <3>4. CallApiInv(c)'
      BY <1>1, <2>1, <2>3, <3>2, <3>3 DEF ProcessInv, CallApiInv, Resolved, SignsAsItself
    <3>5. DemoInv(c)'
      BY <1>1, <2>1, <3>2 DEF ProcessInv, DemoInv, Resolved, SignsAsItself
    <3> QED BY <1>1, <2>1, <2>2, <3>4, <3>5 DEF ProcessInv, WireInv
  <2> QED BY <2>5, <2>6
<1>5. ASSUME NEW fine \in BOOLEAN, Expire(c, fine)
      PROVE  ProcessInv(c)'
  <2>1. active /\ printed[c] = "none" /\ Doing(c) = "expire" /\ UNCHANGED <<wire, identity, arguments>>
    BY <1>5 DEF Expire, At, IsBusy, local
  <2>2. wire[c].state = "idle"
    BY <2>1, ApiSteps DEF ProcessInv, WireInv
  <2>3. command[c].run = "run-demo"
    BY <2>1, ApiSteps DEF Apis
  <2>4. Resolved(c)' \/ position[c] = 1
    <3>1. Resolved(c)' = Resolved(c)
      BY <1>1, <2>1 DEF Resolved
    <3> QED BY <2>1, <2>3, <3>1, HasIdentity
  <2>5. CASE Proceed(c)
    BY <1>0, <1>1, <2>1, <2>2, <2>3, <2>4, <2>5, Proceeds
  <2>6. CASE ~Proceed(c)
    <3>1. Fail(c)
      BY <1>5, <2>6 DEF Expire
    <3>2. /\ IsCommand(command[c])' /\ DemoInv(c)' /\ CallApiInv(c)'
      BY <1>0, <1>1, <2>1, <3>1, Stays DEF Fail
    <3> QED BY <2>1, <2>2, <3>2 DEF ProcessInv, WireInv
  <2> QED BY <2>5, <2>6
<1>6. CASE Send(c)
  <2>1. /\ UNCHANGED <<position, identity, arguments, printed>> /\ wire'[c].state = "sent"
        /\ active /\ Doing(c) \in Requests /\ Signs(c) /\ printed[c] = "none"
    BY <1>0, <1>6 DEF Send, local, Request, IsBusy
  <2>2. /\ IsCommand(command[c])' /\ DemoInv(c)' /\ CallApiInv(c)'
        /\ Doing(c)' = Doing(c) /\ Signs(c)' = Signs(c)
    BY <1>1, <2>1, Stays
  <2> QED BY <1>1, <2>1, <2>2 DEF ProcessInv, WireInv
<1>7. CASE CannotSend(c)
  <2>1. /\ UNCHANGED <<wire, position, identity, arguments>> /\ wire[c].state = "idle"
        /\ printed[c] = "none" /\ printed'[c] = "error"
    BY <1>0, <1>7 DEF CannotSend, local, Fail, IsBusy
  <2>2. /\ IsCommand(command[c])' /\ DemoInv(c)' /\ CallApiInv(c)'
    BY <1>1, <2>1, Stays
  <2> QED BY <2>1, <2>2 DEF ProcessInv, WireInv
<1>8. CASE Serve(c) \/ Refuse(c)
  <2>1. /\ UNCHANGED <<position, identity, arguments, printed>>
        /\ wire[c].state = "sent" /\ wire'[c].state = "answered"
    <3>1. wire[c].state = "sent" /\ UNCHANGED <<position, identity, arguments, printed>>
      BY <1>8 DEF Serve, Refuse, local
    <3>2. \E reply : Reply(c, reply)
      BY <1>8 DEF Serve, ServeConfirm, ServePay, Refuse
    <3> QED BY <1>0, <3>1, <3>2 DEF Reply, Request
  <2>2. /\ IsCommand(command[c])' /\ DemoInv(c)' /\ CallApiInv(c)'
        /\ Doing(c)' = Doing(c) /\ Signs(c)' = Signs(c)
    BY <1>1, <2>1, Stays
  <2> QED BY <1>1, <2>1, <2>2 DEF ProcessInv, WireInv
<1>9. CASE GiveUp(c)
  <2>1. /\ UNCHANGED <<wire, position, identity, arguments>>
        /\ printed[c] = "none" /\ printed'[c] = "error"
    BY <1>0, <1>9 DEF GiveUp, local, Fail
  <2>2. /\ IsCommand(command[c])' /\ DemoInv(c)' /\ CallApiInv(c)'
        /\ Doing(c)' = Doing(c) /\ Signs(c)' = Signs(c)
    BY <1>1, <2>1, Stays
  <2> QED BY <1>1, <2>1, <2>2 DEF ProcessInv, WireInv
<1>10. CASE Receive(c)
  <2>1. /\ UNCHANGED <<identity, arguments>> /\ wire'[c].state = "idle" /\ wire[c].state = "answered"
        /\ active /\ printed[c] = "none" /\ Doing(c) \in Requests \ Apis
    BY <1>0, <1>10 DEF Receive, local, Request, IsBusy
  <2>2. command[c].run = "run-demo" /\ Doing(c) \notin {"resolve", "load"}
    BY <2>1, ApiSteps
  <2>3. Resolved(c)' \/ position[c] = 1
    <3>1. Resolved(c)' = Resolved(c)
      BY <1>1, <2>1 DEF Resolved
    <3> QED BY <2>1, <2>2, <3>1, HasIdentity
  <2>4. Doing(c) = "login" => SignsAsItself(c)
    BY <2>1 DEF ProcessInv, WireInv, Signs, Signed, SignsAsItself
  <2>5. CASE Doing(c) # "health" /\ Proceed(c)
    BY <1>0, <1>1, <2>1, <2>2, <2>3, <2>4, <2>5, Proceeds
  <2>6. CASE Fail(c) \/ Succeed(c)
    <3>1. UNCHANGED position
      BY <2>6 DEF Fail, Succeed
    <3>2. DemoInv(c)' /\ CallApiInv(c)'
      BY <1>1, <2>1, <2>2, <3>1 DEF ProcessInv, DemoInv, CallApiInv, Resolved, SignsAsItself
    <3> QED BY <1>1, <2>1, <3>2 DEF ProcessInv, WireInv
  <2> QED BY <1>10, <2>5, <2>6 DEF Receive
<1>11. ASSUME NEW callee \in Apis, NEW fine \in BOOLEAN, CallApi(c, callee, fine)
       PROVE  ProcessInv(c)'
  <2>1. /\ UNCHANGED identity /\ wire'[c].state = "idle" /\ active /\ printed[c] = "none"
        /\ Doing(c) = callee
        /\ IsRemote(arguments[c]) => wire[c].state = "answered"
    BY <1>0, <1>11 DEF CallApi, Request, At, IsBusy
  <2>2. Doing(c) \notin {"resolve", "load", "health", "login"}
    BY <2>1 DEF Apis
  <2>4. IsRemote(arguments[c]) => SignsAsItself(c)
    BY <2>1 DEF ProcessInv, WireInv, Signs, Signed, SignsAsItself
  <2>5. CASE command[c].run = "run-demo" /\ Proceed(c)
    <3>1. Resolved(c)' = Resolved(c)
      BY <1>1, <2>1 DEF Resolved
    <3> QED BY <1>0, <1>1, <2>1, <2>2, <2>5, <3>1, HasIdentity, Proceeds
  <2>6. CASE command[c].run = "run-demo" /\ Fail(c)
    <3>1. UNCHANGED position
      BY <2>6 DEF Fail
    <3>2. DemoInv(c)' /\ CallApiInv(c)'
      BY <1>1, <2>1, <2>6, <3>1 DEF ProcessInv, DemoInv, CallApiInv, Resolved, SignsAsItself
    <3> QED BY <1>1, <2>1, <3>2 DEF ProcessInv, WireInv
  <2>7. CASE command[c].run = "call-api"
    <3>1. Doing(c) = command[c].api /\ arguments[c] = command[c].args
      BY <2>1, <2>2, <2>7, ApiSteps DEF ProcessInv, CallApiInv
    <3>2. CASE Fail(c) /\ UNCHANGED arguments
      <4>1. /\ IsCommand(command[c])' /\ DemoInv(c)' /\ CallApiInv(c)'
        BY <1>0, <1>1, <2>1, <3>2, Stays DEF Fail
      <4> QED BY <2>1, <4>1 DEF ProcessInv, WireInv
    <3>3. CASE Succeed(c)
      <4>1. UNCHANGED position /\ printed'[c] = "ok"
        BY <1>0, <3>3 DEF Succeed
      <4>2. Script(c)' = Script(c)
        BY <1>1 DEF Script
      <4>3. Resolved(c)' = Resolved(c) /\ SignsAsItself(c)' = SignsAsItself(c)
        BY <1>1, <2>1 DEF Resolved, SignsAsItself
      <4>4. IsRemote(command[c].args) => position[c] > 1
        <5>1. IsCommand(command[c]) /\ position[c] \in DOMAIN Script(c)
          BY <2>7 DEF ProcessInv, CallApiInv
        <5>2. Doing(c) = command[c].api <=> position[c] = IF IsRemote(command[c].args) THEN 3 ELSE 2
          BY <2>7, <5>1, CallApiDoing
        <5> QED BY <3>1, <5>2
      <4>5. DemoInv(c)' /\ CallApiInv(c)'
        BY <1>1, <2>4, <2>7, <3>1, <4>1, <4>2, <4>3, <4>4 DEF ProcessInv, DemoInv, CallApiInv
      <4> QED BY <1>1, <2>1, <4>5 DEF ProcessInv, WireInv
    <3> QED BY <1>11, <2>7, <3>2, <3>3 DEF CallApi
  <2> QED BY <1>11, <2>1, <2>5, <2>6, <2>7 DEF CallApi
<1> QED BY <1>2, <1>3, <1>4, <1>5, <1>6, <1>7, <1>8, <1>9, <1>10, <1>11 DEF ProcessStep

\* A process that begins has done nothing.
LEMMA Fresh ==
  ASSUME NEW c, IsCommand(command'[c]), position'[c] = 1, printed'[c] = "none", wire'[c].state = "idle"
  PROVE  ProcessInv(c)'
<1>1. DemoInv(c)' /\ WireInv(c)'
  BY DEF DemoInv, WireInv
<1>2. CallApiInv(c)'
  <2> SUFFICES ASSUME command'[c].run = "call-api"
               PROVE  CallApiInv(c)'
    BY DEF CallApiInv
  <2> DEFINE args == command'[c].args
             callee == command'[c].api
  <2>1. Script(c)' = (IF IsRemote(args) THEN <<"resolve">> ELSE <<>>) \o <<"load", callee>>
    BY DEF Script
  <2>2. Script(c)' = IF IsRemote(args) THEN <<"resolve", "load", callee>> ELSE <<"load", callee>>
    BY <2>1, ScriptOfCall
  <2>3. callee \in Apis
    BY DEF IsCommand
  <2>4. Doing(c)' = Script(c)'[1]
    BY DEF Doing
  <2>5. Script(c)'[1] # callee /\ 1 \in DOMAIN Script(c)'
    BY <2>2, <2>3 DEF Apis
  <2> QED BY <2>4, <2>5 DEF CallApiInv
<1> QED BY <1>1, <1>2 DEF ProcessInv

\* The server stops, or is started anew: what was on its way is lost.
LEMMA StopsQuietly ==
  ASSUME ProcessesInv, wire' = Unanswered,
         UNCHANGED <<command, position, identity, card, arguments, audit, printed, served>>,
         DOMAIN hindered' = Cli
  PROVE  Domains' /\ \A c \in Cli : ProcessInv(c)'
<1>1. Domains'
  BY DEF ProcessesInv, Domains, Unanswered
<1>2. ASSUME NEW c \in Cli
      PROVE  ProcessInv(c)'
  <2>1. ProcessInv(c)
    BY DEF ProcessesInv
  <2>2. /\ wire'[c].state \in {"idle", "answered", "lost"}
        /\ wire'[c].state # "idle" => wire[c].state # "idle"
    BY <2>1 DEF Unanswered, Request, ProcessInv, WireInv
  <2>3. /\ IsCommand(command[c])' /\ DemoInv(c)' /\ CallApiInv(c)'
        /\ Doing(c)' = Doing(c) /\ Signs(c)' = Signs(c)
    BY <2>1, Stays
  <2> QED BY <2>1, <2>2, <2>3 DEF ProcessInv, WireInv
<1> QED BY <1>1, <1>2

\* One process begins anew; the others have lost a request at most.
LEMMA Begun ==
  ASSUME ProcessesInv, NEW c \in Cli, NEW it, IsCommand(it), Begins(c, it),
         \/ wire' = [wire EXCEPT ![c] = Quiet]
         \/ wire' = Unanswered /\ wire[c].state = "idle"
  PROVE  Domains' /\ \A d \in Cli : ProcessInv(d)'
<1>1. Domains'
  BY DEF ProcessesInv, Domains, Begins, Unanswered
<1>2. ProcessInv(c)'
  <2>1. wire'[c].state = "idle"
    BY DEF ProcessesInv, Domains, Unanswered, Quiet, Request
  <2>2. command'[c] = it /\ position'[c] = 1 /\ printed'[c] = "none"
    BY DEF ProcessesInv, Domains, Begins
  <2> QED BY <2>1, <2>2, Fresh
<1>3. ASSUME NEW d \in Cli, d # c
      PROVE  ProcessInv(d)'
  <2>1. ProcessInv(d)
    BY DEF ProcessesInv
  <2>2. UNCHANGED <<command[d], position[d], identity[d], card[d], arguments[d], printed[d], served[d]>>
    BY <1>3 DEF ProcessesInv, Domains, Begins
  <2>3. \/ wire'[d] = wire[d]
        \/ wire'[d].state = "lost" /\ wire[d].state = "sent"
    BY <1>3 DEF ProcessesInv, Domains, Unanswered, Request
  <2>4. /\ IsCommand(command[d])' /\ DemoInv(d)' /\ CallApiInv(d)'
        /\ Doing(d)' = Doing(d) /\ Signs(d)' = Signs(d)
    BY <2>1, <2>2, Stays
  <2> QED BY <2>1, <2>2, <2>3, <2>4 DEF ProcessInv, WireInv
<1> QED BY <1>1, <1>2, <1>3

LEMMA Commanded ==
  /\ IsCommand(Idle)
  /\ \A callee \in Apis : \A args : IsCommand(ApiCall(callee, args, NoInputs))
<1>1. IsNaming(NoInputs)
  <2>1. Nobody \in Range(NoInputs) \ {DefaultIdentity}
    BY DEF Range, NoInputs, Nobody, DefaultIdentity
  <2>2. DOMAIN NoInputs = InputNames
    BY DEF NoInputs, InputNames
  <2>3. NoInputs \in [InputNames -> Range(NoInputs) \ {DefaultIdentity}]
    BY <2>1 DEF NoInputs, InputNames
  <2>4. NoInputs.handle = Nobody
    BY DEF NoInputs
  <2> QED BY <2>2, <2>3, <2>4 DEF IsNaming
<1>2. IsCommand(Idle)
  BY DEF IsCommand, Idle
<1>3. ASSUME NEW callee \in Apis, NEW args
      PROVE  IsCommand(ApiCall(callee, args, NoInputs))
  <2>1. /\ ApiCall(callee, args, NoInputs).flags = NoInputs /\ ApiCall(callee, args, NoInputs).env = NoInputs
        /\ ApiCall(callee, args, NoInputs).api = callee
        /\ ApiCall(callee, args, NoInputs).run = "call-api"
    BY DEF ApiCall
  <2> QED BY <1>1, <2>1 DEF IsCommand
<1> QED BY <1>2, <1>3

LEMMA ChildBegins ==
  ASSUME ProcessesInv, NEW callee \in Apis, NEW args, RunChild(callee, args)
  PROVE  Domains' /\ child' \in Cli /\ \A d \in Cli : ProcessInv(d)'
<1> DEFINE vacant == {c \in Cli : wire[c].state # "sent"}
<1>1. PICK c \in vacant : /\ child' = c /\ wire' = [wire EXCEPT ![c] = Quiet]
                          /\ Begins(c, ApiCall(callee, args, NoInputs))
  BY DEF RunChild
<1> QED BY <1>1, Begun, Commanded

LEMMA ProcessesInvInductive ==
  ProcessesInv /\ [ChatNext]_<<cliVars, chat, up>> => ProcessesInv'
<1> SUFFICES ASSUME ProcessesInv, [ChatNext]_<<cliVars, chat, up>>
             PROVE  ProcessesInv'
  OBVIOUS
<1> DEFINE Each == Domains' /\ \A c \in Cli : ProcessInv(c)'
<1>1. CASE CliStep
  <2>1. PICK c \in Cli : ProcessStep(c)
    BY <1>1 DEF CliStep
  <2>2. Domains' /\ \A d \in Cli \ {c} : UNCHANGED ProcessOf(d)
    BY <2>1, OthersStay DEF ProcessesInv
  <2>3. ProcessInv(c)'
    BY <2>1, OwnStep DEF ProcessesInv
  <2>4. \A d \in Cli \ {c} : ProcessInv(d)'
    BY <2>2, ProcessInvStable DEF ProcessesInv
  <2>5. UNCHANGED <<turn, child>>
    BY <1>1 DEF CliStep, chat
  <2> QED BY <2>2, <2>3, <2>4, <2>5 DEF ProcessesInv
<1>2. CASE turn = "closed" /\ Restart /\ UNCHANGED <<chat, up>>
  <2>1. Each
    BY <1>2, StopsQuietly DEF Restart, Unanswered, local
  <2> QED BY <1>2, <2>1 DEF ProcessesInv, chat

<1>3. ASSUME UNCHANGED <<command, position, wire, local, printed, served>>, DOMAIN hindered' = Cli,
             turn' \in DOMAIN Waiting => child' \in Cli
      PROVE  ProcessesInv'
  <2>1. Domains' /\ \A d \in Cli : UNCHANGED ProcessOf(d)
    BY <1>3 DEF ProcessesInv, Domains, ProcessOf, local
  <2> QED BY <1>3, <2>1, ProcessInvStable DEF ProcessesInv
<1>4. ASSUME wire' = Unanswered, UNCHANGED <<command, position, local, printed, served, hindered>>,
             turn' \in DOMAIN Waiting => child' \in Cli
      PROVE  ProcessesInv'
  <2>1. Each
    BY <1>4, StopsQuietly DEF local, ProcessesInv, Domains
  <2> QED BY <1>4, <2>1 DEF ProcessesInv
<1>5. CASE SendMessage \/ StartFails
  BY <1>3, <1>5 DEF SendMessage, StartFails, Untouched, server, Waiting, ProcessesInv, Domains
<1>6. ASSUME NEW wants \in BOOLEAN, Recognize(wants)
      PROVE  ProcessesInv'
  <2>1. turn' \notin DOMAIN Waiting
    BY <1>6 DEF Recognize, Waiting
  <2> QED BY <1>3, <1>4, <1>6, <2>1 DEF Recognize, StopServer, server, ProcessesInv, Domains
<1>7. ASSUME NEW callee \in Apis, NEW args, RunChild(callee, args)
      PROVE  ProcessesInv'
  BY <1>7, ChildBegins DEF ProcessesInv
<1>8. CASE StartSession \/ \E i \in DOMAIN messages : SelectDrink(i) \/ PayOrder(i)
  BY <1>7, <1>8 DEF StartSession, SelectDrink, PayOrder, BeginTap, Apis
<1>9. CASE TurnSucceeds
  <2>1. child \in Cli /\ printed[child] = "ok" /\ Begins(child, Idle) /\ turn' = "ready"
    BY <1>9 DEF TurnSucceeds, ProcessesInv
  <2>2. wire[child].state = "idle"
    BY <2>1 DEF ProcessesInv, ProcessInv, WireInv
  <2>3. Each
    BY <1>9, <2>1, <2>2, Begun, Commanded DEF TurnSucceeds, StopServer
  <2> QED BY <2>1, <2>3 DEF ProcessesInv, Waiting
<1>10. CASE TurnFails
  <2>1. child \in Cli /\ turn' = "ready"
    BY <1>10 DEF TurnFails, ProcessesInv
  <2>2. CASE wire[child].state = "sent"
    BY <1>3, <1>10, <2>1, <2>2 DEF TurnFails, ProcessesInv, Domains, Waiting
  <2>3. CASE wire[child].state # "sent"
    <3>1. Each
      BY <1>10, <2>1, <2>3, Begun, Commanded DEF TurnFails
    <3> QED BY <2>1, <3>1 DEF ProcessesInv, Waiting
  <2> QED BY <2>2, <2>3
<1>11. CASE TimeOut
  <2>1. /\ child \in Cli /\ printed[child] = "none" /\ printed' = [printed EXCEPT ![child] = "error"]
        /\ UNCHANGED <<command, position, wire, local, served, hindered, turn, child>>
    BY <1>11 DEF TimeOut, Fail, chat, server, ProcessesInv
  <2>2. Domains' /\ \A d \in Cli \ {child} : UNCHANGED ProcessOf(d)
    BY <2>1 DEF ProcessesInv, Domains, ProcessOf, local
  <2>3. printed'[child] = "error"
    BY <2>1 DEF ProcessesInv, Domains
  <2>4. ProcessInv(child)
    BY <2>1 DEF ProcessesInv
  <2>5. /\ IsCommand(command[child])' /\ DemoInv(child)' /\ CallApiInv(child)'
        /\ Doing(child)' = Doing(child) /\ Signs(child)' = Signs(child)
    BY <2>1, <2>3, <2>4, Stays DEF local
  <2>6. ProcessInv(child)'
    BY <2>1, <2>3, <2>4, <2>5 DEF ProcessInv, WireInv
  <2> QED BY <2>1, <2>2, <2>6, ProcessInvStable DEF ProcessesInv
<1>12. CASE Reset \/ ServerDies
  <2>1. turn' = turn /\ child' = child
    BY <1>12 DEF Reset, ServerDies, chat
  <2> QED BY <1>3, <1>4, <1>12, <2>1 DEF Reset, ServerDies, StopServer, server, ProcessesInv, Domains
<1>13. CASE UNCHANGED <<cliVars, chat, up>>
  BY <1>3, <1>13 DEF cliVars, chat, server, ProcessesInv, Domains
<1> QED BY <1>1, <1>2, <1>5, <1>6, <1>8, <1>9, <1>10, <1>11, <1>12, <1>13 DEF ChatNext, ChatStep

LEMMA ProcessesInvInit == ChatInit => ProcessesInv
<1> SUFFICES ASSUME ChatInit
             PROVE  ProcessesInv
  OBVIOUS
<1>1. Domains /\ \A c \in Cli : IsCommand(command[c])
  BY DockCliAssumption DEF ChatInit, CliInit, Domains
<1>2. turn \notin DOMAIN Waiting
  BY DEF ChatInit, Waiting
<1>3. ASSUME NEW c \in Cli
      PROVE  ProcessInv(c)
  <2>1. position[c] = 1 /\ printed[c] = "none" /\ wire[c].state = "idle"
    BY <1>3 DEF ChatInit, CliInit, Quiet, Request
  <2>2. DemoInv(c) /\ WireInv(c)
    BY <2>1 DEF DemoInv, WireInv
  <2>3. CallApiInv(c)
    <3> SUFFICES ASSUME command[c].run = "call-api"
                 PROVE  CallApiInv(c)
      BY DEF CallApiInv
    <3>1. Script(c) = IF IsRemote(command[c].args) THEN <<"resolve", "load", command[c].api>>
                                                   ELSE <<"load", command[c].api>>
      BY CallApiScript
    <3>2. 1 \in DOMAIN Script(c) /\ Script(c)[1] \in {"resolve", "load"}
      BY <3>1
    <3>3. Doing(c) # command[c].api
      BY <1>1, <2>1, <3>2 DEF Doing, IsCommand, Apis
    <3> QED BY <2>1, <3>2, <3>3 DEF CallApiInv
  <2> QED BY <1>1, <2>2, <2>3 DEF ProcessInv
<1> QED BY <1>1, <1>2, <1>3 DEF ProcessesInv

LEMMA SpecProcesses == ChatSpec => []ProcessesInv
BY ProcessesInvInit, ProcessesInvInductive, PTL DEF ChatSpec

\* A demo past its login, and a call-api that a server has answered, act as the
\* identity that the command line names (DemoAuthConfig::from_inputs, login).
THEOREM ActsAsAsked == ChatSpec => []LoggedInAsAsked
<1>1. ProcessesInv => LoggedInAsAsked
  <2> SUFFICES ASSUME ProcessesInv, NEW c \in Cli,
                      \/ command[c].run = "run-demo" /\ position[c] > 3
                      \/ command[c].run = "call-api" /\ printed[c] = "ok" /\ IsRemote(command[c].args)
               PROVE  LET flags == command[c].flags
                          named == {flags.document, flags.user,
                                    IF Given(flags.handle) THEN FindIdentity(flags.handle) ELSE Nobody} \ {Nobody}
                      IN  /\ named \subseteq {identity[c].user}
                          /\ identity[c].user = DefaultIdentity => flags = NoInputs /\ command[c].env = NoInputs
    BY DEF LoggedInAsAsked
  <2>1. ProcessInv(c)
    BY DEF ProcessesInv
  <2>2. Resolved(c) /\ SignsAsItself(c)
    BY <2>1 DEF ProcessInv, DemoInv, CallApiInv
  <2>3. IsNaming(command[c].flags) /\ IsNaming(command[c].env)
    BY <2>1 DEF ProcessInv, IsCommand
  <2> QED BY <2>2, <2>3, NamedIdentity DEF Resolved, SignsAsItself
<1> QED BY <1>1, SpecProcesses, PTL

----------------------------------------------------------------------------
(* The orders of the server *)

\* A sequence of whatever.
IsSeq(s) == \E S : s \in Seq(S)

LEMMA AppendToSeq ==
  ASSUME NEW s, IsSeq(s), NEW e
  PROVE  /\ IsSeq(Append(s, e))
         /\ Len(s) \in Nat /\ DOMAIN s = 1 .. Len(s)
         /\ Len(Append(s, e)) = Len(s) + 1
         /\ DOMAIN Append(s, e) = 1 .. Len(s) + 1
         /\ \A i \in 1 .. Len(s) : Append(s, e)[i] = s[i]
         /\ Append(s, e)[Len(s) + 1] = e
<1>1. PICK S : s \in Seq(S)
  BY DEF IsSeq
<1> DEFINE T == S \cup {e}
<1>2. s \in Seq(T) /\ e \in T
  BY <1>1, SeqMonotonic
<1> HIDE DEF T
<1>3. Append(s, e) \in Seq(T)
  BY <1>2, AppendProperties
<1> QED BY <1>2, <1>3, AppendProperties, LenProperties DEF IsSeq

IsOrder(o) == o = [drink |-> o.drink, by |-> o.by, status |-> o.status]

\* The server never runs out of ids for the orders it has.
OrdersInv ==
  /\ IsSeq(orders)
  /\ Len(orders) \in Nat /\ Len(orders) <= Len(OrderIds)
  /\ \A i \in 1 .. Len(orders) : IsOrder(orders[i])

\* What the orders have that a payment does not change.
OrdersKept ==
  /\ Len(orders) <= Len(orders')
  /\ \A i \in 1 .. Len(orders) : orders'[i].drink = orders[i].drink /\ orders'[i].by = orders[i].by

LEMMA Confirming ==
  ASSUME OrdersInv, NEW c, ServeConfirm(c)
  PROVE  /\ OrdersInv' /\ OrdersKept
         /\ Len(orders') = Len(orders) + 1
         /\ orders'[Len(orders) + 1] = [drink |-> wire[c].body.text, by |-> c, status |-> "pending_payment"]
<1> DEFINE order == [drink |-> wire[c].body.text, by |-> c, status |-> "pending_payment"]
<1>1. orders' = Append(orders, order) /\ Len(orders) + 1 <= Len(OrderIds)
  BY DEF ServeConfirm
<1>2. IsOrder(order)
  BY DEF IsOrder
<1> HIDE DEF order
<1>3. /\ IsSeq(orders') /\ Len(orders') = Len(orders) + 1 /\ Len(orders) \in Nat
      /\ \A i \in 1 .. Len(orders) : orders'[i] = orders[i]
      /\ orders'[Len(orders) + 1] = order
  BY <1>1, AppendToSeq DEF OrdersInv
<1>4. OrdersInv'
  <2>1. \A i \in 1 .. Len(orders') : IsOrder(orders'[i])
    BY <1>2, <1>3 DEF OrdersInv
  <2>2. (\A i \in 1 .. Len(orders) : IsOrder(orders[i]))'
    BY <2>1 DEF IsOrder
  <2> QED BY <1>1, <1>3, <2>2 DEF OrdersInv, IsSeq
<1> QED BY <1>3, <1>4 DEF OrdersKept, order

LEMMA Paying ==
  ASSUME OrdersInv, NEW id \in DOMAIN orders, orders' = [orders EXCEPT ![id].status = "paid"]
  PROVE  OrdersInv' /\ OrdersKept /\ Len(orders') = Len(orders) /\ id \in 1 .. Len(orders)
<1> DEFINE paid == [orders[id] EXCEPT !.status = "paid"]
<1>1. id \in 1 .. Len(orders)
  BY AppendToSeq DEF OrdersInv
<1>2. orders' = [orders EXCEPT ![id] = paid]
  OBVIOUS
<1>3. IsOrder(paid) /\ paid.drink = orders[id].drink /\ paid.by = orders[id].by
  <2>1. IsOrder(orders[id])
    BY <1>1 DEF OrdersInv
  <2>2. PICK d, b, s : orders[id] = [drink |-> d, by |-> b, status |-> s]
    BY <2>1 DEF IsOrder
  <2>3. paid = [drink |-> d, by |-> b, status |-> "paid"]
    BY <2>2
  <2> HIDE DEF paid
  <2> QED BY <2>2, <2>3 DEF IsOrder
<1> HIDE DEF paid
<1>4. /\ IsSeq(orders') /\ Len(orders') = Len(orders)
      /\ \A j \in 1 .. Len(orders) : orders'[j] = IF j = id THEN paid ELSE orders[j]
  <2>1. IsSeq(orders)
    BY DEF OrdersInv
  <2>2. PICK S : orders \in Seq(S)
    BY <2>1 DEF IsSeq
  <2> DEFINE T == S \cup {paid}
  <2>3. orders \in Seq(T) /\ paid \in T
    BY <2>2, SeqMonotonic
  <2> HIDE DEF T
  <2>4. /\ orders' \in Seq(T) /\ Len(orders') = Len(orders)
        /\ \A j \in 1 .. Len(orders) : orders'[j] = IF j = id THEN paid ELSE orders[j]
    BY <1>1, <1>2, <2>3, ExceptSeq
  <2> QED BY <2>4 DEF IsSeq
<1>5. OrdersKept
  BY <1>3, <1>4 DEF OrdersKept, OrdersInv
<1>6. OrdersInv'
  <2>1. \A i \in 1 .. Len(orders') : IsOrder(orders'[i])
    BY <1>3, <1>4 DEF OrdersInv
  <2>2. (\A i \in 1 .. Len(orders) : IsOrder(orders[i]))'
    BY <2>1 DEF IsOrder
  <2> QED BY <1>4, <2>2 DEF OrdersInv, IsSeq
<1> QED BY <1>1, <1>4, <1>5, <1>6

\* A process changes the orders only by a request that is served.
LEMMA ServerKept ==
  ASSUME OrdersInv, NEW c \in Cli, ProcessStep(c)
  PROVE  OrdersInv' /\ OrdersKept /\ UNCHANGED run
<1>1. CASE UNCHANGED server
  BY <1>1 DEF server, OrdersInv, OrdersKept
<1>2. CASE Serve(c)
  <2>1. CASE ServeConfirm(c)
    BY <2>1, Confirming DEF ServeConfirm
  <2>2. CASE ServePay(c)
    <3>1. CASE \E id \in DOMAIN orders : orders' = [orders EXCEPT ![id].status = "paid"]
      BY <2>2, <3>1, Paying DEF ServePay, server
    <3> QED BY <1>1, <2>2, <3>1 DEF ServePay
  <2> QED BY <1>1, <1>2, <2>1, <2>2 DEF Serve
<1>3. CASE ~Serve(c)
  <2>1. ASSUME NEW fine, Resolve(c, fine) \/ LoadHarness(c, fine) \/ Expire(c, fine)
        PROVE  UNCHANGED server
    BY <2>1 DEF Resolve, LoadHarness, Expire, Proceed, Fail
  <2>2. ASSUME NEW callee, NEW fine, CallApi(c, callee, fine)
        PROVE  UNCHANGED server
    BY <2>2 DEF CallApi, Proceed, Succeed, Fail
  <2>3. ASSUME ValidatePackage(c) \/ PreviewComponent(c) \/ Send(c) \/ CannotSend(c) \/ Refuse(c) \/ GiveUp(c) \/ Receive(c)
        PROVE  UNCHANGED server
    BY <2>3 DEF ValidatePackage, PreviewComponent, Send, CannotSend, Refuse, GiveUp, Receive, Proceed, Succeed, Fail
  <2> QED BY <1>1, <1>3, <2>1, <2>2, <2>3 DEF ProcessStep
<1> QED BY <1>2, <1>3

----------------------------------------------------------------------------
(* The conversation *)

Deed(kind, id, drink, by, in) == [kind |-> kind, id |-> id, drink |-> drink, by |-> by, in |-> in]

OrderShown(message) == Field(message.content, "orderId")

\* The one thing that was done for a message, to the order that it shows.
IsReport(message, kind) ==
  /\ \E id \in 1 .. Len(OrderIds) : \E drink, by : message.done = <<Deed(kind, id, drink, by, message.in)>>
  /\ OrderShown(message) = Text(OrderIds[message.done[1].id])

Settled(message, before) ==
  /\ message.api = "searchDrinks" => message.content = Menu
  /\ message.api = "confirmOrder" =>
       IsReport(message, "confirm") /\ Text(message.done[1].drink) \in DrinksOn(before)
  /\ message.api = "payOrder" =>
       /\ IsReport(message, "pay")
       /\ OrderShown(message) = OrderShown(before)
       /\ before.in = message.in => message.done[1] = [before.done[1] EXCEPT !.kind = "pay"]

\* As long as the session lives, the server has the order that a message confirms.
IsInForce(message) ==
  message.api = "confirmOrder" /\ message.in = run =>
    LET deed == message.done[1] IN
    deed.id \in 1 .. Len(orders) /\ orders[deed.id].drink = deed.drink /\ orders[deed.id].by = deed.by

MessagesInv ==
  /\ run \in Nat
  /\ turn = "closed" => messages = <<>>
  /\ IsSeq(messages)
  /\ \A i \in 1 .. Len(messages) :
       /\ messages[i].in \in Nat /\ messages[i].in <= run
       /\ messages[i].api \in {"confirmOrder", "payOrder"} => messages[i].tapped \in 1 .. (i - 1)
       /\ Settled(messages[i], messages[messages[i].tapped])
       /\ IsInForce(messages[i])

\* What a turn asks of its process is on the card that was tapped.
Server == Text("server")
AsksForTurn(args) ==
  /\ turn = "searching" => args = Object([query |-> Text("latte"), serverUrl |-> Server])
  /\ turn = "confirming" =>
       /\ tapped \in 1 .. Len(messages)
       /\ \E i \in DOMAIN Listing :
            /\ Text(Listing[i]) \in DrinksOn(messages[tapped])
            /\ args = Object([drinkId |-> Text(Listing[i]), remoteBaseUrl |-> Server])
  /\ turn = "paying" =>
       /\ tapped \in 1 .. Len(messages)
       /\ messages[tapped].api = "confirmOrder"
       /\ args = Object([orderId |-> OrderOn(tapped), remoteBaseUrl |-> Server])

\* The server has done it, once, and the answer tells to which order.
Did(c, kind) ==
  \E id \in 1 .. Len(orders) :
    /\ served[c] = <<Deed(kind, id, orders[id].drink, orders[id].by, run)>>
    /\ Field(wire[c].reply, "orderId") = Text(OrderIds[id])
    /\ kind = "confirm" => Text(orders[id].drink) = Field(command[c].args, "drinkId")
    /\ kind = "pay" => Text(OrderIds[id]) = Field(command[c].args, "orderId")

Done(c) ==
  /\ turn = "searching" => wire[c].reply = Menu
  /\ turn = "confirming" => Did(c, "confirm")
  /\ turn = "paying" => Did(c, "pay")

\* The process that the app waits for has not been served before it is answered.
ChildInv ==
  turn \in DOMAIN Waiting =>
    /\ command[child] = ApiCall(Waiting[turn], command[child].args, NoInputs)
    /\ AsksForTurn(command[child].args)
    /\ wire[child].state = "sent" =>
         /\ turn = "confirming" => wire[child].body = Field(command[child].args, "drinkId")
         /\ turn = "paying" => wire[child].body = Field(command[child].args, "orderId")
    /\ wire[child].state = "sent" \/ (wire[child].state = "idle" /\ printed[child] = "none") => served[child] = <<>>
    /\ printed[child] = "ok" \/ (wire[child].state = "answered" /\ wire[child].reply # Refused) => Done(child)

ChatInv == ProcessesInv /\ OrdersInv /\ MessagesInv /\ ChildInv

LEMMA FieldOfObject ==
  ASSUME NEW fields, NEW name
  PROVE  Field(Object(fields), name) = IF name \in DOMAIN fields THEN fields[name] ELSE Missing
BY DEF Field, Object

\* Each call of the app needs the server.
LEMMA AskedIsRemote ==
  ASSUME turn \in DOMAIN Waiting, NEW args, AsksForTurn(args)
  PROVE  IsRemote(args)
<1>1. turn \in {"searching", "confirming", "paying"}
  BY DEF Waiting
<1>2. \/ Field(args, "remoteBaseUrl") = Missing /\ Field(args, "serverUrl") = Server
      \/ Field(args, "remoteBaseUrl") = Server
  <2>1. ASSUME turn = "searching"
        PROVE  Field(args, "remoteBaseUrl") = Missing /\ Field(args, "serverUrl") = Server
    BY <2>1, FieldOfObject DEF AsksForTurn
  <2>2. ASSUME turn = "confirming"
        PROVE  Field(args, "remoteBaseUrl") = Server
    BY <2>2, FieldOfObject DEF AsksForTurn
  <2>3. ASSUME turn = "paying"
        PROVE  Field(args, "remoteBaseUrl") = Server
    BY <2>3, FieldOfObject DEF AsksForTurn
  <2> QED BY <1>1, <2>1, <2>2, <2>3
<1>3. IsTruthy(Server) /\ ~IsTruthy(Missing)
  BY DEF IsTruthy, Server, Text, Missing
<1>4. OrElse(Field(args, "remoteBaseUrl"), Field(args, "serverUrl")) = Server
  BY <1>2, <1>3 DEF OrElse
<1> QED BY <1>3, <1>4 DEF IsRemote

\* A list offers what the server listed.
LEMMA DrinksAreListed ==
  ASSUME NEW message, message.content = Menu, NEW drink \in DrinksOn(message)
  PROVE  \E i \in DOMAIN Listing : drink = Text(Listing[i])
<1> DEFINE items == [i \in DOMAIN Listing |-> Object([id |-> Text(Listing[i])])]
           listed == {item.fields["id"] : item \in Range(Field(message.content, "drinks").items)}
<1>1. Field(message.content, "drinks").items = items
  <2>1. Field(Menu, "drinks") = MenuOf(Listing)
    BY DEF Menu, Field, Object
  <2>2. MenuOf(Listing).items = items
    BY DEF MenuOf, List
  <2> QED BY <2>1, <2>2
<1>2. drink \in listed
  BY DEF DrinksOn
<1>3. PICK i \in DOMAIN Listing : drink = items[i].fields["id"]
  BY <1>1, <1>2 DEF Range
<1> QED BY <1>3 DEF Object

\* What was said of the conversation and of the child remains true while orders are
\* only added or paid.
LEMMA MessagesKept ==
  ASSUME MessagesInv, OrdersInv, OrdersKept, UNCHANGED <<messages, run>>, turn' = "closed" => turn = "closed"
  PROVE  MessagesInv'
<1>1. ASSUME NEW i \in 1 .. Len(messages)
      PROVE  IsInForce(messages[i])'
  <2>1. IsInForce(messages[i])
    BY DEF MessagesInv
  <2> QED BY <2>1, SMTT(30) DEF IsInForce, OrdersKept, OrdersInv
<1>2. ASSUME NEW i \in 1 .. Len(messages)
      PROVE  Settled(messages[i], messages[messages[i].tapped])'
  <2>1. Settled(messages[i], messages[messages[i].tapped])
    BY DEF MessagesInv
  <2> QED BY <2>1
<1> QED BY <1>1, <1>2 DEF MessagesInv

LEMMA DidKept ==
  ASSUME OrdersInv, OrdersKept, UNCHANGED run, NEW c, NEW kind, Did(c, kind),
         UNCHANGED <<command[c], served[c]>>, wire'[c].reply = wire[c].reply
  PROVE  Did(c, kind)'
<1>1. PICK id \in 1 .. Len(orders) :
        /\ served[c] = <<Deed(kind, id, orders[id].drink, orders[id].by, run)>>
        /\ Field(wire[c].reply, "orderId") = Text(OrderIds[id])
        /\ kind = "confirm" => Text(orders[id].drink) = Field(command[c].args, "drinkId")
        /\ kind = "pay" => Text(OrderIds[id]) = Field(command[c].args, "orderId")
  BY DEF Did
<1>2. id \in 1 .. Len(orders') /\ orders'[id].drink = orders[id].drink /\ orders'[id].by = orders[id].by
  BY DEF OrdersKept, OrdersInv
<1> QED BY <1>1, <1>2 DEF Did

LEMMA ChildFacts ==
  ASSUME ProcessesInv, ChildInv, turn \in DOMAIN Waiting
  PROVE  /\ child \in Cli /\ ProcessInv(child)
         /\ command[child].run = "call-api" /\ command[child].api = Waiting[turn]
         /\ IsRemote(command[child].args)
         /\ Doing(child) \in Requests => Doing(child) = Waiting[turn]
         /\ Doing(child) = Waiting[turn] /\ printed[child] # "ok" => arguments[child] = command[child].args
<1>1. child \in Cli /\ ProcessInv(child)
  BY DEF ProcessesInv
<1>2. command[child].run = "call-api" /\ command[child].api = Waiting[turn]
  BY DEF ChildInv, ApiCall
<1>3. IsRemote(command[child].args)
  BY AskedIsRemote DEF ChildInv
<1>4. Doing(child) \in Requests => Doing(child) = Waiting[turn]
  BY <1>1, <1>2, ApiSteps
<1> QED BY <1>1, <1>2, <1>3, <1>4 DEF ProcessInv, CallApiInv

\* The child is not served meanwhile.
LEMMA ChildWaits ==
  ASSUME ChildInv, OrdersInv, OrdersKept, UNCHANGED <<turn, child, tapped, messages, run>>,
         UNCHANGED <<command[child], served[child]>>,
         \/ UNCHANGED wire[child]
         \/ wire[child].state = "sent" /\ wire'[child].state = "lost" /\ printed[child] # "ok",
         printed'[child] = printed[child] \/ printed'[child] = "error"
  PROVE  ChildInv'
<1> SUFFICES ASSUME turn \in DOMAIN Waiting
             PROVE  ChildInv'
  BY DEF ChildInv
<1>1. AsksForTurn(command[child].args)'
  BY DEF ChildInv, AsksForTurn, OrderOn
<1>2. ASSUME printed'[child] = "ok" \/ (wire'[child].state = "answered" /\ wire'[child].reply # Refused)
      PROVE  Done(child)'
  <2>1. Done(child) /\ UNCHANGED wire[child]
    BY <1>2 DEF ChildInv
  <2>2. \A kind : Did(child, kind) => Did(child, kind)'
    BY <2>1, DidKept
  <2> QED BY <2>1, <2>2 DEF Done
<1> QED BY <1>1, <1>2 DEF ChildInv

\* A step of the child itself.
LEMMA ChildSends ==
  ASSUME ProcessesInv, ChildInv, OrdersInv, OrdersKept, turn \in DOMAIN Waiting, Send(child),
         UNCHANGED <<turn, child, tapped, messages, run>>
  PROVE  ChildInv'
<1>1. /\ UNCHANGED <<command, served, printed>> /\ wire[child].state = "idle" /\ printed[child] = "none"
      /\ Doing(child) = Waiting[turn]
      /\ wire'[child] = Request("sent", Body(child), Missing)
  BY ChildFacts DEF Send, IsBusy, server, ProcessesInv, Domains
<1>2. arguments[child] = command[child].args
  BY <1>1, ChildFacts
<1>3. /\ turn = "confirming" => wire'[child].body = Field(command[child].args, "drinkId")
      /\ turn = "paying" => wire'[child].body = Field(command[child].args, "orderId")
  BY <1>1, <1>2 DEF Body, Waiting, Request
<1>4. AsksForTurn(command[child].args)'
  BY <1>1 DEF ChildInv, AsksForTurn, OrderOn
<1>5. wire'[child].state = "sent"
  BY <1>1 DEF Request
<1> QED BY <1>1, <1>3, <1>4, <1>5 DEF ChildInv

LEMMA ChildIsServed ==
  ASSUME ProcessesInv, ChildInv, OrdersInv, OrdersKept, turn \in DOMAIN Waiting, Serve(child) \/ Refuse(child),
         UNCHANGED <<turn, child, tapped, messages, run>>
  PROVE  ChildInv'
<1>1. /\ UNCHANGED <<command, printed>> /\ wire[child].state = "sent" /\ child \in Cli /\ DOMAIN wire = Cli
      /\ DOMAIN served = Cli
  BY ChildFacts DEF Serve, Refuse, ProcessesInv, Domains
<1>2. Doing(child) = Waiting[turn] /\ printed[child] # "ok" /\ served[child] = <<>>
  BY <1>1, ChildFacts DEF ChildInv, ProcessInv, WireInv
<1>3. \A reply : Reply(child, reply) => wire'[child].state = "answered" /\ wire'[child].reply = reply
  BY <1>1 DEF Reply, Request
<1>4. AsksForTurn(command[child].args)'
  BY <1>1 DEF ChildInv, AsksForTurn, OrderOn
<1>5. \E reply : Reply(child, reply)
  BY DEF Serve, ServeConfirm, ServePay, Refuse
<1>6. ASSUME wire'[child].reply # Refused
      PROVE  Done(child)'
  <2>0. ~Reply(child, Refused)
    BY <1>3, <1>6
  <2>1. CASE turn = "searching"
    <3>1. Doing(child) = "searchDrinks"
      BY <1>2, <2>1 DEF Waiting
    <3>2. Reply(child, Menu)
      BY <2>0, <3>1 DEF Serve, Refuse, Menu
    <3> QED BY <1>3, <2>1, <3>2 DEF Done
  <2>2. CASE turn = "confirming"
    <3>1. Doing(child) = "confirmOrder"
      BY <1>2, <2>2 DEF Waiting
    <3>2. ServeConfirm(child)
      BY <2>0, <3>1 DEF Serve, Refuse
    <3> DEFINE id == Len(orders) + 1
               order == [drink |-> wire[child].body.text, by |-> child, status |-> "pending_payment"]
    <3>3. /\ Len(orders') = id /\ orders'[id] = order /\ id \in 1 .. Len(orders') 
      BY <3>2, Confirming DEF OrdersInv
    <3>4. wire'[child].reply = OrderBody(id, order)
      BY <1>3, <3>2 DEF ServeConfirm
    <3>5. Field(wire'[child].reply, "orderId") = Text(OrderIds[id])
      BY <3>4, FieldOfObject DEF OrderBody
    <3>6. served'[child] = <<Deed("confirm", id, orders'[id].drink, orders'[id].by, run)>>
      BY <1>1, <1>2, <3>2 DEF ServeConfirm, Effect, Deed
    <3>7. Text(orders'[id].drink) = Field(command[child].args, "drinkId")
      <4>1. PICK i \in DOMAIN Listing : command[child].args = Object([drinkId |-> Text(Listing[i]), remoteBaseUrl |-> Server])
        BY <2>2 DEF ChildInv, AsksForTurn
      <4>2. wire[child].body = Text(Listing[i]) /\ Field(command[child].args, "drinkId") = Text(Listing[i])
        BY <1>1, <2>2, <4>1, FieldOfObject DEF ChildInv
      <4> QED BY <3>3, <4>2 DEF Text
    <3>8. Did(child, "confirm")'
      BY <1>1, <3>3, <3>5, <3>6, <3>7 DEF Did
    <3> QED BY <2>2, <3>8 DEF Done
  <2>3. CASE turn = "paying"
    <3>1. Doing(child) = "payOrder"
      BY <1>2, <2>3 DEF Waiting
    <3>2. ServePay(child)
      BY <2>0, <3>1 DEF Serve, Refuse
    <3>3. PICK id \in DOMAIN orders :
            /\ Text(OrderIds[id]) = wire[child].body
            /\ orders' = [orders EXCEPT ![id].status = "paid"]
            /\ Effect(child, "pay", id)
            /\ Reply(child, OrderBody(id, orders'[id]))
      BY <2>0, <3>2 DEF ServePay
    <3>4. id \in 1 .. Len(orders')
      BY <3>3, Paying
    <3>5. Field(wire'[child].reply, "orderId") = Text(OrderIds[id])
      BY <1>3, <3>3, FieldOfObject DEF OrderBody
    <3>6. served'[child] = <<Deed("pay", id, orders'[id].drink, orders'[id].by, run)>>
      BY <1>1, <1>2, <3>3 DEF Effect, Deed
    <3>7. Text(OrderIds[id]) = Field(command[child].args, "orderId")
      BY <1>1, <2>3, <3>3 DEF ChildInv
    <3>8. Did(child, "pay")'
      BY <1>1, <3>4, <3>5, <3>6, <3>7 DEF Did
    <3> QED BY <2>3, <3>8 DEF Done
  <2> QED BY <2>1, <2>2, <2>3 DEF Waiting
<1> QED BY <1>1, <1>2, <1>3, <1>4, <1>5, <1>6 DEF ChildInv

LEMMA ChildReturns ==
  ASSUME ProcessesInv, ChildInv, OrdersInv, OrdersKept, turn \in DOMAIN Waiting,
         NEW callee \in Apis, NEW fine, CallApi(child, callee, fine),
         UNCHANGED <<turn, child, tapped, messages, run>>
  PROVE  ChildInv'
<1>1. child \in Cli /\ DOMAIN wire = Cli /\ DOMAIN printed = Cli
  BY ChildFacts DEF ProcessesInv, Domains
<1>2. /\ UNCHANGED <<command, served>> /\ printed[child] = "none" /\ Doing(child) = callee
      /\ wire'[child].state = "idle" /\ wire'[child].reply = wire[child].reply
  BY <1>1 DEF CallApi, At, IsBusy, Request, Fail, Succeed, Proceed, server
<1>3. arguments[child] = command[child].args /\ IsRemote(arguments[child]) /\ command[child].run = "call-api"
  BY <1>2, ChildFacts, ApiSteps DEF Apis
<1>4. wire[child].state = "answered"
  BY <1>3 DEF CallApi
<1>5. AsksForTurn(command[child].args)'
  BY <1>2 DEF ChildInv, AsksForTurn, OrderOn
<1>6. CASE wire[child].reply = Refused
  <2>1. printed'[child] = "error"
    BY <1>1, <1>3, <1>6 DEF CallApi, Fail
  <2> QED BY <1>2, <1>5, <2>1 DEF ChildInv
<1>7. CASE wire[child].reply # Refused
  <2>1. printed'[child] = "ok"
    BY <1>1, <1>3, <1>7 DEF CallApi, Succeed
  <2>2. Done(child)
    BY <1>4, <1>7 DEF ChildInv
  <2>3. \A kind : Did(child, kind) => Did(child, kind)'
    BY <1>2, DidKept
  <2>4. Done(child)'
    BY <1>2, <2>2, <2>3 DEF Done
  <2> QED BY <1>2, <1>5, <2>1, <2>4 DEF ChildInv
<1> QED BY <1>6, <1>7

LEMMA ChildSteps ==
  ASSUME ProcessesInv, ChildInv, OrdersInv, NEW c \in Cli, ProcessStep(c), UNCHANGED chat
  PROVE  ChildInv'
<1> SUFFICES ASSUME turn \in DOMAIN Waiting
             PROVE  ChildInv'
  BY DEF ChildInv, chat
<1>1. OrdersKept /\ UNCHANGED <<turn, child, tapped, messages, run>>
  BY ServerKept DEF chat
<1>2. CASE c # child
  <2>1. \A d \in Cli \ {c} : UNCHANGED ProcessOf(d)
    BY OthersStay DEF ProcessesInv
  <2>2. UNCHANGED <<command[child], served[child], wire[child], printed[child]>>
    BY <1>1, <1>2, <2>1, ChildFacts DEF ProcessOf
  <2> QED BY <1>1, <2>2, ChildWaits
<1>3. CASE c = child
  <2>1. command[child].run = "call-api"
    BY ChildFacts
  <2>2. DOMAIN printed = Cli /\ child \in Cli
    BY ChildFacts DEF ProcessesInv, Domains
  <2>3. ASSUME UNCHANGED <<command, served, wire>>,
               \/ UNCHANGED printed
               \/ printed' = [printed EXCEPT ![child] = "error"]
        PROVE  ChildInv'
    <3>1. printed'[child] = printed[child] \/ printed'[child] = "error"
      BY <2>2, <2>3
    <3> QED BY <1>1, <2>3, <3>1, ChildWaits
  <2>4. ASSUME NEW fine, Resolve(child, fine) \/ LoadHarness(child, fine) \/ Expire(child, fine)
        PROVE  ChildInv'
    BY <2>3, <2>4 DEF Resolve, LoadHarness, Expire, Proceed, Fail, server
  <2>5. CASE CannotSend(child) \/ GiveUp(child)
    BY <2>3, <2>5 DEF CannotSend, GiveUp, Fail, server
  <2>6. CASE Send(child)
    BY <1>1, <2>6, ChildSends
  <2>7. CASE Serve(child) \/ Refuse(child)
    BY <1>1, <2>7, ChildIsServed
  <2>8. ~Receive(child)
    BY ChildFacts DEF Receive, Waiting, Apis
  <2>9. ASSUME NEW callee \in Apis, NEW fine, CallApi(child, callee, fine)
        PROVE  ChildInv'
    BY <1>1, <2>9, ChildReturns
  <2>10. ~ValidatePackage(child) /\ ~PreviewComponent(child)
    BY <2>1 DEF ValidatePackage, PreviewComponent
  <2> QED BY <1>3, <2>4, <2>5, <2>6, <2>7, <2>8, <2>9, <2>10 DEF ProcessStep
<1> QED BY <1>2, <1>3

\* The process of a new turn has done nothing, and knows what was tapped.
LEMMA ChildAsked ==
  ASSUME ProcessesInv, NEW callee \in Apis, NEW args, RunChild(callee, args),
         turn' \in DOMAIN Waiting, Waiting[turn'] = callee, AsksForTurn(args)'
  PROVE  ChildInv'
<1> DEFINE vacant == {c \in Cli : wire[c].state # "sent"}
<1>1. PICK c \in vacant : /\ child' = c /\ wire' = [wire EXCEPT ![c] = Quiet]
                          /\ Begins(c, ApiCall(callee, args, NoInputs))
  BY DEF RunChild
<1>2. /\ command'[child'] = ApiCall(callee, args, NoInputs) /\ wire'[child'].state = "idle"
      /\ served'[child'] = <<>> /\ printed'[child'] = "none"
  BY <1>1 DEF ProcessesInv, Domains, Begins, Quiet, Request
<1>3. command'[child'].args = args
  BY <1>2 DEF ApiCall
<1> QED BY <1>2, <1>3 DEF ChildInv

\* The end of a turn: what the child has done is what its message reports.
LEMMA MessageAdded ==
  ASSUME ProcessesInv, OrdersInv, MessagesInv, ChildInv, TurnSucceeds
  PROVE  MessagesInv'
<1> DEFINE n == Len(messages)
           m == [api |-> Waiting[turn], content |-> wire[child].reply, card |-> card[child],
                 tapped |-> tapped, done |-> served[child], in |-> run]
<1>1. turn \in {"searching", "confirming", "paying"} /\ turn \in DOMAIN Waiting
  BY DEF TurnSucceeds, Waiting
<1>2. messages' = Append(messages, m) /\ UNCHANGED <<orders, run>> /\ turn' = "ready"
  BY DEF TurnSucceeds
<1>3. Done(child) /\ AsksForTurn(command[child].args)
  BY <1>1 DEF ChildInv, TurnSucceeds
<1>4. /\ m.api = Waiting[turn] /\ m.content = wire[child].reply /\ m.tapped = tapped
      /\ m.done = served[child] /\ m.in = run
  OBVIOUS
<1>5. Waiting["searching"] = "searchDrinks" /\ Waiting["confirming"] = "confirmOrder" /\ Waiting["paying"] = "payOrder"
  BY DEF Waiting
<1> HIDE DEF m
<1>6. /\ IsSeq(messages') /\ n \in Nat /\ Len(messages') = n + 1
      /\ \A i \in 1 .. n : messages'[i] = messages[i]
      /\ messages'[n + 1] = m
  BY <1>2, AppendToSeq DEF MessagesInv
<1>7. m.api \in {"confirmOrder", "payOrder"} => m.tapped \in 1 .. n
  BY <1>1, <1>3, <1>4, <1>5 DEF AsksForTurn
<1>8. ASSUME NEW kind \in {"confirm", "pay"}, Did(child, kind)
      PROVE  /\ IsReport(m, kind)
             /\ m.done[1].id \in 1 .. Len(orders)
             /\ m.done[1] = Deed(kind, m.done[1].id, orders[m.done[1].id].drink, orders[m.done[1].id].by, run)
             /\ kind = "confirm" => Text(orders[m.done[1].id].drink) = Field(command[child].args, "drinkId")
             /\ kind = "pay" => Text(OrderIds[m.done[1].id]) = Field(command[child].args, "orderId")
  <2>1. PICK id \in 1 .. Len(orders) :
          /\ served[child] = <<Deed(kind, id, orders[id].drink, orders[id].by, run)>>
          /\ Field(wire[child].reply, "orderId") = Text(OrderIds[id])
          /\ kind = "confirm" => Text(orders[id].drink) = Field(command[child].args, "drinkId")
          /\ kind = "pay" => Text(OrderIds[id]) = Field(command[child].args, "orderId")
    BY <1>8 DEF Did
  <2>2. m.done[1] = Deed(kind, id, orders[id].drink, orders[id].by, run) /\ m.done[1].id = id
    BY <1>4, <2>1 DEF Deed
  <2>3. id \in 1 .. Len(OrderIds)
    BY DockCliAssumption DEF OrdersInv
  <2> QED BY <1>4, <2>1, <2>2, <2>3 DEF IsReport, OrderShown
<1>9. Settled(m, messages[m.tapped]) /\ IsInForce(m)
  <2>1. CASE turn = "searching"
    BY <1>3, <1>4, <1>5, <2>1 DEF Settled, IsInForce, Done
  <2>2. CASE turn = "confirming"
    <3>1. Did(child, "confirm")
      BY <1>3, <2>2 DEF Done
    <3>2. /\ IsReport(m, "confirm") /\ m.done[1].id \in 1 .. Len(orders)
          /\ m.done[1] = Deed("confirm", m.done[1].id, orders[m.done[1].id].drink, orders[m.done[1].id].by, run)
          /\ Text(orders[m.done[1].id].drink) = Field(command[child].args, "drinkId")
      BY <1>8, <3>1
    <3>3. /\ m.done[1].drink = orders[m.done[1].id].drink
          /\ m.done[1].by = orders[m.done[1].id].by
      BY <3>2 DEF Deed
    <3>4. Field(command[child].args, "drinkId") \in DrinksOn(messages[tapped])
      BY <1>3, <2>2, FieldOfObject DEF AsksForTurn
    <3> QED BY <1>4, <1>5, <2>2, <3>2, <3>3, <3>4 DEF Settled, IsInForce
  <2>3. CASE turn = "paying"
    <3> DEFINE before == messages[tapped]
    <3>1. Did(child, "pay")
      BY <1>3, <2>3 DEF Done
    <3>2. /\ IsReport(m, "pay") /\ m.done[1].id \in 1 .. Len(orders)
          /\ m.done[1] = Deed("pay", m.done[1].id, orders[m.done[1].id].drink, orders[m.done[1].id].by, run)
          /\ Text(OrderIds[m.done[1].id]) = Field(command[child].args, "orderId")
      BY <1>8, <3>1
    <3>3. tapped \in 1 .. n /\ before.api = "confirmOrder" /\ Field(command[child].args, "orderId") = OrderShown(before)
      BY <1>3, <2>3, FieldOfObject DEF AsksForTurn, OrderOn, OrderShown
    <3>4. OrderShown(m) = OrderShown(before)
      BY <3>2, <3>3 DEF IsReport
    <3>5. IsReport(before, "confirm") /\ IsInForce(before)
      BY <3>3 DEF MessagesInv, Settled
    <3>6. ASSUME before.in = m.in
          PROVE  m.done[1] = [before.done[1] EXCEPT !.kind = "pay"]
      <4>1. PICK id \in 1 .. Len(OrderIds) : \E drink, by : before.done = <<Deed("confirm", id, drink, by, before.in)>>
        BY <3>5 DEF IsReport
      <4>2. PICK drink, by : before.done[1] = Deed("confirm", id, drink, by, before.in)
        BY <4>1
      <4>3. before.done[1].id = id /\ before.done[1].drink = drink /\ before.done[1].by = by
        BY <4>2 DEF Deed
      <4>4. orders[id].drink = drink /\ orders[id].by = by
        BY <1>4, <3>3, <3>5, <3>6, <4>3 DEF IsInForce
      <4>5. m.done[1].id = id
        <5>1. Text(OrderIds[m.done[1].id]) = Text(OrderIds[id])
          BY <3>2, <3>3, <3>5, <4>3 DEF IsReport
        <5>2. OrderIds[m.done[1].id] = OrderIds[id]
          BY <5>1 DEF Text
        <5>3. m.done[1].id \in DOMAIN OrderIds /\ id \in DOMAIN OrderIds
          BY <3>2, DockCliAssumption DEF OrdersInv
        <5> QED BY <5>2, <5>3, DockCliAssumption DEF IsInjective
      <4>6. [before.done[1] EXCEPT !.kind = "pay"] = Deed("pay", id, drink, by, before.in)
        BY <4>2 DEF Deed
      <4> QED BY <1>4, <3>2, <3>6, <4>4, <4>5, <4>6
    <3> QED BY <1>4, <1>5, <2>3, <3>2, <3>4, <3>6 DEF Settled, IsInForce
  <2> QED BY <1>1, <2>1, <2>2, <2>3
<1>10. ASSUME NEW i \in 1 .. Len(messages')
       PROVE  /\ messages'[i].in \in Nat /\ messages'[i].in <= run
              /\ messages'[i].api \in {"confirmOrder", "payOrder"} => messages'[i].tapped \in 1 .. (i - 1)
              /\ Settled(messages'[i], messages'[messages'[i].tapped])
              /\ IsInForce(messages[i])'
  <2>1. CASE i \in 1 .. n
    <3>1. /\ messages[i].in \in Nat /\ messages[i].in <= run
          /\ messages[i].api \in {"confirmOrder", "payOrder"} => messages[i].tapped \in 1 .. (i - 1)
          /\ Settled(messages[i], messages[messages[i].tapped])
          /\ IsInForce(messages[i])
      BY <2>1 DEF MessagesInv
    <3>2. messages'[i] = messages[i]
      BY <1>6, <2>1
    <3>3. Settled(messages'[i], messages'[messages'[i].tapped])
      BY <1>6, <2>1, <3>1, <3>2 DEF Settled
    <3>4. IsInForce(messages[i])'
      BY <1>2, <3>1, <3>2 DEF IsInForce
    <3> QED BY <3>1, <3>2, <3>3, <3>4
  <2>2. CASE i = n + 1
    <3>1. messages'[i] = m
      BY <1>6, <2>2
    <3>2. Settled(messages'[i], messages'[messages'[i].tapped])
      BY <1>6, <1>7, <1>9, <3>1 DEF Settled
    <3>3. IsInForce(messages[i])'
      BY <1>2, <1>9, <3>1 DEF IsInForce
    <3>4. m.in \in Nat /\ m.in <= run
      BY <1>4 DEF MessagesInv
    <3> QED BY <1>6, <1>7, <2>2, <3>1, <3>2, <3>3, <3>4
  <2> QED BY <1>6, <2>1, <2>2
<1> QED BY <1>2, <1>6, <1>10 DEF MessagesInv

\* A server that starts has no orders, and nothing that was shown is in force.
LEMMA NewRun ==
  ASSUME MessagesInv, orders' = <<>>, run' = run + 1, UNCHANGED messages, turn' = "closed" => turn = "closed"
  PROVE  OrdersInv' /\ MessagesInv'
<1>1. OrdersInv'
  <2>1. IsSeq(<<>>) /\ Len(<<>>) = 0
    <3>1. <<>> \in Seq({})
      OBVIOUS
    <3> QED BY <3>1 DEF IsSeq
  <2>2. Len(OrderIds) \in Nat
    BY DockCliAssumption
  <2> QED BY <2>1, <2>2 DEF OrdersInv, IsSeq
<1>2. ASSUME NEW i \in 1 .. Len(messages)
      PROVE  /\ messages[i].in \in Nat /\ messages[i].in <= run'
             /\ IsInForce(messages[i])'
  <2>1. run \in Nat /\ messages[i].in \in Nat /\ messages[i].in <= run
    BY DEF MessagesInv
  <2> QED BY <2>1 DEF IsInForce
<1>3. ASSUME NEW i \in 1 .. Len(messages)
      PROVE  Settled(messages[i], messages[messages[i].tapped])'
  <2>1. Settled(messages[i], messages[messages[i].tapped])
    BY DEF MessagesInv
  <2> QED BY <2>1
<1> QED BY <1>1, <1>2, <1>3, SMTT(30) DEF MessagesInv

LEMMA NoMessages ==
  ASSUME run' \in Nat, messages' = <<>>
  PROVE  MessagesInv'
<1>1. IsSeq(<<>>) /\ Len(<<>>) = 0
  <2>1. <<>> \in Seq({})
    OBVIOUS
  <2> QED BY <2>1 DEF IsSeq
<1> QED BY <1>1 DEF MessagesInv, IsSeq

LEMMA ChatInvInductive ==
  ChatInv /\ [ChatNext]_<<cliVars, chat, up>> => ChatInv'
<1> SUFFICES ASSUME ChatInv, [ChatNext]_<<cliVars, chat, up>>
             PROVE  ChatInv'
  OBVIOUS
<1> USE DEF ChatInv
<1>1. ProcessesInv'
  BY ProcessesInvInductive
<1>2. CASE CliStep
  <2>1. PICK c \in Cli : ProcessStep(c)
    BY <1>2 DEF CliStep
  <2>2. UNCHANGED <<chat, up>>
    BY <1>2 DEF CliStep
  <2>3. OrdersInv' /\ OrdersKept /\ UNCHANGED run
    BY <2>1, ServerKept
  <2>4. MessagesInv'
    BY <2>2, <2>3, MessagesKept DEF chat
  <2>5. ChildInv'
    BY <2>1, <2>2, ChildSteps
  <2> QED BY <1>1, <2>3, <2>4, <2>5
<1>3. CASE turn = "closed" /\ Restart /\ UNCHANGED <<chat, up>>
  <2>1. OrdersInv' /\ MessagesInv'
    BY <1>3, NewRun DEF Restart, chat
  <2>2. ChildInv'
    BY <1>3 DEF ChildInv, chat, Waiting
  <2> QED BY <1>1, <2>1, <2>2
\* A step that leaves the server's orders alone and ends no turn.
<1>4. ASSUME UNCHANGED <<orders, run, messages>>, turn # "closed" => turn' # "closed", ChildInv'
      PROVE  ChatInv'
  <2>1. OrdersInv' /\ OrdersKept
    BY <1>4 DEF OrdersInv, OrdersKept
  <2>2. MessagesInv'
    BY <1>4, <2>1, MessagesKept
  <2> QED BY <1>1, <1>4, <2>1, <2>2
<1>5. CASE SendMessage \/ StartFails \/ \E wants \in BOOLEAN : Recognize(wants)
  <2>1. turn' \notin DOMAIN Waiting /\ turn' # "closed" /\ UNCHANGED <<orders, run, messages>>
    BY <1>5 DEF SendMessage, StartFails, Recognize, Untouched, server, Waiting
  <2> QED BY <1>4, <2>1 DEF ChildInv
<1>6. CASE StartSession
  <2> DEFINE args == Object([query |-> Text("latte"), serverUrl |-> Text("server")])
  <2>1. OrdersInv' /\ MessagesInv'
    BY <1>6, NewRun DEF StartSession
  <2>2. turn' = "searching" /\ RunChild("searchDrinks", args)
    BY <1>6 DEF StartSession
  <2>3. turn' \in DOMAIN Waiting /\ Waiting[turn'] = "searchDrinks" /\ AsksForTurn(args)'
    BY <2>2 DEF Waiting, AsksForTurn, Server
  <2> QED BY <1>1, <2>1, <2>2, <2>3, ChildAsked DEF Apis
<1>7. ASSUME NEW i \in DOMAIN messages, SelectDrink(i)
      PROVE  ChatInv'
  <2>1. PICK drink \in DrinksOn(messages[i]) :
          BeginTap(i, "confirmOrder", Object([drinkId |-> drink, remoteBaseUrl |-> Text("server")]), "confirming")
    BY <1>7 DEF SelectDrink
  <2> DEFINE args == Object([drinkId |-> drink, remoteBaseUrl |-> Text("server")])
  <2>2. /\ turn' = "confirming" /\ tapped' = i /\ RunChild("confirmOrder", args)
        /\ UNCHANGED <<orders, run, messages>>
    BY <2>1 DEF BeginTap
  <2>3. i \in 1 .. Len(messages)
    BY AppendToSeq DEF MessagesInv
  <2>4. messages[i].content = Menu
    BY <1>7, <2>3 DEF SelectDrink, MessagesInv, Settled
  <2>5. PICK j \in DOMAIN Listing : drink = Text(Listing[j])
    BY <2>4, DrinksAreListed
  <2>6. turn' \in DOMAIN Waiting /\ Waiting[turn'] = "confirmOrder" /\ AsksForTurn(args)'
    BY <2>2, <2>3, <2>5 DEF Waiting, AsksForTurn, Server
  <2>7. ChildInv'
    BY <2>2, <2>6, ChildAsked DEF Apis
  <2> QED BY <1>4, <2>2, <2>7
<1>8. ASSUME NEW i \in DOMAIN messages, PayOrder(i)
      PROVE  ChatInv'
  <2>0. PICK args : args = Object([orderId |-> OrderOn(i), remoteBaseUrl |-> Text("server")])
    OBVIOUS
  <2>1. /\ turn' = "paying" /\ tapped' = i /\ RunChild("payOrder", args)
        /\ UNCHANGED <<orders, run, messages>> /\ messages[i].api = "confirmOrder"
    BY <1>8, <2>0 DEF PayOrder, BeginTap
  <2>2. i \in 1 .. Len(messages)
    BY AppendToSeq DEF MessagesInv
  <2>3. turn' \in DOMAIN Waiting /\ Waiting[turn'] = "payOrder" /\ AsksForTurn(args)'
    BY <2>0, <2>1, <2>2 DEF Waiting, AsksForTurn, Server, OrderOn
  <2>4. ChildInv'
    BY <2>1, <2>3, ChildAsked DEF Apis
  <2> QED BY <1>4, <2>1, <2>4
<1>9. CASE TurnSucceeds
  <2>1. MessagesInv'
    BY <1>9, MessageAdded
  <2>2. OrdersInv' /\ turn' = "ready"
    BY <1>9 DEF TurnSucceeds, OrdersInv
  <2> QED BY <1>1, <2>1, <2>2 DEF ChildInv, Waiting
<1>10. CASE TurnFails
  BY <1>4, <1>10 DEF TurnFails, ChildInv, Waiting
<1>11. CASE TimeOut
  <2>1. /\ UNCHANGED <<orders, run, chat, command, served, wire>>
        /\ turn \in DOMAIN Waiting /\ printed' = [printed EXCEPT ![child] = "error"]
    BY <1>11 DEF TimeOut, Fail, server
  <2>2. printed'[child] = "error"
    BY <2>1, ChildFacts DEF ProcessesInv, Domains
  <2>3. OrdersKept
    BY <2>1 DEF OrdersKept, OrdersInv
  <2>4. /\ UNCHANGED <<turn, child, tapped, messages, run>>
        /\ UNCHANGED <<command[child], served[child], wire[child]>>
    BY <2>1 DEF chat
  <2>5. ChildInv'
    <3> USE <2>2, <2>3, <2>4
    <3> QED BY ChildWaits
  <2> QED BY <1>4, <2>1, <2>5 DEF chat
<1>12. ASSUME UNCHANGED <<command, served, printed, turn, child, tapped, messages, orders, run>>,
              wire' = Unanswered \/ UNCHANGED wire
       PROVE  ChatInv'
  <2>1. OrdersKept
    BY <1>12 DEF OrdersKept, OrdersInv
  <2>2. ChildInv'
    <3> SUFFICES ASSUME turn \in DOMAIN Waiting
                 PROVE  ChildInv'
      BY <1>12 DEF ChildInv
    <3>1. child \in Cli
      BY DEF ProcessesInv
    <3>2. \/ UNCHANGED wire[child]
          \/ wire[child].state = "sent" /\ wire'[child].state = "lost" /\ printed[child] # "ok"
      BY <1>12, <3>1 DEF Unanswered, Request, ProcessesInv, ProcessInv, WireInv
    <3> QED BY <1>12, <2>1, <3>2, ChildWaits
  <2> QED BY <1>4, <1>12, <2>2
<1>13. CASE ServerDies
  BY <1>12, <1>13 DEF ServerDies, StopServer, chat, server
<1>14. CASE Reset
  <2>1. messages' = <<>> /\ UNCHANGED <<orders, run, turn>> /\ turn = "ready"
    BY <1>14 DEF Reset, server
  <2>2. MessagesInv'
    BY <2>1, NoMessages DEF MessagesInv
  <2>3. OrdersInv'
    BY <2>1 DEF OrdersInv
  <2> QED BY <1>1, <2>1, <2>2, <2>3 DEF ChildInv, Waiting
<1>15. CASE UNCHANGED <<cliVars, chat, up>>
  BY <1>12, <1>15 DEF cliVars, chat, server
<1> QED BY <1>2, <1>3, <1>5, <1>6, <1>7, <1>8, <1>9, <1>10, <1>11, <1>13, <1>14, <1>15 DEF ChatNext, ChatStep

LEMMA ChatInvInit == ChatInit => ChatInv
<1> SUFFICES ASSUME ChatInit
             PROVE  ChatInv
  OBVIOUS
<1>1. IsSeq(<<>>) /\ Len(<<>>) = 0
  <2>1. <<>> \in Seq({})
    OBVIOUS
  <2> QED BY <2>1 DEF IsSeq
<1>2. OrdersInv
  <2>1. orders = <<>> /\ Len(OrderIds) \in Nat
    BY DockCliAssumption DEF ChatInit, CliInit
  <2> QED BY <1>1, <2>1 DEF OrdersInv
<1>3. MessagesInv
  BY <1>1 DEF ChatInit, CliInit, MessagesInv
<1>4. ChildInv
  BY DEF ChatInit, ChildInv, Waiting
<1> QED BY <1>2, <1>3, <1>4, ProcessesInvInit DEF ChatInv

LEMMA SpecChat == ChatSpec => []ChatInv
BY ChatInvInit, ChatInvInductive, PTL DEF ChatSpec

\* What a payment card in the chat reports is the one payment that its turn made, of the
\* order on the card that was tapped (PipelineViewModel, DemoPipelineRunner).
THEOREM TapsPayTheirOrder == ChatSpec => []ChatPaysAsShown
<1>1. ChatInv => ChatPaysAsShown
  <2> SUFFICES ASSUME ChatInv, NEW i \in DOMAIN messages
               PROVE  LET message == messages[i]
                          before == messages[message.tapped]
                          effect == message.done[1]
                      IN
                      /\ message.api = "confirmOrder" =>
                           /\ Len(message.done) = 1 /\ effect.kind = "confirm"
                           /\ Text(effect.drink) \in DrinksOn(before)
                           /\ OrderShown(message) = Text(OrderIds[effect.id])
                      /\ message.api = "payOrder" =>
                           /\ Len(message.done) = 1 /\ effect.kind = "pay"
                           /\ OrderShown(message) = Text(OrderIds[effect.id])
                           /\ OrderShown(message) = OrderShown(before)
                           /\ before.in = message.in => effect = [before.done[1] EXCEPT !.kind = "pay"]
    BY DEF ChatPaysAsShown, Range, OrderShown
  <2> DEFINE m == messages[i]
  <2>1. i \in 1 .. Len(messages)
    BY AppendToSeq DEF ChatInv, MessagesInv
  <2>2. Settled(m, messages[m.tapped])
    BY <2>1 DEF ChatInv, MessagesInv
  <2>3. ASSUME NEW kind, IsReport(m, kind)
        PROVE  Len(m.done) = 1 /\ m.done[1].kind = kind
    BY <2>3 DEF IsReport, Deed
  <2> QED BY <2>2, <2>3 DEF Settled, IsReport
<1> QED BY <1>1, SpecChat, PTL

----------------------------------------------------------------------------
(* The demos *)

DeedKinds == <<"confirm", "pay", "confirm", "pay">>
\* How many of these are done when a demo reaches a step.
DoneBefore == <<0, 0, 0, 0, 0, 1, 2, 2, 2, 3, 4, 4>>

\* A demo that nothing went against yet.
IsFree(c) == printed[c] = "none" /\ ~hindered[c]

\* What was done is, as long as the server lives, in its orders: a drink that was
\* asked for, and the payment of the order that was confirmed just before.
DeedInv(c, i) ==
  LET deed == served[c][i] IN
  /\ deed = Deed(DeedKinds[i], deed.id, deed.drink, deed.by, deed.in)
  /\ deed.id \in 1 .. Len(OrderIds)
  /\ deed.in \in Nat /\ deed.in <= run
  /\ IsFree(c) => deed.in = run
  /\ deed.in = run =>
       deed.id \in 1 .. Len(orders) /\ orders[deed.id].drink = deed.drink /\ orders[deed.id].by = deed.by
  /\ i = 1 => deed.drink = CheckedDrink
  /\ i = 3 => deed.drink = Listing[1]
  /\ i \in {2, 4} =>
       /\ deed.id = served[c][i - 1].id
       /\ served[c][i - 1].in = deed.in => deed = [served[c][i - 1] EXCEPT !.kind = "pay"]

\* The answer to a confirm or a payment is there, and it was not refused.
IsDone(c) == wire[c].state = "answered" /\ wire[c].reply # Refused /\ position[c] \in {5, 6, 9, 10}

DeedsInv(c) ==
  /\ IsSeq(served[c])
  /\ Len(served[c]) = DoneBefore[position[c]] + (IF IsDone(c) THEN 1 ELSE 0)
  /\ \A i \in 1 .. Len(served[c]) : DeedInv(c, i)

\* What the server tells of it.
Receipt(deed) ==
  Object([orderId |-> Text(OrderIds[deed.id]), drinkId |-> Text(deed.drink),
          status |-> Text(IF deed.kind = "pay" THEN "paid" ELSE "pending_payment")])

AnswerInv(c) ==
  /\ IsDone(c) => wire[c].reply = Receipt(served[c][Len(served[c])])
  /\ position[c] = 8 /\ wire[c].state = "answered" /\ wire[c].reply # Refused => wire[c].reply = Menu
  /\ IsFree(c) => wire[c].state # "lost" /\ (wire[c].state = "answered" => wire[c].reply # Refused)

\* What a step hands to the next one.
ShownId(c, i) == Text(OrderIds[served[c][i].id])
HandoverInv(c) ==
  /\ position[c] = 5 /\ wire[c].state = "sent" => wire[c].body = Text(CheckedDrink)
  /\ position[c] = 6 /\ wire[c].state = "idle" => Field(wire[c].reply, "orderId") = ShownId(c, 1)
  /\ position[c] = 6 /\ wire[c].state = "sent" => wire[c].body = ShownId(c, 1)
  /\ position[c] = 8 => arguments[c] = Object([query |-> Text("latte"), serverUrl |-> Server])
  /\ position[c] = 9 =>
       /\ Listing # <<>>
       /\ arguments[c] = Object([drinkId |-> Text(Listing[1]), remoteBaseUrl |-> Server])
       /\ wire[c].state = "sent" => wire[c].body = Text(Listing[1])
  /\ position[c] = 10 =>
       /\ arguments[c] = Object([orderId |-> ShownId(c, 3), remoteBaseUrl |-> Server])
       /\ wire[c].state = "sent" => wire[c].body = ShownId(c, 3)

\* What it has to show.
Called(n) ==
  CASE n <= 8 -> <<>>
    [] n = 9 -> <<"searchDrinks">>
    [] n = 10 -> <<"searchDrinks", "confirmOrder">>
    [] n > 10 -> <<"searchDrinks", "confirmOrder", "payOrder">>
ReportInv(c) ==
  /\ audit[c] = Called(position[c])
  /\ position[c] > 10 => ContentsOf(card[c][1]) = <<ShownId(c, 4), Text("paid")>>
  /\ printed[c] \in {"none", "ok"}
  /\ printed[c] = "ok" => position[c] = 12

LedgerInv(c) == DeedsInv(c) /\ AnswerInv(c) /\ HandoverInv(c) /\ ReportInv(c)

DemosInv ==
  /\ run \in Nat
  /\ turn # "closed" => \A c \in Cli : command[c].run # "run-demo"
  /\ \A c \in Cli : command[c].run = "run-demo" => IF printed[c] = "error" THEN hindered[c] ELSE LedgerInv(c)

LEMMA DemoAt ==
  ASSUME NEW c, command[c].run = "run-demo", position[c] \in 1 .. 12
  PROVE  \/ position[c] = 1 /\ Doing(c) = "resolve"
         \/ position[c] = 2 /\ Doing(c) = "challenge"
         \/ position[c] = 3 /\ Doing(c) = "login"
         \/ position[c] = 4 /\ Doing(c) = "drinks"
         \/ position[c] = 5 /\ Doing(c) = "confirm"
         \/ position[c] = 6 /\ Doing(c) = "pay"
         \/ position[c] = 7 /\ Doing(c) = "load"
         \/ position[c] = 8 /\ Doing(c) = "searchDrinks"
         \/ position[c] = 9 /\ Doing(c) = "confirmOrder"
         \/ position[c] = 10 /\ Doing(c) = "payOrder"
         \/ position[c] = 11 /\ Doing(c) = "expire"
         \/ position[c] = 12 /\ Doing(c) = "health"
<1>1. Doing(c) = <<"resolve", "challenge", "login", "drinks", "confirm", "pay", "load",
                   "searchDrinks", "confirmOrder", "payOrder", "expire", "health">>[position[c]]
  BY DemoScript DEF Doing
<1>2. \/ position[c] = 1 \/ position[c] = 2 \/ position[c] = 3 \/ position[c] = 4
      \/ position[c] = 5 \/ position[c] = 6 \/ position[c] = 7 \/ position[c] = 8
      \/ position[c] = 9 \/ position[c] = 10 \/ position[c] = 11 \/ position[c] = 12
  OBVIOUS
<1> QED BY <1>1, <1>2

\* The steps of a demo that make a request.
LEMMA DemoAsks ==
  ASSUME NEW c, command[c].run = "run-demo", ProcessInv(c)
  PROVE  /\ position[c] \in 1 .. 12
         /\ Doing(c) \in Requests => position[c] \notin {1, 7, 11}
         /\ wire[c].state # "idle" => position[c] \notin {1, 7, 11}
<1>1. position[c] \in 1 .. 12
  BY DEF ProcessInv, DemoInv
<1>2. Doing(c) \in Requests => position[c] \notin {1, 7, 11}
  <2>1. {"resolve", "load", "expire"} \cap Requests = {}
    BY DEF Requests, Apis
  <2> QED BY <1>1, <2>1, DemoAt
<1> QED BY <1>1, <1>2 DEF ProcessInv, WireInv

\* A step of one process leaves what the others have to report.
LEMMA OthersReport ==
  ASSUME Domains, NEW c \in Cli, ProcessStep(c)
  PROVE  \A d \in Cli \ {c} : UNCHANGED <<audit[d], hindered[d]>>
<1> USE DEF Domains
<1> DEFINE Kept == \A d \in Cli \ {c} : UNCHANGED <<audit[d], hindered[d]>>
<1>1. CASE ValidatePackage(c) \/ PreviewComponent(c) \/ Send(c) \/ Receive(c)
  BY <1>1 DEF ValidatePackage, PreviewComponent, Send, Receive, local
<1>2. ASSUME NEW fine, Resolve(c, fine) \/ LoadHarness(c, fine) \/ Expire(c, fine)
      PROVE  Kept
  BY <1>2 DEF Resolve, LoadHarness, Expire, Hinder, local
<1>3. CASE CannotSend(c) \/ Serve(c) \/ Refuse(c) \/ GiveUp(c)
  BY <1>3 DEF CannotSend, Serve, Refuse, GiveUp, Hinder, local
<1>4. ASSUME NEW callee, NEW fine, CallApi(c, callee, fine)
      PROVE  Kept
  BY <1>4 DEF CallApi, Hinder
<1> QED BY <1>1, <1>2, <1>3, <1>4 DEF ProcessStep

\* Deeds stay true while the server runs, whatever others order.
LEMMA DeedsKept ==
  ASSUME NEW c, NEW n \in Nat, \A i \in 1 .. n : DeedInv(c, i),
         \A i \in 1 .. n : served'[c][i] = served[c][i],
         UNCHANGED run, OrdersInv, OrdersInv', OrdersKept, IsFree(c)' => IsFree(c)
  PROVE  \A i \in 1 .. n : DeedInv(c, i)'
<1> SUFFICES ASSUME NEW i \in 1 .. n
             PROVE  DeedInv(c, i)'
  OBVIOUS
<1> DEFINE deed == served[c][i]
<1>1. DeedInv(c, i) /\ served'[c][i] = served[c][i]
  OBVIOUS
<1>2. deed.in = run => /\ deed.id \in 1 .. Len(orders')
                       /\ orders'[deed.id].drink = deed.drink /\ orders'[deed.id].by = deed.by
  <2>1. deed.in = run => /\ deed.id \in 1 .. Len(orders)
                         /\ orders[deed.id].drink = deed.drink /\ orders[deed.id].by = deed.by
    BY <1>1 DEF DeedInv
  <2>2. Len(orders) \in Nat /\ Len(orders') \in Nat
    BY DEF OrdersInv
  <2> HIDE DEF deed
  <2> QED BY <2>1, <2>2 DEF OrdersKept
<1>3. i \in {2, 4} => served'[c][i - 1] = served[c][i - 1]
  OBVIOUS
<1> QED BY <1>1, <1>2, <1>3 DEF DeedInv

\* A demo that takes no step keeps its account.
LEMMA LedgerStable ==
  ASSUME NEW c, LedgerInv(c), UNCHANGED <<ProcessOf(c), audit[c], hindered[c], run>>,
         OrdersInv, OrdersInv', OrdersKept
  PROVE  LedgerInv(c)'
<1>1. IsDone(c)' = IsDone(c) /\ IsFree(c)' = IsFree(c)
  BY DEF IsDone, IsFree, ProcessOf
<1>2. UNCHANGED <<position[c], wire[c], card[c], arguments[c], printed[c], served[c]>>
  BY DEF ProcessOf
<1>3. DeedsInv(c)'
  <2>1. Len(served[c]) \in Nat
    BY AppendToSeq DEF LedgerInv, DeedsInv
  <2>2. \A i \in 1 .. Len(served[c]) : DeedInv(c, i)'
    BY <1>1, <1>2, <2>1, DeedsKept DEF LedgerInv, DeedsInv
  <2> QED BY <1>1, <1>2, <2>2 DEF LedgerInv, DeedsInv
<1> QED BY <1>1, <1>2, <1>3 DEF LedgerInv, AnswerInv, HandoverInv, ReportInv, ShownId

\* A step that neither ends a request nor begins the next one.
LEMMA DeedsWait ==
  ASSUME NEW c, LedgerInv(c), UNCHANGED <<position[c], served[c], run>>,
         OrdersInv, OrdersInv', OrdersKept, IsFree(c)' => IsFree(c), ~IsDone(c), ~IsDone(c)'
  PROVE  DeedsInv(c)'
<1>1. Len(served[c]) \in Nat /\ \A i \in 1 .. Len(served[c]) : DeedInv(c, i)
  BY AppendToSeq DEF LedgerInv, DeedsInv
<1>2. \A i \in 1 .. Len(served[c]) : DeedInv(c, i)'
  BY <1>1, DeedsKept
<1> QED BY <1>2 DEF LedgerInv, DeedsInv

LEMMA DeedsProceed ==
  ASSUME NEW c, LedgerInv(c), UNCHANGED <<served[c], run>>,
         OrdersInv, OrdersInv', OrdersKept, IsFree(c)' => IsFree(c),
         ~IsDone(c)', Len(served[c]) = DoneBefore[position'[c]]
  PROVE  DeedsInv(c)'
<1>1. Len(served[c]) \in Nat /\ \A i \in 1 .. Len(served[c]) : DeedInv(c, i)
  BY AppendToSeq DEF LedgerInv, DeedsInv
<1>2. \A i \in 1 .. Len(served[c]) : DeedInv(c, i)'
  BY <1>1, DeedsKept
<1> QED BY <1>1, <1>2 DEF LedgerInv, DeedsInv

\* What holds of a demo before any of its steps.
DemoContext(c) ==
  /\ ProcessesInv /\ OrdersInv /\ run \in Nat
  /\ command[c].run = "run-demo" /\ printed[c] # "error" /\ LedgerInv(c)

LEMMA DemoFacts ==
  ASSUME NEW c \in Cli, DemoContext(c)
  PROVE  /\ DOMAIN position = Cli /\ DOMAIN wire = Cli /\ DOMAIN card = Cli /\ DOMAIN arguments = Cli
         /\ DOMAIN audit = Cli /\ DOMAIN printed = Cli /\ DOMAIN served = Cli /\ DOMAIN hindered = Cli
         /\ ProcessInv(c) /\ position[c] \in 1 .. 12
         /\ wire[c].state \in {"idle", "sent", "answered", "lost"}
BY DemoAsks DEF DemoContext, ProcessesInv, Domains, ProcessInv, WireInv

LEMMA DoneByStep ==
  /\ DoneBefore[1] = 0 /\ DoneBefore[2] = 0 /\ DoneBefore[3] = 0 /\ DoneBefore[4] = 0 /\ DoneBefore[5] = 0
  /\ DoneBefore[6] = 1 /\ DoneBefore[7] = 2 /\ DoneBefore[8] = 2 /\ DoneBefore[9] = 2 /\ DoneBefore[10] = 3
  /\ DoneBefore[11] = 4 /\ DoneBefore[12] = 4
BY DEF DoneBefore

\* What went against a process is not forgotten.
LEMMA Hindering ==
  ASSUME NEW c \in Cli, DOMAIN hindered = Cli, NEW hinders, Hinder(c, hinders)
  PROVE  (hindered[c] => hindered'[c]) /\ (hinders => hindered'[c])
BY DEF Hinder

\* The identity, the Skill and the end of the last card.
LEMMA LedgerWorks ==
  ASSUME NEW c \in Cli, DemoContext(c), OrdersInv', OrdersKept, UNCHANGED run,
         NEW fine \in BOOLEAN, Resolve(c, fine) \/ LoadHarness(c, fine) \/ Expire(c, fine)
  PROVE  IF printed'[c] = "error" THEN hindered'[c] ELSE LedgerInv(c)'
<1> USE DemoFacts
<1>1. /\ printed[c] = "none" /\ UNCHANGED <<wire, card, audit, served>>
      /\ Doing(c) \in {"resolve", "load", "expire"}
  BY DEF Resolve, LoadHarness, Expire, At, IsBusy, Proceed, Fail, server, local
<1>2. position[c] \in {1, 7, 11}
  BY <1>1, DemoAt DEF DemoContext
<1>3. wire[c].state = "idle"
  BY <1>2, DemoAsks DEF DemoContext
<1>4. CASE Proceed(c) /\ (hindered[c] => hindered'[c])
  <2>1. position'[c] = position[c] + 1 /\ printed'[c] = "none" /\ position'[c] \in {2, 8, 12}
    BY <1>1, <1>2, <1>4 DEF Proceed
  <2>2. (IsFree(c)' => IsFree(c)) /\ ~IsDone(c) /\ ~IsDone(c)'
    BY <1>1, <1>3, <1>4, <2>1 DEF IsFree, IsDone
  <2>3. DeedsInv(c)'
    <3>1. Len(served[c]) = DoneBefore[position'[c]]
      <4>1. Len(served[c]) = DoneBefore[position[c]] + 0
        BY <2>2 DEF DemoContext, LedgerInv, DeedsInv
      <4>2. position[c] = 1 \/ position[c] = 7 \/ position[c] = 11
        BY <1>2
      <4> QED BY <2>1, <4>1, <4>2, DoneByStep
    <3> QED BY <1>1, <2>2, <3>1, DeedsProceed DEF DemoContext
  <2>4. AnswerInv(c)'
    BY <1>1, <1>3, <2>2 DEF AnswerInv
  <2>5. HandoverInv(c)'
    <3>1. position'[c] = 8 => arguments'[c] = Object([query |-> Text("latte"), serverUrl |-> Server])
      <4> SUFFICES ASSUME position[c] = 7
                   PROVE  arguments'[c] = Object([query |-> Text("latte"), serverUrl |-> Server])
        BY <2>1
      <4>1. Doing(c) = "load"
        BY DemoAt DEF DemoContext
      <4>2. LoadHarness(c, fine)
        BY <4>1 DEF Resolve, Expire, At
      <4> QED BY <4>2 DEF LoadHarness, DemoContext, Server
    <3> QED BY <2>1, <3>1 DEF HandoverInv
  <2>6. ReportInv(c)'
    <3>1. position[c] > 10 <=> position'[c] > 10
      BY <1>2, <2>1
    <3>2. Called(position'[c]) = Called(position[c])
      BY <1>2, <2>1 DEF Called
    <3> QED BY <1>1, <2>1, <3>1, <3>2 DEF DemoContext, LedgerInv, ReportInv, ShownId
  <2> QED BY <2>1, <2>3, <2>4, <2>5, <2>6 DEF LedgerInv
<1>5. CASE Fail(c) /\ hindered'[c]
  BY <1>5 DEF Fail
<1>6. ASSUME Resolve(c, fine)
      PROVE  \/ Proceed(c) /\ (hindered[c] => hindered'[c])
             \/ Fail(c) /\ hindered'[c]
  BY <1>6, Hindering DEF Resolve
<1>7. ASSUME LoadHarness(c, fine) \/ Expire(c, fine)
      PROVE  \/ Proceed(c) /\ (hindered[c] => hindered'[c])
             \/ Fail(c) /\ hindered'[c]
  BY <1>7, Hindering DEF LoadHarness, Expire
<1> QED BY <1>4, <1>5, <1>6, <1>7

\* Every API of a demo is asked to use the server, with arguments that it takes.
LEMMA DemoArguments ==
  ASSUME NEW c \in Cli, DemoContext(c), Doing(c) \in Apis
  PROVE  /\ position[c] \in {8, 9, 10}
         /\ IsRemote(arguments[c])
         /\ OrElse(Field(arguments[c], "remoteBaseUrl"), Field(arguments[c], "serverUrl")) = Server
         /\ IsValid(Doing(c), arguments[c])
         /\ position[c] = 9 => Field(arguments[c], "drinkId") = Text(Listing[1])
         /\ position[c] = 10 => Field(arguments[c], "orderId") = ShownId(c, 3)
<1>1. position[c] \in 1 .. 12 /\ command[c].run = "run-demo" /\ HandoverInv(c)
  BY DemoFacts DEF DemoContext, LedgerInv
<1>2. \/ position[c] = 8 /\ Doing(c) = "searchDrinks"
      \/ position[c] = 9 /\ Doing(c) = "confirmOrder"
      \/ position[c] = 10 /\ Doing(c) = "payOrder"
  BY <1>1, DemoAt DEF Apis
<1>3. IsTruthy(Server) /\ ~IsTruthy(Missing)
  BY DEF IsTruthy, Server, Text, Missing
<1>4. CASE position[c] = 8
  <2>1. arguments[c] = Object([query |-> Text("latte"), serverUrl |-> Server])
    BY <1>1, <1>4 DEF HandoverInv
  <2>2. Field(arguments[c], "remoteBaseUrl") = Missing /\ Field(arguments[c], "serverUrl") = Server
    BY <2>1, FieldOfObject
  <2> QED BY <1>2, <1>3, <1>4, <2>2 DEF IsRemote, OrElse, IsValid
<1>5. CASE position[c] = 9
  <2>1. arguments[c] = Object([drinkId |-> Text(Listing[1]), remoteBaseUrl |-> Server])
    BY <1>1, <1>5 DEF HandoverInv
  <2>2. Field(arguments[c], "remoteBaseUrl") = Server /\ Field(arguments[c], "drinkId") = Text(Listing[1])
    BY <2>1, FieldOfObject
  <2>3. Text(Listing[1]).is = "text"
    BY DEF Text
  <2> QED BY <1>2, <1>3, <1>5, <2>2, <2>3 DEF IsRemote, OrElse, IsValid
<1>6. CASE position[c] = 10
  <2>1. arguments[c] = Object([orderId |-> ShownId(c, 3), remoteBaseUrl |-> Server])
    BY <1>1, <1>6 DEF HandoverInv
  <2>2. Field(arguments[c], "remoteBaseUrl") = Server /\ Field(arguments[c], "orderId") = ShownId(c, 3)
    BY <2>1, FieldOfObject
  <2>3. ShownId(c, 3).is = "text"
    BY DEF Text, ShownId
  <2> QED BY <1>2, <1>3, <1>6, <2>2, <2>3 DEF IsRemote, OrElse, IsValid
<1> QED BY <1>2, <1>4, <1>5, <1>6

\* A request is sent, or refused, or given up.
LEMMA LedgerSends ==
  ASSUME NEW c \in Cli, DemoContext(c), OrdersInv', OrdersKept, UNCHANGED run, Send(c)
  PROVE  printed'[c] # "error" /\ LedgerInv(c)'
<1> USE DemoFacts
<1>1. /\ printed[c] = "none" /\ UNCHANGED <<position, card, arguments, audit, printed, served, hindered>>
      /\ wire[c].state = "idle" /\ wire'[c].state = "sent" /\ wire'[c].body = Body(c)
      /\ Doing(c) \in Requests
  BY DEF Send, IsBusy, local, server, Request
<1>2. /\ ~IsDone(c) /\ ~IsDone(c)' /\ IsFree(c)' = IsFree(c)
  BY <1>1 DEF IsDone, IsFree
<1>3. DeedsInv(c)'
  BY <1>1, <1>2, DeedsWait DEF DemoContext
<1>4. AnswerInv(c)' /\ ReportInv(c)'
  BY <1>1, <1>2 DEF DemoContext, LedgerInv, AnswerInv, ReportInv, ShownId
<1>5. HandoverInv(c)'
  <2>1. HandoverInv(c)
    BY DEF DemoContext, LedgerInv
  <2>2. position[c] = 5 => wire'[c].body = Text(CheckedDrink)
    BY <1>1, DemoAt DEF DemoContext, Body
  <2>3. position[c] = 6 => wire'[c].body = ShownId(c, 1)
    BY <1>1, <2>1, DemoAt DEF DemoContext, Body, HandoverInv
  <2>4. position[c] = 9 => wire'[c].body = Text(Listing[1])
    <3> SUFFICES ASSUME position[c] = 9
                 PROVE  wire'[c].body = Text(Listing[1])
      OBVIOUS
    <3>1. Doing(c) = "confirmOrder"
      BY DemoAt DEF DemoContext
    <3> QED BY <1>1, <3>1, DemoArguments DEF Body, Apis
  <2>5. position[c] = 10 => wire'[c].body = ShownId(c, 3)
    <3> SUFFICES ASSUME position[c] = 10
                 PROVE  wire'[c].body = ShownId(c, 3)
      OBVIOUS
    <3>1. Doing(c) = "payOrder"
      BY DemoAt DEF DemoContext
    <3> QED BY <1>1, <3>1, DemoArguments DEF Body, Apis
  <2> QED BY <1>1, <2>1, <2>2, <2>3, <2>4, <2>5 DEF HandoverInv, ShownId
<1> QED BY <1>1, <1>3, <1>4, <1>5 DEF LedgerInv

LEMMA LedgerEnds ==
  ASSUME NEW c \in Cli, DemoContext(c), CannotSend(c) \/ GiveUp(c)
  PROVE  printed'[c] = "error" /\ hindered'[c]
<1> USE DemoFacts
<1>1. CASE CannotSend(c)
  <2>1. ~(Doing(c) \in Apis /\ ~IsValid(Doing(c), arguments[c]))
    BY DemoArguments
  <2>2. Hinder(c, TRUE) /\ Fail(c)
    BY <1>1, <2>1 DEF CannotSend
  <2> QED BY <2>2, Hindering DEF Fail
<1>2. CASE GiveUp(c)
  BY <1>2, Hindering DEF GiveUp, Fail
<1> QED BY <1>1, <1>2

\* The answers that a demo receives itself.
LEMMA LedgerReceives ==
  ASSUME NEW c \in Cli, DemoContext(c), OrdersInv', OrdersKept, UNCHANGED run, Receive(c)
  PROVE  IF printed'[c] = "error" THEN hindered'[c] ELSE LedgerInv(c)'
<1> USE DemoFacts
<1>1. /\ printed[c] = "none" /\ UNCHANGED <<card, arguments, audit, served, hindered>>
      /\ wire[c].state = "answered" /\ wire'[c].state = "idle" /\ wire'[c].reply = wire[c].reply
      /\ Doing(c) \in Requests \ Apis
  BY DEF Receive, IsBusy, local, server, Request, Fail, Succeed, Proceed
<1>2. position[c] \in {2, 3, 4, 5, 6, 12}
  BY <1>1, DemoAt, DemoAsks DEF DemoContext, Apis
<1>3. CASE wire[c].reply = Refused
  <2>1. hindered[c]
    BY <1>1, <1>3 DEF DemoContext, LedgerInv, AnswerInv, IsFree
  <2> QED BY <1>1, <1>3, <2>1 DEF Receive, Fail
<1>4. CASE wire[c].reply # Refused /\ Doing(c) = "health"
  <2>1. position[c] = 12 /\ position' = position /\ printed'[c] = "ok"
    BY <1>4, <1>2, DemoAt DEF DemoContext, Receive, Succeed
  <2>2. ~IsDone(c) /\ ~IsDone(c)' /\ ~IsFree(c)'
    BY <1>1, <2>1 DEF IsDone, IsFree
  <2>3. DeedsInv(c)'
    BY <1>1, <2>1, <2>2, DeedsWait DEF DemoContext
  <2>4. AnswerInv(c)' /\ HandoverInv(c)'
    BY <1>1, <2>1, <2>2 DEF AnswerInv, HandoverInv
  <2>5. ReportInv(c)'
    BY <1>1, <2>1 DEF DemoContext, LedgerInv, ReportInv, ShownId
  <2> QED BY <2>1, <2>3, <2>4, <2>5 DEF LedgerInv
<1>5. CASE wire[c].reply # Refused /\ Doing(c) # "health"
  <2>1. position[c] \in {2, 3, 4, 5, 6}
    BY <1>2, <1>5, DemoAt DEF DemoContext
  <2>2. position'[c] = position[c] + 1 /\ printed'[c] = "none"
    BY <1>1, <1>5, <2>1 DEF Receive, Proceed
  <2>3. ~IsDone(c)' /\ (IsFree(c)' => IsFree(c)) /\ (IsDone(c) <=> position[c] \in {5, 6})
    BY <1>1, <1>5, <2>1, <2>2 DEF IsDone, IsFree
  <2>4. Len(served[c]) = DoneBefore[position'[c]] /\ (position[c] = 5 => Len(served[c]) = 1)
    <3>1. Len(served[c]) = DoneBefore[position[c]] + (IF IsDone(c) THEN 1 ELSE 0)
      BY DEF DemoContext, LedgerInv, DeedsInv
    <3>2. position[c] = 2 \/ position[c] = 3 \/ position[c] = 4 \/ position[c] = 5 \/ position[c] = 6
      BY <2>1
    <3> QED BY <2>2, <2>3, <3>1, <3>2, DoneByStep
  <2>5. DeedsInv(c)'
    BY <1>1, <2>3, <2>4, DeedsProceed DEF DemoContext
  <2>6. AnswerInv(c)'
    BY <1>1, <2>3 DEF AnswerInv
  <2>7. HandoverInv(c)'
    <3>1. position[c] = 5 => Field(wire[c].reply, "orderId") = ShownId(c, 1)
      <4> SUFFICES ASSUME position[c] = 5
                   PROVE  Field(wire[c].reply, "orderId") = ShownId(c, 1)
        OBVIOUS
      <4>1. wire[c].reply = Receipt(served[c][1])
        BY <2>3, <2>4 DEF DemoContext, LedgerInv, AnswerInv
      <4> QED BY <4>1, FieldOfObject DEF Receipt, ShownId
    <3> QED BY <1>1, <2>1, <2>2, <3>1 DEF HandoverInv, ShownId
  <2>8. ReportInv(c)'
    <3>1. Called(position'[c]) = Called(position[c])
      BY <2>1, <2>2 DEF Called
    <3> QED BY <1>1, <2>1, <2>2, <3>1 DEF DemoContext, LedgerInv, ReportInv
  <2> QED BY <2>2, <2>5, <2>6, <2>7, <2>8 DEF LedgerInv
<1> QED BY <1>3, <1>4, <1>5

\* The server refuses, for a reason of its own or because of the key.
LEMMA LedgerRefused ==
  ASSUME NEW c \in Cli, DemoContext(c), OrdersInv', OrdersKept, wire[c].state = "sent",
         UNCHANGED <<run, position, printed, local, served>>, Reply(c, Refused), hindered'[c]
  PROVE  printed'[c] # "error" /\ LedgerInv(c)'
<1> USE DemoFacts
<1>1. wire'[c].state = "answered" /\ wire'[c].reply = Refused
  BY DEF Reply, Request
<1>2. ~IsDone(c) /\ ~IsDone(c)' /\ ~IsFree(c)'
  BY <1>1 DEF IsDone, IsFree
<1>3. DeedsInv(c)'
  BY <1>2, DeedsWait DEF DemoContext
<1>4. AnswerInv(c)' /\ HandoverInv(c)' /\ ReportInv(c)'
  BY <1>1, <1>2 DEF DemoContext, LedgerInv, AnswerInv, HandoverInv, ReportInv, ShownId, local
<1> QED BY <1>3, <1>4 DEF LedgerInv, DemoContext

\* It answers a request that orders nothing.
LEMMA LedgerTold ==
  ASSUME NEW c \in Cli, DemoContext(c), OrdersInv', OrdersKept, wire[c].state = "sent",
         UNCHANGED <<run, position, printed, local, served, hindered>>,
         position[c] \notin {5, 6, 9, 10},
         NEW fields, Reply(c, Object(fields)), position[c] = 8 => Object(fields) = Menu
  PROVE  printed'[c] # "error" /\ LedgerInv(c)'
<1> USE DemoFacts
<1>1. wire'[c].state = "answered" /\ wire'[c].reply = Object(fields)
  BY DEF Reply, Request
<1>2. Object(fields) # Refused
  BY DEF Object, Refused, Text
<1>3. ~IsDone(c) /\ ~IsDone(c)' /\ IsFree(c)' = IsFree(c)
  BY DEF IsDone, IsFree
<1>4. DeedsInv(c)'
  BY <1>3, DeedsWait DEF DemoContext
<1>5. AnswerInv(c)' /\ HandoverInv(c)' /\ ReportInv(c)'
  BY <1>1, <1>2, <1>3 DEF DemoContext, LedgerInv, AnswerInv, HandoverInv, ReportInv, ShownId, local
<1> QED BY <1>4, <1>5 DEF LedgerInv, DemoContext

\* It carries out an order, and says so.
LEMMA LedgerServed ==
  ASSUME NEW c \in Cli, DemoContext(c), OrdersInv', OrdersKept, wire[c].state = "sent",
         UNCHANGED <<run, position, printed, local, hindered>>,
         position[c] \in {5, 6, 9, 10},
         NEW deed, served' = [served EXCEPT ![c] = Append(@, deed)], Reply(c, Receipt(deed)),
         NEW n, n = Len(served[c]) + 1, DeedInv(c, n)'
  PROVE  printed'[c] # "error" /\ LedgerInv(c)'
<1> USE DemoFacts
<1>1. wire'[c].state = "answered" /\ wire'[c].reply = Receipt(deed)
  BY DEF Reply, Request
<1>2. Receipt(deed) # Refused
  BY DEF Receipt, Object, Refused, Text
<1>3. ~IsDone(c) /\ IsDone(c)' /\ IsFree(c)' = IsFree(c)
  BY <1>1, <1>2 DEF IsDone, IsFree
<1>4. /\ IsSeq(served'[c]) /\ Len(served[c]) \in Nat /\ Len(served'[c]) = n
      /\ \A i \in 1 .. Len(served[c]) : served'[c][i] = served[c][i]
      /\ served'[c][n] = deed
  BY AppendToSeq DEF DemoContext, LedgerInv, DeedsInv
<1>5. DeedsInv(c)'
  <2>1. \A i \in 1 .. Len(served[c]) : DeedInv(c, i)'
    BY <1>3, <1>4, DeedsKept DEF DemoContext, LedgerInv, DeedsInv
  <2>2. \A i \in 1 .. n : DeedInv(c, i)'
    <3>1. \A i \in 1 .. n : i \in 1 .. Len(served[c]) \/ i = n
      BY <1>4
    <3> QED BY <2>1, <3>1
  <2>3. Len(served'[c]) = DoneBefore[position'[c]] + 1
    <3>1. Len(served[c]) = DoneBefore[position[c]]
      <4>1. Len(served[c]) = DoneBefore[position[c]] + 0
        BY <1>3 DEF DemoContext, LedgerInv, DeedsInv
      <4> QED BY <1>4, <4>1, DoneByStep
    <3> QED BY <1>4, <3>1
  <2> QED BY <1>3, <1>4, <2>2, <2>3 DEF DeedsInv, IsSeq
<1>6. AnswerInv(c)'
  BY <1>1, <1>2, <1>3, <1>4 DEF AnswerInv
<1>7. HandoverInv(c)'
  <2>1. position[c] = 10 => ShownId(c, 3)' = ShownId(c, 3)
    <3> SUFFICES ASSUME position[c] = 10
                 PROVE  ShownId(c, 3)' = ShownId(c, 3)
      OBVIOUS
    <3>1. 3 \in 1 .. Len(served[c])
      BY <1>3, <1>4, DoneByStep DEF DemoContext, LedgerInv, DeedsInv
    <3> QED BY <1>4, <3>1 DEF ShownId
  <2> QED BY <1>1, <2>1 DEF DemoContext, LedgerInv, HandoverInv, local
<1>8. ReportInv(c)'
  BY DEF DemoContext, LedgerInv, ReportInv, local
<1> QED BY <1>5, <1>6, <1>7, <1>8 DEF LedgerInv, DemoContext

\* What the server has just done is an account of its orders.
LEMMA DeedMade ==
  ASSUME NEW c, NEW n, NEW deed, served'[c][n] = deed, UNCHANGED run, run \in Nat,
         deed = Deed(DeedKinds[n], deed.id, deed.drink, deed.by, run),
         deed.id \in 1 .. Len(OrderIds), deed.id \in 1 .. Len(orders'),
         orders'[deed.id].drink = deed.drink, orders'[deed.id].by = deed.by,
         n = 1 => deed.drink = CheckedDrink, n = 3 => deed.drink = Listing[1],
         n \in {2, 4} =>
           /\ deed.id = served'[c][n - 1].id
           /\ served'[c][n - 1].in = run => deed = [served'[c][n - 1] EXCEPT !.kind = "pay"]
  PROVE  DeedInv(c, n)'
<1>1. deed.in = run
  BY DEF Deed
<1>2. /\ deed = Deed(DeedKinds[n], deed.id, deed.drink, deed.by, deed.in)
      /\ deed.in = run' /\ deed.in <= run' /\ deed.in \in Nat
  BY <1>1
<1> QED BY <1>1, <1>2 DEF DeedInv

\* A confirm makes the order that the demo asked for.
LEMMA LedgerConfirmed ==
  ASSUME NEW c \in Cli, DemoContext(c), wire[c].state = "sent",
         UNCHANGED <<position, printed, local, hindered>>,
         position[c] \in {5, 9}, ServeConfirm(c)
  PROVE  printed'[c] # "error" /\ LedgerInv(c)'
<1> USE DemoFacts
<1> DEFINE id == Len(orders) + 1
           order == [drink |-> wire[c].body.text, by |-> c, status |-> "pending_payment"]
           made == Deed("confirm", id, order.drink, order.by, run)
<1>n. PICK n \in Nat : n = Len(served[c]) + 1
  <2>1. Len(served[c]) \in Nat
    BY AppendToSeq DEF DemoContext, LedgerInv, DeedsInv
  <2> QED BY <2>1
<1>d. PICK deed : deed = made
  OBVIOUS
<1>1. /\ OrdersInv' /\ OrdersKept /\ Len(orders') = id /\ orders'[id] = order
      /\ id \in 1 .. Len(orders') /\ id \in 1 .. Len(OrderIds) /\ UNCHANGED run
  BY Confirming DEF DemoContext, OrdersInv, ServeConfirm
<1>2. served' = [served EXCEPT ![c] = Append(@, deed)] /\ Reply(c, Receipt(deed))
  <2>1. served' = [served EXCEPT ![c] = Append(@, made)] /\ Reply(c, Receipt(made))
    BY <1>1 DEF ServeConfirm, Effect, OrderBody, Receipt, Deed
  <2> QED BY <1>d, <2>1
<1>3. /\ n = IF position[c] = 5 THEN 1 ELSE 3
      /\ Len(served[c]) \in Nat
  <2>1. Len(served[c]) = DoneBefore[position[c]] + 0
    BY DEF DemoContext, LedgerInv, DeedsInv, IsDone
  <2>2. position[c] = 5 \/ position[c] = 9
    OBVIOUS
  <2> QED BY <1>n, <2>1, <2>2, DoneByStep
<1>4. order.drink = IF n = 1 THEN CheckedDrink ELSE Listing[1]
  <2>1. wire[c].body = IF position[c] = 5 THEN Text(CheckedDrink) ELSE Text(Listing[1])
    BY DEF DemoContext, LedgerInv, HandoverInv
  <2> QED BY <1>3, <2>1 DEF Text
<1>5. served'[c][n] = deed
  BY <1>n, <1>2, AppendToSeq DEF DemoContext, LedgerInv, DeedsInv
<1>6. /\ deed.id = id /\ deed.drink = order.drink /\ deed.by = order.by
      /\ deed = Deed("confirm", deed.id, deed.drink, deed.by, run)
  BY <1>d DEF Deed
<1>7. DeedInv(c, n)'
  <2>1. (n = 1 \/ n = 3) /\ DeedKinds[1] = "confirm" /\ DeedKinds[3] = "confirm"
    BY <1>3 DEF DeedKinds
  <2>2. DeedKinds[n] = "confirm" /\ n \notin {2, 4}
    BY <2>1
  <2>3. run \in Nat
    BY DEF DemoContext
  <2>4. deed = Deed(DeedKinds[n], deed.id, deed.drink, deed.by, run)
    BY <1>6, <2>2
  <2>5. /\ n = 1 => deed.drink = CheckedDrink
        /\ n = 3 => deed.drink = Listing[1]
    BY <1>4, <1>6
  <2>6. /\ deed.id \in 1 .. Len(OrderIds) /\ deed.id \in 1 .. Len(orders')
        /\ orders'[deed.id].drink = deed.drink /\ orders'[deed.id].by = deed.by
    BY <1>1, <1>6
  <2>7. n \in {2, 4} =>
          /\ deed.id = served'[c][n - 1].id
          /\ served'[c][n - 1].in = run => deed = [served'[c][n - 1] EXCEPT !.kind = "pay"]
    BY <2>2
  <2> HIDE DEF id, order
  <2> QED BY <1>1, <1>5, <2>3, <2>4, <2>5, <2>6, <2>7, DeedMade
<1> HIDE DEF id, order
<1> QED BY <1>n, <1>1, <1>2, <1>7, LedgerServed

\* A payment pays the order that was confirmed before, if the server is still the same.
LEMMA LedgerPaid ==
  ASSUME NEW c \in Cli, DemoContext(c), wire[c].state = "sent",
         UNCHANGED <<position, printed, local, hindered>>,
         position[c] \in {6, 10}, ServePay(c), OrdersInv', OrdersKept, UNCHANGED run
  PROVE  printed'[c] # "error" /\ LedgerInv(c)'
<1> USE DemoFacts
<1>n. PICK n \in Nat : n = Len(served[c]) + 1
  <2>1. Len(served[c]) \in Nat
    BY AppendToSeq DEF DemoContext, LedgerInv, DeedsInv
  <2> QED BY <2>1
<1> DEFINE before == served[c][Len(served[c])]
<1>1. /\ n = IF position[c] = 6 THEN 2 ELSE 4
      /\ Len(served[c]) \in Nat /\ Len(served[c]) = n - 1
  <2>1. Len(served[c]) = DoneBefore[position[c]] + 0
    BY DEF DemoContext, LedgerInv, DeedsInv, IsDone
  <2>2. position[c] = 6 \/ position[c] = 10
    OBVIOUS
  <2> QED BY <1>n, <2>1, <2>2, DoneByStep
<1>2. DeedInv(c, Len(served[c]))
  BY <1>1 DEF DemoContext, LedgerInv, DeedsInv
<1>3. before.id \in 1 .. Len(OrderIds) /\ wire[c].body = Text(OrderIds[before.id])
  BY <1>1, <1>2 DEF DemoContext, LedgerInv, HandoverInv, ShownId, DeedInv
<1>4. ASSUME NEW id \in DOMAIN orders, Text(OrderIds[id]) = wire[c].body
      PROVE  id = before.id
  <2>1. id \in 1 .. Len(orders)
    BY AppendToSeq DEF DemoContext, OrdersInv
  <2>2. DOMAIN OrderIds = 1 .. Len(OrderIds) /\ Len(OrderIds) \in Nat
    BY DockCliAssumption
  <2>3. id \in DOMAIN OrderIds /\ before.id \in DOMAIN OrderIds
    BY <1>3, <2>1, <2>2 DEF DemoContext, OrdersInv
  <2>4. OrderIds[id] = OrderIds[before.id]
    BY <1>3, <1>4 DEF Text
  <2> QED BY <2>3, <2>4, DockCliAssumption DEF IsInjective
<1>5. CASE Reply(c, Refused) /\ UNCHANGED server /\ {id \in DOMAIN orders : Text(OrderIds[id]) = wire[c].body} = {}
  <2>1. ASSUME IsFree(c)
        PROVE  FALSE
    <3>1. before.id \in 1 .. Len(orders)
      BY <1>2, <2>1 DEF DeedInv
    <3>2. before.id \in DOMAIN orders
      BY <3>1, AppendToSeq DEF DemoContext, OrdersInv
    <3> QED BY <1>3, <1>5, <3>2
  <2>2. printed[c] = "none"
    BY DEF ProcessInv, WireInv, DemoContext, LedgerInv, ReportInv
  <2>3. hindered'[c]
    BY <2>1, <2>2 DEF IsFree
  <2> QED BY <1>5, <2>3, LedgerRefused DEF server
<1>6. CASE \E id \in DOMAIN orders :
             /\ Text(OrderIds[id]) = wire[c].body
             /\ orders' = [orders EXCEPT ![id].status = "paid"]
             /\ Effect(c, "pay", id)
             /\ Reply(c, OrderBody(id, orders'[id]))
  <2>1. PICK id \in DOMAIN orders :
             /\ Text(OrderIds[id]) = wire[c].body
             /\ orders' = [orders EXCEPT ![id].status = "paid"]
             /\ Effect(c, "pay", id)
             /\ Reply(c, OrderBody(id, orders'[id]))
    BY <1>6
  <2>2. id = before.id
    BY <1>4, <2>1
  <2>3. Len(orders') = Len(orders) /\ id \in 1 .. Len(orders)
    BY <2>1, Paying DEF DemoContext
  <2>4. orders'[id].status = "paid" /\ orders'[id].drink = orders[id].drink /\ orders'[id].by = orders[id].by
    <3>1. IsOrder(orders[id])
      BY <2>3 DEF DemoContext, OrdersInv
    <3>2. orders'[id] = [orders[id] EXCEPT !.status = "paid"]
      BY <2>1
    <3>3. PICK d, b, s : orders[id] = [drink |-> d, by |-> b, status |-> s]
      BY <3>1 DEF IsOrder
    <3> QED BY <3>2, <3>3
  <2>d. PICK deed : deed = Deed("pay", id, orders'[id].drink, orders'[id].by, run)
    OBVIOUS
  <2>5. served' = [served EXCEPT ![c] = Append(@, deed)]
    BY <2>d, <2>1 DEF Effect, Deed
  <2>6. Reply(c, Receipt(deed))
    BY <2>d, <2>1, <2>4 DEF OrderBody, Receipt, Deed
  <2>7. served'[c][n] = deed /\ served'[c][n - 1] = before
    <3>1. served'[c] = Append(served[c], deed) /\ IsSeq(served[c])
      BY <2>5 DEF DemoContext, LedgerInv, DeedsInv
    <3>2. Len(served[c]) \in 1 .. Len(served[c])
      BY <1>1
    <3>3. served'[c][Len(served[c]) + 1] = deed /\ served'[c][Len(served[c])] = before
      BY <3>1, <3>2, AppendToSeq
    <3> QED BY <1>1, <3>3
  <2>8. /\ deed.id = id /\ deed.drink = orders'[id].drink /\ deed.by = orders'[id].by
        /\ deed = Deed("pay", deed.id, deed.drink, deed.by, run)
    BY <2>d DEF Deed
  <2>9. n \notin {1, 3} /\ DeedKinds[n] = "pay"
    <3>1. (n = 2 \/ n = 4) /\ DeedKinds[2] = "pay" /\ DeedKinds[4] = "pay"
      BY <1>1 DEF DeedKinds
    <3> QED BY <3>1
  <2>10. deed = Deed(DeedKinds[n], deed.id, deed.drink, deed.by, run)
    BY <2>8, <2>9
  <2>11. ASSUME before.in = run
         PROVE  deed = [before EXCEPT !.kind = "pay"]
    <3>1. before.drink = orders[id].drink /\ before.by = orders[id].by
      BY <1>2, <2>2, <2>11 DEF DeedInv
    <3>2. before = Deed(DeedKinds[Len(served[c])], id, orders[id].drink, orders[id].by, run)
      BY <1>2, <2>2, <2>11, <3>1 DEF DeedInv
    <3> QED BY <2>d, <2>4, <3>2 DEF Deed
  <2>12. run \in Nat
    BY DEF DemoContext
  <2>13. DeedInv(c, n)'
    <3>1. /\ deed.id \in 1 .. Len(OrderIds) /\ deed.id \in 1 .. Len(orders')
          /\ orders'[deed.id].drink = deed.drink /\ orders'[deed.id].by = deed.by
      BY <1>3, <2>2, <2>3, <2>8
    <3>2. /\ deed.id = served'[c][n - 1].id
          /\ served'[c][n - 1].in = run => deed = [served'[c][n - 1] EXCEPT !.kind = "pay"]
      BY <2>2, <2>7, <2>8, <2>11
    <3>3. /\ served'[c][n] = deed /\ UNCHANGED run
          /\ n = 1 => deed.drink = CheckedDrink
          /\ n = 3 => deed.drink = Listing[1]
          /\ n \in {2, 4} =>
               /\ deed.id = served'[c][n - 1].id
               /\ served'[c][n - 1].in = run => deed = [served'[c][n - 1] EXCEPT !.kind = "pay"]
      BY <2>7, <2>9, <3>2
    <3> HIDE DEF before
    <3> QED BY <2>10, <2>12, <3>1, <3>3, DeedMade, SMTT(30)
  <2>14. position[c] \in {5, 6, 9, 10}
    OBVIOUS
  <2> QED BY <1>n, <2>5, <2>6, <2>13, <2>14, LedgerServed
<1> QED BY <1>5, <1>6 DEF ServePay

\* Whatever the server does with a request of a demo.
LEMMA LedgerServe ==
  ASSUME NEW c \in Cli, DemoContext(c), OrdersInv', OrdersKept, UNCHANGED run, Serve(c) \/ Refuse(c)
  PROVE  printed'[c] # "error" /\ LedgerInv(c)'
<1> USE DemoFacts
<1>1. wire[c].state = "sent" /\ UNCHANGED <<position, printed, local>>
  BY DEF Serve, Refuse
<1>2. CASE Reply(c, Refused) /\ Hinder(c, TRUE) /\ UNCHANGED server
  <2>1. hindered'[c]
    BY <1>2, Hindering
  <2> QED BY <1>1, <1>2, <2>1, LedgerRefused DEF server
<1>3. CASE Serve(c) /\ UNCHANGED hindered /\ Doing(c) \in {"confirm", "confirmOrder"} /\ ServeConfirm(c)
  <2>1. position[c] \in {5, 9}
    BY <1>3, DemoAt DEF DemoContext
  <2> QED BY <1>1, <1>3, <2>1, LedgerConfirmed
<1>4. CASE Serve(c) /\ UNCHANGED hindered /\ Doing(c) \in {"pay", "payOrder"} /\ ServePay(c)
  <2>1. position[c] \in {6, 10}
    BY <1>4, DemoAt DEF DemoContext
  <2> QED BY <1>1, <1>4, <2>1, LedgerPaid
<1>5. ASSUME UNCHANGED <<server, hindered>>, Doing(c) \notin {"confirm", "confirmOrder", "pay", "payOrder"},
             \/ Reply(c, Menu)
             \/ Doing(c) # "searchDrinks" /\ Reply(c, Object([status |-> Text("ok")]))
      PROVE  printed'[c] # "error" /\ LedgerInv(c)'
  <2>1. position[c] \notin {5, 6, 9, 10} /\ (position[c] = 8 => Doing(c) = "searchDrinks")
    BY <1>5, DemoAt DEF DemoContext
  <2>2. PICK fields : Reply(c, Object(fields)) /\ (position[c] = 8 => Object(fields) = Menu)
    BY <1>5, <2>1 DEF Menu
  <2> QED BY <1>1, <1>5, <2>1, <2>2, LedgerTold DEF server
<1> QED BY <1>2, <1>3, <1>4, <1>5 DEF Serve, Refuse

\* The cards of a demo.
DrinkList(isEmpty) ==
  RenderIr(Template("drink-list"),
           Object([drinks |-> MenuOf(Listing), empty |-> Flag(isEmpty), remoteBaseUrl |-> Server]))
OrderConfirm(id, drink) ==
  RenderIr(Template("order-confirm"),
           Object([orderId |-> Text(id), drinkName |-> Text(drink), remoteBaseUrl |-> Server]))
PaymentResult(id) ==
  RenderIr(Template("payment-result"), Object([orderId |-> Text(id), status |-> Text("paid")]))

LEMMA Rendering ==
  /\ Listing = <<>> => TapsFor(DrinkList(TRUE).card[1], "confirmDrink") = <<>>
  /\ Listing # <<>> =>
       /\ DrinkList(FALSE).tag = "rendered"
       /\ TapsFor(DrinkList(FALSE).card[1], "confirmDrink") # <<>>
       /\ TapsFor(DrinkList(FALSE).card[1], "confirmDrink")[1].dataset = [id |-> Text(Listing[1])]
  /\ \A id \in Range(OrderIds) :
       /\ \A drink \in Range(Listing) :
            /\ OrderConfirm(id, drink).tag = "rendered"
            /\ TapsFor(OrderConfirm(id, drink).card[1], "payOrder") # <<>>
            /\ TapsFor(OrderConfirm(id, drink).card[1], "payOrder")[1].dataset = [name \in {"order-id"} |-> Text(id)]
       /\ PaymentResult(id).tag = "rendered"
       /\ ContentsOf(PaymentResult(id).card[1]) = <<Text(id), Text("paid")>>
BY RendererAssumption DEF DrinkList, OrderConfirm, PaymentResult, Server

\* What the buttons make of their datasets.
LEMMA Tapping ==
  ASSUME NEW value, NEW data
  PROVE  /\ TapArguments("confirmDrink", NormalizeDataset([id |-> value]), data)
              = Object([drinkId |-> value, remoteBaseUrl |-> Field(data, "remoteBaseUrl")])
         /\ TapArguments("payOrder", NormalizeDataset([name \in {"order-id"} |-> value]), data)
              = Object([orderId |-> value, remoteBaseUrl |-> Field(data, "remoteBaseUrl")])
<1>1. DatasetValue(NormalizeDataset([id |-> value]), "id") = value
  BY DEF NormalizeDataset, DatasetValue
<1>2. DatasetValue(NormalizeDataset([name \in {"order-id"} |-> value]), "orderId") = value
  <2> DEFINE dataset == [name \in {"order-id"} |-> value]
             camel == DOMAIN CamelCase \cap DOMAIN dataset
  <2>1. camel = {"order-id"} /\ CamelCase["order-id"] = "orderId"
    BY DEF CamelCase
  <2>2. dataset["order-id"] = value /\ "orderId" \notin DOMAIN dataset
    OBVIOUS
  <2> HIDE DEF dataset
  <2>3. (CHOOSE key \in camel : CamelCase[key] = "orderId") = "order-id"
    BY <2>1
  <2>4. "orderId" \in {CamelCase[key] : key \in camel}
    BY <2>1
  <2>5. "orderId" \in DOMAIN NormalizeDataset(dataset) /\ NormalizeDataset(dataset)["orderId"] = value
    BY <2>2, <2>3, <2>4 DEF NormalizeDataset
  <2> QED BY <2>5 DEF DatasetValue, dataset
<1> QED BY <1>1, <1>2 DEF TapArguments

\* The result of an API that the server has answered, and what its card is filled with.
LEMMA RemoteResult ==
  ASSUME NEW callee, NEW args, IsRemote(args), NEW reply,
         OrElse(Field(args, "remoteBaseUrl"), Field(args, "serverUrl")) = Server
  PROVE  /\ ResultOf(callee, args, reply).content = reply
         /\ RemoteBaseUrl(args, ResultOf(callee, args, reply).meta) = Server
<1>1. ResultOf(callee, args, reply) = [content |-> reply, meta |-> Object([remoteBaseUrl |-> Server])]
  BY DEF ResultOf
<1>2. Field(ResultOf(callee, args, reply).meta, "remoteBaseUrl") = Server
  BY <1>1, FieldOfObject
<1>3. IsTruthy(Server)
  BY DEF IsTruthy, Server, Text
<1> QED BY <1>1, <1>2, <1>3 DEF RemoteBaseUrl, OrElse

\* The menu is listed, and its first drink is what the next call confirms.
LEMMA ListTapped ==
  ASSUME NEW args, NEW result, result.content = Menu, RemoteBaseUrl(args, result.meta) = Server
  PROVE  LET data == CardData("drink-list", args, result)
             output == RenderIr(Template("drink-list"), data)
             asked == TapFirst(output.card[1], "confirmDrink", data)
         IN  IF Listing = <<>> THEN asked = Missing
             ELSE /\ output.tag = "rendered"
                  /\ asked = Object([drinkId |-> Text(Listing[1]), remoteBaseUrl |-> Server])
<1> DEFINE data == CardData("drink-list", args, result)
           root == DrinkList(Listing = <<>>).card[1]
<1>1. data = Object([drinks |-> MenuOf(Listing), empty |-> Flag(Listing = <<>>), remoteBaseUrl |-> Server])
  <2>1. Field(Menu, "drinks") = MenuOf(Listing)
    BY FieldOfObject DEF Menu
  <2>2. MenuOf(Listing).items = <<>> <=> Listing = <<>>
    <3>1. MenuOf(Listing).items = [i \in DOMAIN Listing |-> Object([id |-> Text(Listing[i])])]
      BY DEF MenuOf, List
    <3> QED BY <3>1, DockCliAssumption, EmptySeq
  <2>3. Flag(MenuOf(Listing).items = <<>>) = Flag(Listing = <<>>)
    BY <2>2
  <2> QED BY <2>1, <2>3 DEF CardData
<1>2. Field(data, "remoteBaseUrl") = Server
  BY <1>1, FieldOfObject
<1>3. RenderIr(Template("drink-list"), data) = DrinkList(Listing = <<>>)
  BY <1>1 DEF DrinkList
<1>4. TapFirst(root, "confirmDrink", data) =
        IF TapsFor(root, "confirmDrink") = <<>> THEN Missing
        ELSE TapArguments("confirmDrink", NormalizeDataset(TapsFor(root, "confirmDrink")[1].dataset), data)
  BY DEF TapFirst
<1> HIDE DEF data
<1>5. CASE Listing = <<>>
  <2>1. DrinkList(Listing = <<>>) = DrinkList(TRUE)
    BY <1>5
  <2> QED BY <1>3, <1>4, <1>5, <2>1, Rendering DEF data
<1>6. CASE Listing # <<>>
  <2>1. DrinkList(Listing = <<>>) = DrinkList(FALSE)
    BY <1>6
  <2>2. TapsFor(root, "confirmDrink") # <<>> /\ TapsFor(root, "confirmDrink")[1].dataset = [id |-> Text(Listing[1])]
    BY <1>6, <2>1, Rendering
  <2>3. TapFirst(root, "confirmDrink", data) = Object([drinkId |-> Text(Listing[1]), remoteBaseUrl |-> Server])
    <3> HIDE DEF root
    <3> QED BY <1>2, <1>4, <2>2, Tapping
  <2> QED BY <1>3, <1>6, <2>1, <2>3, Rendering DEF data
<1> QED BY <1>5, <1>6

\* The card of an order leads to its payment.
LEMMA OrderTapped ==
  ASSUME NEW args, NEW result, NEW deed, result.content = Receipt(deed),
         RemoteBaseUrl(args, result.meta) = Server,
         deed.id \in 1 .. Len(OrderIds), deed.drink = Listing[1], Listing # <<>>
  PROVE  LET data == CardData("order-confirm", args, result)
             output == RenderIr(Template("order-confirm"), data)
         IN  /\ output.tag = "rendered"
             /\ TapFirst(output.card[1], "payOrder", data)
                  = Object([orderId |-> Text(OrderIds[deed.id]), remoteBaseUrl |-> Server])
<1> DEFINE data == CardData("order-confirm", args, result)
           id == OrderIds[deed.id]
           root == OrderConfirm(id, deed.drink).card[1]
<1>1. data = Object([orderId |-> Text(id), drinkName |-> Text(deed.drink), remoteBaseUrl |-> Server])
  <2>1. Field(Receipt(deed), "orderId") = Text(id) /\ Field(Receipt(deed), "drinkId") = Text(deed.drink)
    BY FieldOfObject DEF Receipt
  <2> QED BY <2>1 DEF CardData
<1>2. Field(data, "remoteBaseUrl") = Server
  BY <1>1, FieldOfObject
<1>3. RenderIr(Template("order-confirm"), data) = OrderConfirm(id, deed.drink)
  BY <1>1 DEF OrderConfirm
<1>4. id \in Range(OrderIds) /\ deed.drink \in Range(Listing)
  <2>1. deed.id \in DOMAIN OrderIds
    BY DockCliAssumption
  <2>2. 1 \in DOMAIN Listing
    BY DockCliAssumption, EmptySeq, LenProperties
  <2> QED BY <2>1, <2>2 DEF Range
<1>5. /\ OrderConfirm(id, deed.drink).tag = "rendered"
      /\ TapsFor(root, "payOrder") # <<>>
      /\ TapsFor(root, "payOrder")[1].dataset = [name \in {"order-id"} |-> Text(id)]
  BY <1>4, Rendering
<1>6. TapFirst(root, "payOrder", data) =
        TapArguments("payOrder", NormalizeDataset(TapsFor(root, "payOrder")[1].dataset), data)
  BY <1>5 DEF TapFirst
<1> HIDE DEF data, id
<1>7. TapFirst(root, "payOrder", data) = Object([orderId |-> Text(id), remoteBaseUrl |-> Server])
  BY <1>2, <1>5, <1>6, Tapping
<1> QED BY <1>3, <1>5, <1>7 DEF data, id

\* The last card shows the order that was paid.
LEMMA PaymentShown ==
  ASSUME NEW args, NEW result, NEW deed, result.content = Receipt(deed), deed.kind = "pay",
         deed.id \in 1 .. Len(OrderIds)
  PROVE  LET output == RenderIr(Template("payment-result"), CardData("payment-result", args, result))
         IN  /\ output.tag = "rendered"
             /\ ContentsOf(output.card[1]) = <<Text(OrderIds[deed.id]), Text("paid")>>
<1> DEFINE data == CardData("payment-result", args, result)
           id == OrderIds[deed.id]
<1>1. data = Object([orderId |-> Text(id), status |-> Text("paid")])
  <2>1. Field(Receipt(deed), "orderId") = Text(id) /\ Field(Receipt(deed), "status") = Text("paid")
    BY FieldOfObject DEF Receipt
  <2> QED BY <2>1 DEF CardData
<1>2. id \in Range(OrderIds)
  <2>1. deed.id \in DOMAIN OrderIds
    BY DockCliAssumption
  <2> QED BY <2>1 DEF Range
<1> QED BY <1>1, <1>2, Rendering DEF PaymentResult

\* A call of the Skill: the next step has what the card asks for, unless there is nothing
\* to ask for or the card's script fails.
LEMMA LedgerCalls ==
  ASSUME NEW c \in Cli, DemoContext(c), OrdersInv', OrdersKept, UNCHANGED run,
         NEW callee \in Apis, NEW fine \in BOOLEAN, CallApi(c, callee, fine)
  PROVE  IF printed'[c] = "error" THEN hindered'[c] ELSE LedgerInv(c)'
<1> DEFINE args == arguments[c]
           reply == wire[c].reply
           result == ResultOf(callee, args, reply)
           data == CardData(Component[callee], args, result)
           output == RenderIr(Template(Component[callee]), data)
           asked == IF callee = "payOrder" THEN Object(<<>>) ELSE TapFirst(output.card[1], Button[callee], data)
           works == fine /\ output.tag = "rendered" /\ asked # Missing
<1>1. /\ printed[c] = "none" /\ Doing(c) = callee /\ command[c].run = "run-demo"
      /\ DOMAIN position = Cli /\ DOMAIN wire = Cli /\ DOMAIN card = Cli /\ DOMAIN arguments = Cli
      /\ DOMAIN audit = Cli /\ DOMAIN printed = Cli /\ DOMAIN served = Cli /\ DOMAIN hindered = Cli
  BY DemoFacts DEF CallApi, At, IsBusy, DemoContext
<1>2. /\ IsRemote(args) /\ OrElse(Field(args, "remoteBaseUrl"), Field(args, "serverUrl")) = Server
      /\ \/ position[c] = 8 /\ callee = "searchDrinks"
         \/ position[c] = 9 /\ callee = "confirmOrder"
         \/ position[c] = 10 /\ callee = "payOrder"
  <2>1. position[c] \in 1 .. 12
    BY DemoFacts
  <2> QED BY <1>1, <2>1, DemoArguments, DemoAt
<1>3. wire[c].state = "answered" /\ wire'[c].state = "idle" /\ UNCHANGED served
  BY <1>1, <1>2 DEF CallApi, Request, Fail, Succeed, Proceed, server
<1>4. DeedsInv(c) /\ AnswerInv(c) /\ HandoverInv(c) /\ ReportInv(c)
  BY DEF DemoContext, LedgerInv
<1>5. CASE reply = Refused
  <2>1. hindered[c]
    BY <1>1, <1>3, <1>4, <1>5 DEF AnswerInv, IsFree
  <2>2. Fail(c) /\ UNCHANGED hindered
    BY <1>2, <1>5 DEF CallApi
  <2> QED BY <1>1, <2>1, <2>2 DEF Fail
<1>6. CASE reply # Refused
  <2>1. /\ audit' = [audit EXCEPT ![c] = Append(@, callee)]
        /\ card' = [card EXCEPT ![c] = IF fine THEN output.card ELSE <<>>]
        /\ arguments' = [arguments EXCEPT ![c] = asked]
        /\ Hinder(c, ~fine \/ (callee = "searchDrinks" /\ Listing = <<>>))
        /\ IF works THEN Proceed(c) ELSE Fail(c)
    BY <1>1, <1>2, <1>6, Zenon DEF CallApi, Demo
  <2>2. /\ audit'[c] = Append(audit[c], callee) /\ (fine => card'[c] = output.card) /\ arguments'[c] = asked
        /\ hindered[c] \/ ~fine \/ (callee = "searchDrinks" /\ Listing = <<>>) => hindered'[c]
    <3> HIDE DEF output, asked
    <3>1. hindered[c] \/ ~fine \/ (callee = "searchDrinks" /\ Listing = <<>>) => hindered'[c]
      BY <1>1, <2>1, Hindering
    <3> QED BY <1>1, <2>1, <3>1
  <2>3. result.content = reply /\ RemoteBaseUrl(args, result.meta) = Server
    BY <1>2, RemoteResult
  <2>4. IsDone(c) <=> position[c] \in {9, 10}
    BY <1>2, <1>3, <1>6 DEF IsDone
  <2>5. /\ Len(served[c]) = DoneBefore[position[c] + 1] /\ Len(served[c]) \in Nat
        /\ position[c] = 9 => Len(served[c]) = 3
        /\ position[c] = 10 => Len(served[c]) = 4
    <3>1. Len(served[c]) = DoneBefore[position[c]] + (IF IsDone(c) THEN 1 ELSE 0)
      BY <1>4 DEF DeedsInv
    <3> QED BY <1>2, <2>4, <3>1, DoneByStep
  <2>6. position[c] = 8 => IF Listing = <<>> THEN asked = Missing
                           ELSE /\ output.tag = "rendered"
                                /\ asked = Object([drinkId |-> Text(Listing[1]), remoteBaseUrl |-> Server])
    <3> SUFFICES ASSUME position[c] = 8
                 PROVE  IF Listing = <<>> THEN asked = Missing
                        ELSE /\ output.tag = "rendered"
                             /\ asked = Object([drinkId |-> Text(Listing[1]), remoteBaseUrl |-> Server])
      OBVIOUS
    <3>1. callee = "searchDrinks" /\ Component[callee] = "drink-list" /\ Button[callee] = "confirmDrink"
      BY <1>2 DEF Component, Button
    <3>2. result.content = Menu
      BY <1>3, <1>4, <1>6, <2>3 DEF AnswerInv
    <3> HIDE DEF args, result
    <3> QED BY <2>3, <3>1, <3>2, ListTapped
  <2>7. position[c] = 9 => /\ output.tag = "rendered"
                           /\ asked = Object([orderId |-> ShownId(c, 3), remoteBaseUrl |-> Server])
    <3> SUFFICES ASSUME position[c] = 9
                 PROVE  /\ output.tag = "rendered"
                        /\ asked = Object([orderId |-> ShownId(c, 3), remoteBaseUrl |-> Server])
      OBVIOUS
    <3>1. callee = "confirmOrder" /\ Component[callee] = "order-confirm" /\ Button[callee] = "payOrder"
      BY <1>2 DEF Component, Button
    <3>2. result.content = Receipt(served[c][3])
      BY <1>4, <2>3, <2>4, <2>5 DEF AnswerInv
    <3>3. DeedInv(c, 3)
      BY <1>4, <2>5 DEF DeedsInv
    <3>4. served[c][3].id \in 1 .. Len(OrderIds) /\ served[c][3].drink = Listing[1] /\ Listing # <<>>
      BY <1>4, <3>3 DEF DeedInv, HandoverInv
    <3> HIDE DEF args, result
    <3> QED BY <2>3, <3>1, <3>2, <3>4, OrderTapped DEF ShownId
  <2>8. position[c] = 10 => /\ output.tag = "rendered" /\ asked # Missing
                            /\ ContentsOf(output.card[1]) = <<ShownId(c, 4), Text("paid")>>
    <3> SUFFICES ASSUME position[c] = 10
                 PROVE  /\ output.tag = "rendered" /\ asked # Missing
                        /\ ContentsOf(output.card[1]) = <<ShownId(c, 4), Text("paid")>>
      OBVIOUS
    <3>1. callee = "payOrder" /\ Component[callee] = "payment-result"
      BY <1>2 DEF Component
    <3>2. result.content = Receipt(served[c][4])
      BY <1>4, <2>3, <2>4, <2>5 DEF AnswerInv
    <3>3. DeedInv(c, 4) /\ DeedKinds[4] = "pay"
      BY <1>4, <2>5 DEF DeedsInv, DeedKinds
    <3>4. served[c][4].id \in 1 .. Len(OrderIds) /\ served[c][4].kind = "pay"
      BY <3>3 DEF DeedInv, Deed
    <3>5. asked # Missing
      BY <3>1 DEF Object, Missing
    <3> HIDE DEF args, result
    <3> QED BY <3>1, <3>2, <3>4, <3>5, PaymentShown DEF ShownId
  <2> HIDE DEF output, asked, works
  <2>9. CASE ~works
    <3>1. ~fine \/ (callee = "searchDrinks" /\ Listing = <<>>)
      <4>1. Object([drinkId |-> Text(Listing[1]), remoteBaseUrl |-> Server]) # Missing
        BY DEF Object, Missing
      <4>2. Object([orderId |-> ShownId(c, 3), remoteBaseUrl |-> Server]) # Missing
        BY DEF Object, Missing
      <4> QED BY <1>2, <2>6, <2>7, <2>8, <2>9, <4>1, <4>2 DEF works
    <3> QED BY <1>1, <2>1, <2>2, <2>9, <3>1 DEF Fail
  <2>10. CASE works
    <3>1. fine /\ Proceed(c) /\ (position[c] = 8 => Listing # <<>>)
      BY <2>1, <2>6, <2>10 DEF works
    <3>2. position'[c] = position[c] + 1 /\ printed'[c] = "none"
      BY <1>1, <1>2, <3>1 DEF Proceed
    <3>3. ~IsDone(c)' /\ (IsFree(c)' => IsFree(c))
      BY <1>1, <1>3, <2>2, <3>2 DEF IsDone, IsFree
    <3>4. DeedsInv(c)'
      BY <1>3, <2>5, <3>2, <3>3, DeedsProceed DEF DemoContext
    <3>5. AnswerInv(c)'
      BY <1>3, <3>3 DEF AnswerInv
    <3>6. HandoverInv(c)'
      BY <1>2, <1>3, <1>4, <2>2, <2>6, <2>7, <3>1, <3>2 DEF HandoverInv, ShownId
    <3>7. ReportInv(c)'
      <4>1. audit'[c] = Called(position'[c])
        <5>1. audit[c] = Called(position[c])
          BY <1>4 DEF ReportInv
        <5> QED BY <1>2, <2>2, <3>2, <5>1 DEF Called
      <4>2. position'[c] > 10 => ContentsOf(card'[c][1]) = <<ShownId(c, 4)', Text("paid")>>
        BY <1>2, <1>3, <2>2, <2>8, <3>1, <3>2 DEF ShownId
      <4> QED BY <3>2, <4>1, <4>2 DEF ReportInv
    <3> QED BY <3>2, <3>4, <3>5, <3>6, <3>7 DEF LedgerInv
  <2> QED BY <2>9, <2>10
<1> QED BY <1>5, <1>6

\* A step of a demo.
LEMMA DemoSteps ==
  ASSUME ProcessesInv, OrdersInv, OrdersInv', OrdersKept, run \in Nat, UNCHANGED run,
         NEW c \in Cli, ProcessStep(c), command[c].run = "run-demo",
         IF printed[c] = "error" THEN hindered[c] ELSE LedgerInv(c)
  PROVE  IF printed'[c] = "error" THEN hindered'[c] ELSE LedgerInv(c)'
<1>1. DOMAIN hindered = Cli
  BY DEF ProcessesInv, Domains
<1>2. CASE printed[c] = "error"
  <2>1. ~ValidatePackage(c) /\ ~PreviewComponent(c)
    BY DEF ValidatePackage, PreviewComponent
  <2>2. ASSUME NEW fine, Resolve(c, fine) \/ LoadHarness(c, fine) \/ Expire(c, fine)
        PROVE  FALSE
    BY <1>2, <2>2 DEF Resolve, LoadHarness, Expire, At, IsBusy
  <2>3. ~Send(c) /\ ~CannotSend(c) /\ ~GiveUp(c) /\ ~Receive(c)
    BY <1>2 DEF Send, CannotSend, GiveUp, Receive, IsBusy
  <2>4. ASSUME NEW callee, NEW fine, CallApi(c, callee, fine)
        PROVE  FALSE
    BY <1>2, <2>4 DEF CallApi, At, IsBusy
  <2>5. Serve(c) \/ Refuse(c)
    BY <2>1, <2>2, <2>3, <2>4 DEF ProcessStep
  <2>6. printed' = printed /\ (UNCHANGED hindered \/ Hinder(c, TRUE))
    BY <2>5 DEF Serve, Refuse
  <2> QED BY <1>1, <1>2, <2>6, Hindering
<1>3. CASE printed[c] # "error"
  <2>1. DemoContext(c)
    BY <1>3 DEF DemoContext
  <2>2. ~ValidatePackage(c) /\ ~PreviewComponent(c)
    BY DEF ValidatePackage, PreviewComponent
  <2>3. ASSUME NEW fine \in BOOLEAN, Resolve(c, fine) \/ LoadHarness(c, fine) \/ Expire(c, fine)
        PROVE  IF printed'[c] = "error" THEN hindered'[c] ELSE LedgerInv(c)'
    BY <2>1, <2>3, LedgerWorks
  <2>4. ASSUME NEW callee \in Apis, NEW fine \in BOOLEAN, CallApi(c, callee, fine)
        PROVE  IF printed'[c] = "error" THEN hindered'[c] ELSE LedgerInv(c)'
    BY <2>1, <2>4, LedgerCalls
  <2>5. CASE Send(c)
    BY <2>1, <2>5, LedgerSends
  <2>6. CASE CannotSend(c) \/ GiveUp(c)
    BY <2>1, <2>6, LedgerEnds
  <2>7. CASE Serve(c) \/ Refuse(c)
    BY <2>1, <2>7, LedgerServe
  <2>8. CASE Receive(c)
    BY <2>1, <2>8, LedgerReceives
  <2> QED BY <2>2, <2>3, <2>4, <2>5, <2>6, <2>7, <2>8 DEF ProcessStep
<1> QED BY <1>2, <1>3

\* The server is started anew: what was done is of an earlier run, and every demo under
\* way may fail.
LEMMA LedgerRestarts ==
  ASSUME ProcessesInv, run \in Nat, NEW c \in Cli, command[c].run = "run-demo", LedgerInv(c), Restart
  PROVE  LedgerInv(c)'
<1>1. /\ ProcessInv(c) /\ position[c] \in 1 .. 12 /\ DOMAIN hindered = Cli
      /\ wire[c].state \in {"idle", "sent", "answered", "lost"}
      /\ wire[c].state # "idle" => position[c] # 1
      /\ printed[c] \in {"none", "ok"}
  BY DemoAsks DEF ProcessesInv, ProcessInv, WireInv, Domains, LedgerInv, ReportInv
<1>2. /\ run' = run + 1
      /\ UNCHANGED <<position, card, arguments, audit, printed, served>>
      /\ hindered'[c] <=> hindered[c] \/ (printed[c] = "none" /\ position[c] > 1)
      /\ wire'[c] = IF wire[c].state = "sent" THEN Request("lost", Missing, Missing) ELSE wire[c]
  BY DEF Restart, local
<1>3. /\ wire'[c].state = "answered" <=> wire[c].state = "answered"
      /\ wire'[c].state # "sent"
      /\ wire'[c].state = "idle" <=> wire[c].state = "idle"
      /\ wire[c].state = "answered" \/ wire[c].state = "idle" => wire'[c] = wire[c]
  BY <1>1, <1>2 DEF Request
<1>4. DeedsInv(c) /\ AnswerInv(c) /\ HandoverInv(c) /\ ReportInv(c)
  BY DEF LedgerInv
<1>5. IsDone(c)' = IsDone(c)
  BY <1>2, <1>3 DEF IsDone
<1>6. IsFree(c)' => position[c] = 1 /\ wire[c].state = "idle"
  BY <1>1, <1>2 DEF IsFree
<1>7. DeedsInv(c)'
  <2>1. Len(served[c]) \in Nat
    BY <1>4, AppendToSeq DEF DeedsInv
  <2>2. ASSUME NEW i \in 1 .. Len(served[c])
        PROVE  DeedInv(c, i)'
    <3>1. DeedInv(c, i)
      BY <1>4 DEF DeedsInv
    <3>2. ~IsFree(c)'
      <4> SUFFICES ASSUME position[c] = 1
                   PROVE  FALSE
        BY <1>6
      <4>1. ~IsDone(c)
        BY DEF IsDone
      <4>2. Len(served[c]) = 0
        BY <1>4, <4>1, DoneByStep DEF DeedsInv
      <4> QED BY <4>2
    <3>3. served[c][i].in <= run' /\ served[c][i].in # run'
      BY <1>2, <3>1 DEF DeedInv
    <3> QED BY <1>2, <3>1, <3>2, <3>3 DEF DeedInv
  <2> QED BY <1>2, <1>4, <1>5, <2>2 DEF DeedsInv
<1>8. AnswerInv(c)'
  <2>1. IsDone(c)' => wire'[c] = wire[c]
    BY <1>3, <1>5 DEF IsDone
  <2>2. IsFree(c)' => wire'[c].state = "idle"
    BY <1>3, <1>6
  <2> QED BY <1>2, <1>3, <1>4, <1>5, <2>1, <2>2 DEF AnswerInv
<1>9. HandoverInv(c)' /\ ReportInv(c)'
  BY <1>2, <1>3, <1>4 DEF HandoverInv, ReportInv, ShownId
<1> QED BY <1>7, <1>8, <1>9 DEF LedgerInv

LEMMA DemosInvInductive ==
  ChatInv /\ DemosInv /\ [ChatNext]_<<cliVars, chat, up>> => DemosInv'
<1> SUFFICES ASSUME ChatInv, DemosInv, [ChatNext]_<<cliVars, chat, up>>
             PROVE  DemosInv'
  OBVIOUS
<1> USE DEF ChatInv
<1>1. CASE CliStep
  <2>1. PICK c \in Cli : ProcessStep(c)
    BY <1>1 DEF CliStep
  <2>2. OrdersInv' /\ OrdersKept /\ UNCHANGED <<run, turn>>
    BY <1>1, <2>1, ServerKept DEF CliStep, chat
  <2>3. UNCHANGED command /\ \A d \in Cli \ {c} : UNCHANGED ProcessOf(d)
    BY <2>1, OthersStay DEF ProcessesInv
  <2>4. \A d \in Cli \ {c} : UNCHANGED <<audit[d], hindered[d]>>
    BY <2>1, OthersReport DEF ProcessesInv
  <2>5. ASSUME NEW d \in Cli, command[d].run = "run-demo"
        PROVE  IF printed'[d] = "error" THEN hindered'[d] ELSE LedgerInv(d)'
    <3>1. CASE d = c
      BY <2>1, <2>2, <2>5, <3>1, DemoSteps DEF DemosInv
    <3>2. CASE d # c
      <4>1. UNCHANGED <<ProcessOf(d), audit[d], hindered[d], run>> /\ printed'[d] = printed[d]
        BY <2>2, <2>3, <2>4, <3>2 DEF ProcessOf
      <4> QED BY <2>2, <2>5, <4>1, LedgerStable DEF DemosInv
    <3> QED BY <3>1, <3>2
  <2> QED BY <2>2, <2>3, <2>5 DEF DemosInv
<1>2. CASE turn = "closed" /\ Restart /\ UNCHANGED <<chat, up>>
  <2>1. /\ UNCHANGED <<command, printed, turn>> /\ run' \in Nat
        /\ \A c \in Cli : hindered[c] => hindered'[c]
    <3>1. UNCHANGED <<command, printed, turn>> /\ run' = run + 1 /\ run \in Nat
      BY <1>2 DEF Restart, DemosInv, chat
    <3>2. \A c \in Cli : hindered'[c] <=> hindered[c] \/ (printed[c] = "none" /\ position[c] > 1)
      BY <1>2 DEF Restart
    <3>3. \A c \in Cli : hindered[c] => hindered'[c]
      BY <3>2
    <3> QED BY <3>1, <3>3
  <2>2. ASSUME NEW d \in Cli, command[d].run = "run-demo"
        PROVE  IF printed'[d] = "error" THEN hindered'[d] ELSE LedgerInv(d)'
    BY <1>2, <2>1, <2>2, LedgerRestarts DEF DemosInv
  <2> QED BY <1>2, <2>1, <2>2 DEF DemosInv
<1>3. CASE UNCHANGED <<cliVars, chat, up>>
  <2>1. OrdersInv' /\ OrdersKept
    BY <1>3 DEF cliVars, server, OrdersInv, OrdersKept
  <2>2. ASSUME NEW d \in Cli, command[d].run = "run-demo"
        PROVE  IF printed'[d] = "error" THEN hindered'[d] ELSE LedgerInv(d)'
    <3>1. UNCHANGED <<ProcessOf(d), audit[d], hindered[d], run>> /\ printed'[d] = printed[d]
      BY <1>3 DEF cliVars, server, local, ProcessOf
    <3> QED BY <2>1, <2>2, <3>1, LedgerStable DEF DemosInv
  <2> QED BY <1>3, <2>2 DEF DemosInv, cliVars, server, chat
\* No demo runs beside the app.
<1>4. CASE ChatStep
  <2>1. turn # "closed" /\ \A c \in Cli : command[c].run # "run-demo"
    <3>1. turn # "closed"
      BY <1>4 DEF ChatStep, SendMessage, Recognize, StartSession, StartFails, SelectDrink, PayOrder, BeginTap,
                  TurnSucceeds, TurnFails, TimeOut, Reset, ServerDies, Waiting
    <3> QED BY <3>1 DEF DemosInv
  <2> DEFINE NoDemo == \A c \in Cli : command'[c].run # "run-demo"
  <2>2. ASSUME NEW c, NEW it, Begins(c, it), it.run # "run-demo"
        PROVE  NoDemo
    BY <2>1, <2>2 DEF Begins, ProcessesInv, Domains
  <2>3. Idle.run # "run-demo" /\ \A callee, args : ApiCall(callee, args, NoInputs).run # "run-demo"
    BY DEF Idle, ApiCall
  <2>4. ASSUME NEW callee, NEW args, RunChild(callee, args)
        PROVE  NoDemo
    BY <2>2, <2>3, <2>4 DEF RunChild
  <2>5. ASSUME SendMessage \/ StartFails \/ (\E wants \in BOOLEAN : Recognize(wants)) \/ TimeOut \/ Reset \/ ServerDies
        PROVE  NoDemo
    <3>1. UNCHANGED command
      BY <2>5 DEF SendMessage, StartFails, Untouched, Recognize, TimeOut, Fail, Reset, ServerDies
    <3> QED BY <2>1, <3>1
  <2>6. ASSUME StartSession \/ \E i \in DOMAIN messages : SelectDrink(i) \/ PayOrder(i)
        PROVE  NoDemo
    <3>1. \E callee, args : RunChild(callee, args)
      BY <2>6 DEF StartSession, SelectDrink, PayOrder, BeginTap
    <3> QED BY <2>4, <3>1
  <2>7. ASSUME TurnSucceeds \/ TurnFails
        PROVE  NoDemo
    <3>1. UNCHANGED command \/ Begins(child, Idle)
      BY <2>7 DEF TurnSucceeds, TurnFails
    <3> QED BY <2>1, <2>2, <2>3, <3>1
  <2> HIDE DEF NoDemo
  <2>9. NoDemo
    BY <1>4, <2>5, <2>6, <2>7 DEF ChatStep
  <2>10. run' \in Nat
    BY ChatInvInductive DEF MessagesInv
  <2> QED BY <2>9, <2>10 DEF DemosInv, NoDemo
<1> QED BY <1>1, <1>2, <1>3, <1>4 DEF ChatNext

LEMMA DemosInvInit == ChatInit => DemosInv
<1> SUFFICES ASSUME ChatInit
             PROVE  DemosInv
  OBVIOUS
<1>1. run \in Nat
  BY DEF ChatInit, CliInit
<1>2. turn # "closed" => \A c \in Cli : command[c].run # "run-demo"
  BY DEF ChatInit, NobodyTypes, Idle
<1>3. ASSUME NEW c \in Cli
      PROVE  printed[c] # "error" /\ LedgerInv(c)
  <2>1. /\ position[c] = 1 /\ wire[c].state = "idle" /\ printed[c] = "none" /\ audit[c] = <<>>
        /\ served[c] = <<>>
    BY DEF ChatInit, CliInit, Quiet, Request
  <2>2. ~IsDone(c)
    BY <2>1 DEF IsDone
  <2>3. IsSeq(<<>>) /\ Len(<<>>) = 0
    <3>1. <<>> \in Seq({})
      OBVIOUS
    <3> QED BY <3>1 DEF IsSeq
  <2>4. DeedsInv(c)
    BY <2>1, <2>2, <2>3, DoneByStep DEF DeedsInv
  <2>5. AnswerInv(c) /\ HandoverInv(c) /\ ReportInv(c)
    BY <2>1, <2>2 DEF AnswerInv, HandoverInv, ReportInv, Called
  <2> QED BY <2>1, <2>4, <2>5 DEF LedgerInv
<1> QED BY <1>1, <1>2, <1>3 DEF DemosInv

LEMMA SpecDemos == ChatSpec => []DemosInv
BY ChatInvInit, ChatInvInductive, DemosInvInit, DemosInvInductive, PTL DEF ChatSpec

\* A demo that prints ok has bought and paid what it printed and what its cards showed, by
\* their ids and for nobody else, whatever other processes order meanwhile (run_demo).
THEOREM BuysAsShown == ChatSpec => []BoughtAsShown
<1>1. DemosInv => BoughtAsShown
  <2> SUFFICES ASSUME DemosInv, NEW c \in Cli, command[c].run = "run-demo", printed[c] = "ok"
               PROVE  /\ [i \in DOMAIN served[c] |-> served[c][i].kind] = <<"confirm", "pay", "confirm", "pay">>
                      /\ served[c][1].drink = CheckedDrink /\ served[c][3].drink = Listing[1]
                      /\ \A i \in {1, 3} :
                           /\ served[c][i + 1].id = served[c][i].id
                           /\ served[c][i + 1].in = served[c][i].in =>
                                served[c][i + 1] = [served[c][i] EXCEPT !.kind = "pay"]
                      /\ ContentsOf(card[c][1]) = <<Text(OrderIds[served[c][4].id]), Text("paid")>>
                      /\ audit[c] = <<"searchDrinks", "confirmOrder", "payOrder">>
    BY DEF BoughtAsShown
  <2>1. DeedsInv(c) /\ ReportInv(c)
    BY DEF DemosInv, LedgerInv
  <2>2. position[c] = 12 /\ ~IsDone(c)
    BY <2>1 DEF ReportInv, IsDone
  <2>3. Len(served[c]) = 4 /\ DOMAIN served[c] = 1 .. 4
    BY <2>1, <2>2, DoneByStep, AppendToSeq DEF DeedsInv
  <2>4. /\ DeedInv(c, 1) /\ DeedInv(c, 2) /\ DeedInv(c, 3) /\ DeedInv(c, 4)
    <3>1. \A i \in 1 .. 4 : DeedInv(c, i)
      <4>1. \A i \in 1 .. Len(served[c]) : DeedInv(c, i)
        BY <2>1 DEF DeedsInv
      <4> QED BY <2>3, <4>1
    <3> QED BY <3>1
  <2>5. /\ served[c][1].kind = "confirm" /\ served[c][2].kind = "pay"
        /\ served[c][3].kind = "confirm" /\ served[c][4].kind = "pay"
    BY <2>4 DEF DeedInv, Deed, DeedKinds
  <2>6. [i \in DOMAIN served[c] |-> served[c][i].kind] = <<"confirm", "pay", "confirm", "pay">>
    <3> DEFINE kinds == [i \in 1 .. 4 |-> served[c][i].kind]
    <3>1. \A i \in 1 .. 4 : i = 1 \/ i = 2 \/ i = 3 \/ i = 4
      OBVIOUS
    <3>2. \A i \in 1 .. 4 : kinds[i] = <<"confirm", "pay", "confirm", "pay">>[i]
      BY <2>5, <3>1
    <3>3. kinds = <<"confirm", "pay", "confirm", "pay">>
      BY <3>2
    <3> QED BY <2>3, <3>3
  <2>7. ASSUME NEW i \in {1, 3}
        PROVE  /\ served[c][i + 1].id = served[c][i].id
               /\ served[c][i + 1].in = served[c][i].in =>
                    served[c][i + 1] = [served[c][i] EXCEPT !.kind = "pay"]
    <3> DEFINE Follows(j) == /\ served[c][j].id = served[c][j - 1].id
                             /\ served[c][j - 1].in = served[c][j].in =>
                                  served[c][j] = [served[c][j - 1] EXCEPT !.kind = "pay"]
    <3>1. Follows(2) /\ Follows(4)
      BY <2>4 DEF DeedInv
    <3>2. \A j \in {2, 4} : j - 1 = IF j = 2 THEN 1 ELSE 3
      OBVIOUS
    <3> QED BY <3>1, <3>2
  <2>8. Called(12) = <<"searchDrinks", "confirmOrder", "payOrder">>
    BY DEF Called
  <2> QED BY <2>1, <2>2, <2>4, <2>6, <2>7, <2>8 DEF DeedInv, ReportInv, ShownId
<1> QED BY <1>1, SpecDemos, PTL

\* What the commands, the APIs and the cards hand to each other always fits: a demo fails
\* only when something outside goes wrong (run_demo).
THEOREM FailsOnlyForCause == ChatSpec => []FailsForCause
<1>1. DemosInv => FailsForCause
  BY DEF DemosInv, FailsForCause
<1> QED BY <1>1, SpecDemos, PTL

----------------------------------------------------------------------------
(* Paths and places *)

\* Induction over the numbers, for a set of them.
LEMMA NatSetInduction ==
  ASSUME NEW S, 0 \in S, \A n \in Nat : n \in S => n + 1 \in S
  PROVE  Nat \subseteq S
<1> DEFINE T == {n \in Nat : n \notin S}
           R == OpToRel(<, Nat)
<1> SUFFICES ASSUME T # {} PROVE FALSE
  OBVIOUS
<1>1. IsWellFoundedOn(R, Nat)
  BY NatLessThanWellFounded
<1>2. \A x, y \in Nat : x < y => <<x, y>> \in R
  BY DEF OpToRel
<1> HIDE DEF R
<1>3. PICK x \in T : \A y \in T : ~ (<<y, x>> \in R)
  BY <1>1, WFMin
<1>4. x # 0 /\ x \in Nat
  OBVIOUS
<1>5. x - 1 \in Nat /\ x - 1 < x /\ (x - 1) + 1 = x
  BY <1>4
<1>6. x - 1 \in T
  BY <1>5, <1>3
<1> QED BY <1>3, <1>2, <1>5, <1>6

\* The places that a path leads through.
IsTrail(tree, path, n, w) ==
  w = [i \in 0 .. n |-> IF i = 0 THEN <<>> ELSE Walk(tree, w[i - 1], path[i])]

LEMMA TrailStep ==
  ASSUME NEW tree, NEW path, NEW n \in Nat, NEW w, IsTrail(tree, path, n, w)
  PROVE  \E v : IsTrail(tree, path, n + 1, v)
<1> DEFINE v == [i \in 0 .. n + 1 |-> IF i = n + 1 THEN Walk(tree, w[n], path[n + 1]) ELSE w[i]]
<1>1. \A i \in 0 .. n : w[i] = IF i = 0 THEN <<>> ELSE Walk(tree, w[i - 1], path[i])
  BY DEF IsTrail
<1>2. ASSUME NEW i \in 0 .. n + 1
      PROVE  v[i] = IF i = 0 THEN <<>> ELSE Walk(tree, v[i - 1], path[i])
  <2>1. CASE i = n + 1
    <3>1. v[n + 1] = Walk(tree, w[n], path[n + 1]) /\ v[n] = w[n] /\ i - 1 = n
      BY <2>1
    <3> QED BY <2>1, <3>1
  <2>2. CASE i # n + 1
    <3>1. i \in 0 .. n /\ v[i] = w[i] /\ (i # 0 => i - 1 \in 0 .. n /\ v[i - 1] = w[i - 1])
      BY <2>2
    <3> QED BY <1>1, <3>1
  <2> QED BY <2>1, <2>2
<1>3. v = [i \in 0 .. n + 1 |-> v[i]]
  OBVIOUS
<1> HIDE DEF v
<1> QED BY <1>2, <1>3 DEF IsTrail

LEMMA TrailExists ==
  ASSUME NEW tree, NEW path, NEW n \in Nat
  PROVE  \E w : IsTrail(tree, path, n, w)
<1> DEFINE Good == {m \in Nat : \E w : IsTrail(tree, path, m, w)}
<1>1. 0 \in Good
  <2>1. IsTrail(tree, path, 0, [i \in 0 .. 0 |-> <<>>])
    BY DEF IsTrail
  <2> QED BY <2>1
<1>2. \A m \in Nat : m \in Good => m + 1 \in Good
  BY TrailStep
<1> HIDE DEF Good
<1>3. Nat \subseteq Good
  BY <1>1, <1>2, NatSetInduction
<1> QED BY <1>3 DEF Good

LEMMA TrailUnique ==
  ASSUME NEW tree, NEW path, NEW longer, NEW m \in Nat, NEW n \in Nat, m <= n,
         \A i \in 1 .. m : path[i] = longer[i],
         NEW v, IsTrail(tree, path, m, v), NEW w, IsTrail(tree, longer, n, w)
  PROVE  v[m] = w[m]
<1> DEFINE Good == {i \in Nat : i <= m => v[i] = w[i]}
<1>1. \A i \in 0 .. m : v[i] = IF i = 0 THEN <<>> ELSE Walk(tree, v[i - 1], path[i])
  BY DEF IsTrail
<1>2. \A i \in 0 .. n : w[i] = IF i = 0 THEN <<>> ELSE Walk(tree, w[i - 1], longer[i])
  BY DEF IsTrail
<1>3. 0 \in Good
  BY <1>1, <1>2
<1>4. ASSUME NEW i \in Nat, i \in Good
      PROVE  i + 1 \in Good
  <2> SUFFICES ASSUME i + 1 <= m PROVE v[i + 1] = w[i + 1]
    OBVIOUS
  <2>1. v[i] = w[i] /\ (i + 1) - 1 = i /\ i + 1 \in 0 .. m /\ i + 1 \in 0 .. n /\ i + 1 # 0 /\ i + 1 \in 1 .. m
    BY <1>4
  <2>2. v[i + 1] = Walk(tree, v[i], path[i + 1])
    BY <1>1, <2>1
  <2>3. w[i + 1] = Walk(tree, w[i], longer[i + 1])
    BY <1>2, <2>1
  <2> QED BY <2>1, <2>2, <2>3
<1> HIDE DEF Good
<1>5. Nat \subseteq Good
  BY <1>3, <1>4, NatSetInduction
<1> QED BY <1>5 DEF Good

LEMMA LocateTrail ==
  ASSUME NEW tree, NEW path, Len(path) \in Nat
  PROVE  \E w : IsTrail(tree, path, Len(path), w) /\ Locate(tree, path) = w[Len(path)]
<1> DEFINE w == CHOOSE w : IsTrail(tree, path, Len(path), w)
<1>1. IsTrail(tree, path, Len(path), w)
  BY TrailExists
<1>2. Locate(tree, path) = w[Len(path)]
  BY DEF Locate, IsTrail
<1> QED BY <1>1, <1>2

LEMMA LocateEmpty == \A tree : Locate(tree, <<>>) = <<>>
<1> SUFFICES ASSUME NEW tree PROVE Locate(tree, <<>>) = <<>>
  OBVIOUS
<1>1. Len(<<>>) = 0
  OBVIOUS
<1>2. PICK w : IsTrail(tree, <<>>, 0, w) /\ Locate(tree, <<>>) = w[0]
  BY <1>1, LocateTrail
<1> QED BY <1>2 DEF IsTrail

IsPath(s) == s \in Seq(Range(s))

LEMMA IntoSeq ==
  ASSUME NEW S, NEW s, NEW n \in Nat, s \in [1 .. n -> S]
  PROVE  s \in Seq(S)
OBVIOUS

LEMMA SeqIsPath ==
  ASSUME NEW S, NEW s \in Seq(S)
  PROVE  IsPath(s)
<1>1. Len(s) \in Nat /\ DOMAIN s = 1 .. Len(s) /\ s \in [1 .. Len(s) -> S]
  BY LenProperties
<1>2. \A i \in 1 .. Len(s) : s[i] \in Range(s)
  BY <1>1 DEF Range
<1>3. s \in [1 .. Len(s) -> Range(s)]
  BY <1>1, <1>2
<1> QED BY <1>1, <1>3, IntoSeq DEF IsPath

LEMMA PathShape ==
  ASSUME NEW s, IsPath(s)
  PROVE  /\ Len(s) \in Nat /\ DOMAIN s = 1 .. Len(s) /\ s \in [1 .. Len(s) -> Range(s)]
         /\ Len(s) = 0 => s = <<>>
BY LenProperties, EmptySeq DEF IsPath

LEMMA AppendedPart ==
  ASSUME NEW s, IsPath(s), NEW x
  PROVE  /\ IsPath(Append(s, x)) /\ Append(s, x) # <<>>
         /\ Len(Append(s, x)) = Len(s) + 1 /\ Len(s) \in Nat
         /\ Front(Append(s, x)) = s /\ Last(Append(s, x)) = x
         /\ Append(s, x)[Len(s) + 1] = x /\ \A i \in 1 .. Len(s) : Append(s, x)[i] = s[i]
<1> DEFINE t == Append(s, x)
           S == Range(s) \cup {x}
<1>1. Len(s) \in Nat /\ s = [i \in 1 .. Len(s) |-> s[i]] /\ \A i \in 1 .. Len(s) : s[i] \in Range(s)
  BY PathShape
<1>2. s \in Seq(S) /\ x \in S
  <2>1. s \in [1 .. Len(s) -> S]
    BY <1>1
  <2> QED BY <1>1, <2>1, IntoSeq
<1> HIDE DEF S
<1>3. /\ t \in Seq(S) /\ t # <<>> /\ Len(t) = Len(s) + 1 /\ t[Len(s) + 1] = x /\ \A i \in 1 .. Len(s) : t[i] = s[i]
  BY <1>2, AppendProperties
<1> HIDE DEF t
<1>4. Front(t) \in Seq(S) /\ Len(Front(t)) = Len(s) /\ \A i \in 1 .. Len(s) : Front(t)[i] = s[i]
  <2>1. Front(t) = SubSeq(t, 1, Len(s))
    BY <1>1, <1>3 DEF Front
  <2>2. \A i \in 1 .. Len(s) : t[i] \in S
    BY <1>2, <1>3, ElementOfSeq
  <2> QED BY <1>1, <1>3, <2>1, <2>2, SubSeqProperties
<1>5. Front(t) = s
  BY <1>2, <1>4, SeqEqual
<1>6. IsPath(t)
  BY <1>3, SeqIsPath
<1> QED BY <1>1, <1>3, <1>5, <1>6 DEF Last, t

LEMMA FrontAndLast ==
  ASSUME NEW s, IsPath(s), s # <<>>
  PROVE  /\ IsPath(Front(s)) /\ s = Append(Front(s), Last(s))
         /\ Len(Front(s)) = Len(s) - 1 /\ Len(s) \in Nat \ {0}
<1> DEFINE S == Range(s)
<1>1. s \in Seq(S) /\ Len(s) \in Nat \ {0} /\ \A i \in 1 .. Len(s) : s[i] \in S
  BY LenProperties, EmptySeq, ElementOfSeq DEF IsPath
<1> HIDE DEF S
<1>2. Front(s) \in Seq(S) /\ Len(Front(s)) = Len(s) - 1 /\ \A i \in 1 .. Len(s) - 1 : Front(s)[i] = s[i]
  <2>1. Front(s) = SubSeq(s, 1, Len(s) - 1)
    BY DEF Front
  <2>2. Len(s) - 1 \in Int /\ (Len(s) - 1) - 1 + 1 = Len(s) - 1 /\ \A i \in 1 .. Len(s) - 1 : s[i] \in S
    BY <1>1
  <2> QED BY <1>1, <2>1, <2>2, SubSeqProperties
<1>3. Last(s) \in S /\ Last(s) = s[Len(s)]
  BY <1>1 DEF Last
<1>4. /\ Append(Front(s), Last(s)) \in Seq(S) /\ Len(Append(Front(s), Last(s))) = Len(s)
      /\ \A i \in 1 .. Len(s) : Append(Front(s), Last(s))[i] = s[i]
  BY <1>1, <1>2, <1>3, AppendProperties
<1>5. s = Append(Front(s), Last(s))
  BY <1>1, <1>4, SeqEqual
<1>6. IsPath(Front(s))
  BY <1>2, SeqIsPath
<1> QED BY <1>1, <1>2, <1>5, <1>6

\* A path leads one step further than the path before its last part.
LEMMA LocateAppend ==
  ASSUME NEW tree, NEW path, IsPath(path), NEW part
  PROVE  Locate(tree, Append(path, part)) = Walk(tree, Locate(tree, path), part)
<1> DEFINE longer == Append(path, part)
           n == Len(path)
<1>1. n \in Nat /\ Len(longer) = n + 1 /\ longer[n + 1] = part /\ \A i \in 1 .. n : path[i] = longer[i]
  BY AppendedPart
<1> HIDE DEF longer, n
<1>2. PICK v : IsTrail(tree, path, n, v) /\ Locate(tree, path) = v[n]
  BY <1>1, LocateTrail DEF n
<1>3. PICK w : IsTrail(tree, longer, n + 1, w) /\ Locate(tree, longer) = w[n + 1]
  BY <1>1, LocateTrail
<1>4. n <= n + 1 /\ n + 1 \in Nat
  BY <1>1
<1>5. v[n] = w[n]
  BY <1>1, <1>2, <1>3, <1>4, TrailUnique
<1>6. w[n + 1] = Walk(tree, w[n], longer[n + 1])
  <2>1. n + 1 \in 0 .. n + 1 /\ n + 1 # 0 /\ (n + 1) - 1 = n
    BY <1>1
  <2>2. \A i \in 0 .. n + 1 : w[i] = IF i = 0 THEN <<>> ELSE Walk(tree, w[i - 1], longer[i])
    BY <1>3 DEF IsTrail
  <2> QED BY <2>1, <2>2
<1> QED BY <1>1, <1>2, <1>3, <1>5, <1>6 DEF longer

\* What lies at a place.
LEMMA Entries ==
  ASSUME NEW tree, IsTree(tree)
  PROVE  /\ EntryAt(tree, <<>>) = "directory"
         /\ EntryAt(tree, Outside) = "linked directory" /\ EntryAt(tree, Nowhere) = "nothing"
         /\ \A place \in DOMAIN tree : EntryAt(tree, place) = tree[place]
         /\ \A place : place \notin DOMAIN tree /\ place \notin {<<>>, Outside} => EntryAt(tree, place) = "nothing"
<1>1. \A place \in DOMAIN tree : place # <<>> /\ Last(place) # "" /\ place # Outside /\ place # Nowhere
  <2> SUFFICES ASSUME NEW place \in DOMAIN tree
               PROVE  place # <<>> /\ Last(place) # "" /\ place # Outside /\ place # Nowhere
    OBVIOUS
  <2>1. place # <<>> /\ Last(place) # ""
    BY DEF IsTree, IsPlace
  <2>2. Last(Outside) = "" /\ Last(Nowhere) = ""
    BY DEF Last, Outside, Nowhere
  <2> QED BY <2>1, <2>2
<1>2. <<>> # Outside /\ <<>> # Nowhere /\ Outside # Nowhere
  BY DEF Outside, Nowhere
<1>3. EntryAt(tree, <<>>) = "directory" /\ EntryAt(tree, Outside) = "linked directory"
  BY <1>1, <1>2 DEF EntryAt
<1>4. \A place \in DOMAIN tree : EntryAt(tree, place) = tree[place]
  BY <1>1, <1>2 DEF EntryAt
<1>5. \A place : place \notin DOMAIN tree /\ place \notin {<<>>, Outside} => EntryAt(tree, place) = "nothing"
  BY DEF EntryAt
<1>6. Nowhere \notin DOMAIN tree
  BY <1>1
<1> QED BY <1>2, <1>3, <1>4, <1>5, <1>6

\* The root of the package, and what lies below it.
Places(tree) == {<<>>} \cup DOMAIN tree

IsName(part) == part \notin {"", ".", ".."}

LEMMA PlaceParts ==
  ASSUME NEW tree, IsTree(tree), NEW place \in DOMAIN tree
  PROVE  /\ IsPath(place) /\ place # <<>> /\ IsName(Last(place))
         /\ Front(place) \in Places(tree) /\ EntryAt(tree, Front(place)) = "directory"
<1>1. IsPath(place) /\ place # <<>> /\ Last(place) \notin {"", ".", ".."} /\ EntryAt(tree, Front(place)) = "directory"
  BY DEF IsTree, IsPlace, IsPath
<1>2. Front(place) \in Places(tree)
  <2>1. EntryAt(tree, Front(place)) \notin {"linked directory", "nothing"}
    BY <1>1
  <2>2. Front(place) # Outside
    BY <2>1, Entries
  <2>3. Front(place) \in DOMAIN tree \/ Front(place) = <<>>
    BY <2>1, <2>2, Entries
  <2> QED BY <2>3 DEF Places
<1> QED BY <1>1, <1>2 DEF IsName

LEMMA PlaceIsPath ==
  ASSUME NEW tree, IsTree(tree), NEW place \in Places(tree)
  PROVE  IsPath(place) /\ Len(place) \in Nat /\ DOMAIN place = 1 .. Len(place)
<1>1. IsPath(<<>>)
  BY EmptySeq, SeqIsPath
<1>2. IsPath(place)
  BY <1>1, PlaceParts DEF Places
<1> QED BY <1>2, PathShape

\* A directory or a file of the package is one of its places.
LEMMA InsideIsPlace ==
  ASSUME NEW tree, IsTree(tree), NEW place, EntryAt(tree, place) \in {"directory", "file"}
  PROVE  place \in Places(tree) /\ ValidateInside(tree, place) = place
<1>1. place # Outside /\ EntryAt(tree, place) # "nothing"
  BY Entries
<1>2. place \in DOMAIN tree \/ place = <<>>
  BY <1>1, Entries
<1> QED BY <1>2 DEF Places, ValidateInside

\* A name in a place: what is there, and where the path to it leads.
LEMMA EntryIn ==
  ASSUME NEW tree, IsTree(tree), NEW place \in Places(tree), NEW name, IsName(name)
  PROVE  /\ EntryAt(tree, Append(place, name)) =
              IF Append(place, name) \in DOMAIN tree THEN tree[Append(place, name)] ELSE "nothing"
         /\ Append(place, name) # Nowhere
<1>1. IsPath(place)
  BY PlaceIsPath
<1>2. name # ""
  BY DEF IsName
<1>3. Last(Append(place, name)) = name /\ Append(place, name) # <<>>
  BY <1>1, <1>2, AppendedPart
<1>4. Last(Outside) = "" /\ Last(Nowhere) = ""
  BY DEF Last, Outside, Nowhere
<1>5. Append(place, name) \notin {<<>>, Outside, Nowhere}
  BY <1>2, <1>3, <1>4
<1> QED BY <1>5, Entries

LEMMA LocateIn ==
  ASSUME NEW tree, IsTree(tree), NEW place \in Places(tree), Locate(tree, place) = place,
         NEW name, IsName(name)
  PROVE  Locate(tree, Append(place, name)) =
           IF Append(place, name) \in DOMAIN tree THEN Append(place, name) ELSE Nowhere
<1>1. IsPath(place)
  BY PlaceIsPath
<1>2. Locate(tree, Append(place, name)) = Walk(tree, place, name)
  BY <1>1, LocateAppend
<1>3. Append(place, name) \in DOMAIN tree => EntryAt(tree, place) = "directory"
  BY <1>1, PlaceParts, AppendedPart
<1> QED BY <1>2, <1>3 DEF Walk, IsName

\* The path of a place leads to it, and is made of names.
LEMMA LocatePlace ==
  ASSUME NEW tree, IsTree(tree), NEW place \in Places(tree)
  PROVE  Locate(tree, place) = place /\ \A i \in 1 .. Len(place) : IsName(place[i])
<1> DEFINE Good == {n \in Nat : \A p \in Places(tree) : Len(p) = n =>
                                  Locate(tree, p) = p /\ \A i \in 1 .. n : IsName(p[i])}
<1>1. 0 \in Good
  <2> SUFFICES ASSUME NEW p \in Places(tree), Len(p) = 0
               PROVE  Locate(tree, p) = p
    OBVIOUS
  <2>1. p = <<>>
    BY PlaceIsPath, PathShape
  <2> QED BY <2>1, LocateEmpty
<1>2. ASSUME NEW n \in Nat, n \in Good
      PROVE  n + 1 \in Good
  <2> SUFFICES ASSUME NEW p \in Places(tree), Len(p) = n + 1
               PROVE  Locate(tree, p) = p /\ \A i \in 1 .. n + 1 : IsName(p[i])
    OBVIOUS
  <2>1. p \in DOMAIN tree
    <3>1. Len(<<>>) # n + 1
      BY EmptySeq
    <3> QED BY <3>1 DEF Places
  <2>2. /\ IsPath(p) /\ p # <<>> /\ IsName(Last(p))
        /\ Front(p) \in Places(tree)
    BY <2>1, PlaceParts
  <2>3. p = Append(Front(p), Last(p)) /\ Len(Front(p)) = n /\ IsPath(Front(p))
    BY <2>2, FrontAndLast
  <2>4. Locate(tree, Front(p)) = Front(p) /\ \A i \in 1 .. n : IsName(Front(p)[i])
    BY <1>2, <2>2, <2>3
  <2>5. Locate(tree, Append(Front(p), Last(p))) =
          IF Append(Front(p), Last(p)) \in DOMAIN tree THEN Append(Front(p), Last(p)) ELSE Nowhere
    BY <2>2, <2>4, LocateIn
  <2>6. p[n + 1] = Last(p) /\ \A i \in 1 .. n : p[i] = Front(p)[i]
    BY <2>3, AppendedPart
  <2>7. \A i \in 1 .. n + 1 : IsName(p[i])
    BY <2>2, <2>4, <2>6
  <2> QED BY <2>1, <2>3, <2>5, <2>7
<1> HIDE DEF Good
<1>3. Nat \subseteq Good
  BY <1>1, <1>2, NatSetInduction
<1>4. Len(place) \in Nat
  BY PlaceIsPath
<1> QED BY <1>3, <1>4 DEF Good

LEMMA EntryKinds ==
  ASSUME NEW tree, IsTree(tree), NEW place \in Places(tree)
  PROVE  EntryAt(tree, place) \in {"directory", "file", "linked directory", "linked file"}
<1>1. \A p \in DOMAIN tree : tree[p] \in {"directory", "file", "linked directory", "linked file"}
  BY DEF IsTree
<1> QED BY <1>1, Entries DEF Places

\* A place is not absolute, and leads nowhere up.
LEMMA PlacePath ==
  ASSUME NEW tree, IsTree(tree), NEW place \in Places(tree)
  PROVE  ~ IsAbsolute(place) /\ ".." \notin Range(place)
<1>1. IsPath(place) /\ Len(place) \in Nat /\ DOMAIN place = 1 .. Len(place)
  BY PlaceIsPath
<1>2. \A i \in 1 .. Len(place) : place[i] # "" /\ place[i] # ".."
  BY LocatePlace DEF IsName
<1>3. ".." \notin Range(place)
  BY <1>1, <1>2 DEF Range
<1>4. ASSUME Len(place) > 1 PROVE Head(place) # ""
  <2>1. Head(place) = place[1] /\ 1 \in 1 .. Len(place)
    BY <1>1, <1>4
  <2> QED BY <2>1, <1>2
<1> QED BY <1>3, <1>4 DEF IsAbsolute

\* A directory of the package is a component by its own path.
LEMMA ResolveDirectory ==
  ASSUME NEW tree, IsTree(tree), NEW place \in Places(tree), IsDirectory(tree, place)
  PROVE  ResolveComponentPath(tree, place) = ValidateInside(tree, place)
BY LocatePlace, PlacePath DEF ResolveComponentPath

LEMMA ResolvePlace ==
  ASSUME NEW tree, IsTree(tree), NEW place \in Places(tree)
  PROVE  ResolvePackagePath(tree, place) = ValidateInside(tree, place)
BY LocatePlace, PlacePath DEF ResolvePackagePath

LEMMA IndexParent ==
  ASSUME NEW place, IsPath(place)
  PROVE  ParentOfIndex(Append(place, "index")) = place
<1> DEFINE path == Append(place, "index")
           n == Len(place)
           names == {i \in DOMAIN path : path[i] \notin {"", "."}}
<1>1. /\ IsPath(path) /\ Len(path) = n + 1 /\ n \in Nat /\ DOMAIN path = 1 .. n + 1
      /\ Front(path) = place /\ path[n + 1] = "index"
  BY AppendedPart, PathShape
<1> HIDE DEF path, n
<1>2. n + 1 \in names /\ (\A i \in names : n + 1 >= i) /\ names \subseteq 1 .. n + 1
  <2>1. n + 1 \in 1 .. n + 1 /\ \A i \in 1 .. n + 1 : n + 1 >= i
    BY <1>1
  <2>2. path[n + 1] \notin {"", "."}
    BY <1>1
  <2>3. names \subseteq 1 .. n + 1 /\ n + 1 \in names
    BY <1>1, <2>1, <2>2
  <2> QED BY <2>1, <2>3
<1>3. Max(names) = n + 1
  <2>1. PICK x : x = Max(names) /\ x \in names /\ \A i \in names : x >= i
    BY <1>2 DEF Max
  <2>2. x \in 1 .. n + 1 /\ x >= n + 1
    BY <1>2, <2>1
  <2>3. x = n + 1
    BY <1>1, <2>2
  <2> QED BY <2>1, <2>3
<1>4. Front(path) = SubSeq(path, 1, (n + 1) - 1)
  BY <1>1 DEF Front
<1>5. names # {}
  BY <1>2
<1>6. ParentOfIndex(path) = IF names # {} /\ path[Max(names)] = "index" THEN SubSeq(path, 1, Max(names) - 1) ELSE path
  BY DEF ParentOfIndex
<1> HIDE DEF names
<1>7. ParentOfIndex(path) = Front(path)
  BY <1>1, <1>3, <1>4, <1>5, <1>6
<1> QED BY <1>1, <1>7 DEF path

\* The index in a directory of the package, which is not a directory itself, names
\* that directory.
LEMMA ResolveIndex ==
  ASSUME NEW tree, IsTree(tree), NEW place \in Places(tree),
         ~ IsDirectory(tree, Append(place, "index"))
  PROVE  ResolveComponentPath(tree, Append(place, "index")) = ValidateInside(tree, place)
<1> DEFINE path == Append(place, "index")
<1>1. IsName("index")
  BY DEF IsName
<1>2. Locate(tree, path) \in {path, Nowhere}
  BY <1>1, LocatePlace, LocateIn
<1>3. ~ IsDirectory(tree, Locate(tree, path))
  BY <1>2, Entries DEF IsDirectory
<1>4. ParentOfIndex(path) = place
  BY PlaceIsPath, IndexParent
<1>5. ~ IsAbsolute(path)
  <2>1. IsPath(place) /\ Len(place) \in Nat /\ Len(path) = Len(place) + 1 /\ IsPath(path)
    BY PlaceIsPath, AppendedPart
  <2>2. \A i \in 1 .. Len(place) : path[i] = place[i]
    BY <2>1, AppendedPart
  <2>3. \A i \in 1 .. Len(place) : place[i] # ""
    BY LocatePlace DEF IsName
  <2>4. ASSUME Len(path) > 1 PROVE Head(path) # ""
    <3>1. Head(path) = path[1] /\ 1 \in 1 .. Len(place)
      BY <2>1, <2>4
    <3> QED BY <2>2, <2>3, <3>1
  <2> QED BY <2>4 DEF IsAbsolute
<1> HIDE DEF path
<1>6. ResolveComponentPath(tree, path) = ResolvePackagePath(tree, place)
  BY <1>3, <1>4, <1>5 DEF ResolveComponentPath
<1> QED BY <1>6, ResolvePlace DEF path

\* Whatever names it, a component that resolves lies inside.
LEMMA ResolvedInside ==
  ASSUME NEW tree, IsTree(tree), NEW path, ResolveComponentPath(tree, path) # Nowhere
  PROVE  EntryAt(tree, ResolveComponentPath(tree, path)) \in {"directory", "file"}
<1>1. \A place : ValidateInside(tree, place) # Nowhere => EntryAt(tree, ValidateInside(tree, place)) \in {"directory", "file"}
  BY DEF ValidateInside
<1>2. \A any : ResolvePackagePath(tree, any) # Nowhere => EntryAt(tree, ResolvePackagePath(tree, any)) \in {"directory", "file"}
  BY <1>1 DEF ResolvePackagePath
<1> QED BY <1>1, <1>2 DEF ResolveComponentPath

\* A file that may be missing, in a directory of the package: read, it is one that
\* belongs to the package.
LEMMA OptionalFile ==
  ASSUME NEW tree, IsTree(tree), NEW place \in Places(tree), NEW name, IsName(name)
  PROVE  ReadsOptional(tree, Append(place, name)) <=> EntryAt(tree, Append(place, name)) \in {"file", "nothing"}
<1> DEFINE path == Append(place, name)
<1>1. path # Nowhere /\ EntryAt(tree, path) = IF path \in DOMAIN tree THEN tree[path] ELSE "nothing"
  BY EntryIn
<1>2. Locate(tree, path) = IF path \in DOMAIN tree THEN path ELSE Nowhere
  BY LocatePlace, LocateIn
<1>3. CASE path \notin DOMAIN tree
  BY <1>1, <1>2, <1>3 DEF ReadsOptional
<1>4. CASE path \in DOMAIN tree
  <2>1. path \in Places(tree)
    BY <1>4 DEF Places
  <2>2. EntryAt(tree, path) \in {"directory", "file", "linked directory", "linked file"}
    BY <2>1, EntryKinds
  <2>3. ResolvePackagePath(tree, path) = ValidateInside(tree, path)
    BY <2>1, ResolvePlace
  <2>4. EntryAt(tree, Nowhere) = "nothing"
    BY Entries
  <2>5. EntryAt(tree, ValidateInside(tree, path)) = "file" <=> EntryAt(tree, path) = "file"
    BY <2>4 DEF ValidateInside
  <2> QED BY <1>1, <1>2, <1>4, <2>2, <2>3, <2>5 DEF ReadsOptional, ReadsRequired
<1> QED BY <1>3, <1>4

----------------------------------------------------------------------------
(* Packages that are taken *)

\* Two names of one API are one.
LEMMA OneDeclaration ==
  ASSUME NEW manifest, NEW discovered, IsValidManifest(manifest, discovered), IsPath(manifest.apis)
  PROVE  \A i, j \in DOMAIN manifest.apis : manifest.apis[i].name = manifest.apis[j].name => i = j
<1> DEFINE apis == manifest.apis
<1>1. \A i \in DOMAIN apis : \A j \in 1 .. i - 1 : apis[j].name # apis[i].name
  BY DEF IsValidManifest
<1>2. DOMAIN apis = 1 .. Len(apis) /\ Len(apis) \in Nat
  BY PathShape
<1> HIDE DEF apis
<1>3. ASSUME NEW i \in DOMAIN apis, NEW j \in DOMAIN apis, apis[i].name = apis[j].name
      PROVE  i = j
  <2>1. i \in 1 .. Len(apis) /\ j \in 1 .. Len(apis) /\ (i < j => i \in 1 .. j - 1) /\ (j < i => j \in 1 .. i - 1)
    BY <1>2
  <2>2. ~ (i < j) /\ ~ (j < i)
    BY <1>1, <1>3, <2>1
  <2> QED BY <1>2, <2>1, <2>2
<1> QED BY <1>3 DEF apis

\* The card of an API of a package that is taken resolves to a component that was
\* loaded, also when it is named by a directory and was loaded by the index in it.
LEMMA CardIsChecked ==
  ASSUME NEW package, IsTree(package.tree), LoadsSkill(package),
         NEW path, path \in Range(package.manifest.components) \cup Discovered(package.tree)
                              \cup {Front(any) : any \in Discovered(package.tree)},
         ~ IsDirectory(package.tree, Append(ResolveComponentPath(package.tree, path), "index"))
  PROVE  \E route \in Routes(package) :
           /\ ResolveComponentPath(package.tree, path) = ResolveComponentPath(package.tree, route)
           /\ LoadsComponent(package.tree, route)
<1> DEFINE tree == package.tree
<1>1. \A route \in Routes(package) : LoadsComponent(tree, route)
  BY DEF LoadsSkill
<1>2. CASE path \in Routes(package)
  BY <1>1, <1>2
<1>3. CASE path \in {Front(any) : any \in Discovered(tree)}
  <2>1. PICK any \in Discovered(tree) : path = Front(any)
    BY <1>3
  <2>2. PICK place \in DOMAIN tree : any = Append(place, "index") /\ IsDirectory(tree, place)
    BY <2>1 DEF Discovered
  <2>3. place \in Places(tree)
    BY <2>2 DEF Places
  <2>4. path = place
    BY <2>1, <2>2, <2>3, PlaceIsPath, AppendedPart
  <2>5. any \in Routes(package) /\ LoadsComponent(tree, any)
    BY <1>1, <2>1 DEF Routes
  <2>6. ResolveComponentPath(tree, path) = ValidateInside(tree, place)
    BY <2>2, <2>3, <2>4, ResolveDirectory
  <2>7. CASE EntryAt(tree, place) = "directory"
    <3>1. ValidateInside(tree, place) = place
      BY <2>7 DEF ValidateInside
    <3>2. ~ IsDirectory(tree, Append(place, "index"))
      BY <2>6, <3>1
    <3>3. ResolveComponentPath(tree, any) = ValidateInside(tree, place)
      BY <2>2, <2>3, <3>2, ResolveIndex
    <3> QED BY <2>5, <2>6, <3>3
  <2>8. CASE EntryAt(tree, place) = "linked directory"
    <3>1. ValidateInside(tree, place) = Nowhere
      BY <2>8 DEF ValidateInside
    <3>2. Append(place, "index") \notin DOMAIN tree
      <4>1. Append(place, "index") \in DOMAIN tree => EntryAt(tree, Front(Append(place, "index"))) = "directory"
        BY PlaceParts
      <4>2. Front(Append(place, "index")) = place
        BY <2>3, PlaceIsPath, AppendedPart
      <4> QED BY <2>8, <4>1, <4>2
    <3>3. IsName("index")
      BY DEF IsName
    <3>4. ~ IsDirectory(tree, Append(place, "index"))
      BY <2>3, <3>2, <3>3, EntryIn DEF IsDirectory
    <3>5. ResolveComponentPath(tree, any) = Nowhere
      BY <2>2, <2>3, <3>1, <3>4, ResolveIndex
    <3> QED BY <2>5, <3>5 DEF LoadsComponent
  <2> QED BY <2>2, <2>7, <2>8 DEF IsDirectory
<1> QED BY <1>2, <1>3 DEF Routes

LEMMA FileNames == \A file \in ComponentFiles : IsName(file)
BY DEF ComponentFiles, IsName

\* A component that was loaded has only files of its own, and is a card when it has
\* a template.
LEMMA ComponentIsCard ==
  ASSUME NEW tree, IsTree(tree), NEW route, LoadsComponent(tree, route),
         NEW path, ResolveComponentPath(tree, path) = ResolveComponentPath(tree, route)
  PROVE  LET directory == ResolveComponentPath(tree, path) IN
         /\ EntryAt(tree, directory) \in {"directory", "file"}
         /\ \A file \in ComponentFiles : EntryAt(tree, Append(directory, file)) \in {"file", "nothing"}
         /\ LoadsCard(tree, path) <=> Append(directory, "index.wxml") \in DOMAIN tree
<1> DEFINE directory == ResolveComponentPath(tree, path)
           Kind(file) == EntryAt(tree, Append(directory, file))
<1>1. directory # Nowhere /\ \A file \in ComponentFiles : ReadsOptional(tree, Append(directory, file))
  BY DEF LoadsComponent
<1>2. EntryAt(tree, directory) \in {"directory", "file"}
  BY <1>1, ResolvedInside
<1>3. directory \in Places(tree)
  BY <1>2, InsideIsPlace
<1>4. LoadsCard(tree, path) <=>
        /\ directory # Nowhere
        /\ Kind("index.wxml") \in {"file", "linked file"}
        /\ \A file \in ComponentFiles : Kind(file) \in {"file", "linked file", "nothing"}
  BY DEF LoadsCard
<1> HIDE DEF directory
<1>5. \A file \in ComponentFiles : Kind(file) \in {"file", "nothing"}
  BY <1>1, <1>3, FileNames, OptionalFile
<1>6. \A file \in ComponentFiles : Kind(file) = IF Append(directory, file) \in DOMAIN tree
                                                  THEN tree[Append(directory, file)] ELSE "nothing"
  BY <1>3, FileNames, EntryIn
<1>7. \A place \in DOMAIN tree : tree[place] # "nothing"
  BY DEF IsTree
<1>8. "index.wxml" \in ComponentFiles
  BY DEF ComponentFiles
<1>9. LoadsCard(tree, path) <=> Kind("index.wxml") = "file"
  BY <1>1, <1>4, <1>5, <1>8
<1>10. Kind("index.wxml") = "file" <=> Append(directory, "index.wxml") \in DOMAIN tree
  BY <1>5, <1>6, <1>7, <1>8
<1> QED BY <1>2, <1>5, <1>9, <1>10 DEF directory

LEMMA TakenIsShown ==
  ASSUME NEW package, IsTree(package.tree), LoadsSkill(package), IsPath(package.manifest.apis),
         NEW i \in DOMAIN package.manifest.apis
  PROVE  LET tree == package.tree
             apis == package.manifest.apis
             directory == ResolveComponentPath(tree, apis[i].card)
         IN
         /\ \A j \in DOMAIN apis : apis[j].name = apis[i].name => j = i
         /\ apis[i].card # NoCard /\ ~ IsDirectory(tree, Append(directory, "index")) =>
              /\ directory \in {ResolveComponentPath(tree, route) : route \in Routes(package)}
              /\ EntryAt(tree, directory) \in {"directory", "file"}
              /\ \A file \in ComponentFiles : EntryAt(tree, Append(directory, file)) \in {"file", "nothing"}
              /\ LoadsCard(tree, apis[i].card) <=> Append(directory, "index.wxml") \in DOMAIN tree
<1> DEFINE tree == package.tree
           apis == package.manifest.apis
           path == apis[i].card
           directory == ResolveComponentPath(tree, path)
<1>1. IsValidManifest(package.manifest, Discovered(tree))
  BY DEF LoadsSkill
<1>2. \A j \in DOMAIN apis : apis[j].name = apis[i].name => j = i
  BY <1>1, OneDeclaration
<1>3. ASSUME path # NoCard, ~ IsDirectory(tree, Append(directory, "index"))
      PROVE  /\ directory \in {ResolveComponentPath(tree, route) : route \in Routes(package)}
             /\ EntryAt(tree, directory) \in {"directory", "file"}
             /\ \A file \in ComponentFiles : EntryAt(tree, Append(directory, file)) \in {"file", "nothing"}
             /\ LoadsCard(tree, path) <=> Append(directory, "index.wxml") \in DOMAIN tree
  <2>1. path \in Range(package.manifest.components) \cup Discovered(tree) \cup {Front(any) : any \in Discovered(tree)}
    BY <1>1, <1>3 DEF IsValidManifest
  <2>2. PICK route \in Routes(package) : directory = ResolveComponentPath(tree, route) /\ LoadsComponent(tree, route)
    BY <1>3, <2>1, CardIsChecked
  <2> QED BY <2>2, ComponentIsCard
<1> QED BY <1>2, <1>3

LEMMA RequiredFile ==
  ASSUME NEW tree, IsTree(tree), NEW place \in DOMAIN tree, tree[place] = "file"
  PROVE  ReadsRequired(tree, place)
<1>1. place \in Places(tree) /\ EntryAt(tree, place) = "file"
  BY Entries DEF Places
<1>2. ResolvePackagePath(tree, place) = place
  BY <1>1, ResolvePlace DEF ValidateInside
<1> QED BY <1>1, <1>2 DEF ReadsRequired

\* What a package with which nothing is wrong has: files by their names, and
\* directories.
LEMMA SelfContainedTree ==
  ASSUME NEW package, IsTree(package.tree), IsSelfContained(package)
  PROVE  /\ \A place \in DOMAIN package.tree :
              package.tree[place] = IF Last(place) \in DOMAIN ScriptStem \cup ComponentFiles \cup {"SKILL.md", "mcp.json"}
                                      THEN "file" ELSE "directory"
         /\ \A name \in {"SKILL.md", "mcp.json", "index.js"} : <<name>> \in DOMAIN package.tree
         /\ \A path \in Range(package.manifest.components) : \E place \in DOMAIN package.tree :
              package.tree[place] = "directory" /\ path \in {place, Append(place, "index")}
BY DEF IsSelfContained

LEMMA SelfContainedRoute ==
  ASSUME NEW package, IsTree(package.tree), IsSelfContained(package),
         NEW place \in DOMAIN package.tree, package.tree[place] = "directory",
         NEW route \in {place, Append(place, "index")}
  PROVE  LoadsComponent(package.tree, route)
<1> DEFINE tree == package.tree
           index == Append(place, "index")
           Takes(directory) == directory \in Places(tree) /\ EntryAt(tree, directory) = "directory"
<1>1. Takes(place)
  BY Entries DEF Places
<1>2. PICK directory : Takes(directory) /\ ResolveComponentPath(tree, route) = directory
  <2>1. \A directory : Takes(directory) => ValidateInside(tree, directory) = directory /\ IsDirectory(tree, directory)
    BY DEF ValidateInside, IsDirectory
  <2>2. CASE route = place
    BY <1>1, <2>1, <2>2, ResolveDirectory
  <2>3. CASE route = index /\ index \in DOMAIN tree
    <3>1. Last(index) = "index"
      BY <1>1, PlaceIsPath, AppendedPart
    <3>2. "index" \notin DOMAIN ScriptStem \cup ComponentFiles \cup {"SKILL.md", "mcp.json"}
      BY ScriptStemAssumption DEF ComponentFiles
    <3>3. tree[index] = "directory"
      BY <2>3, <3>1, <3>2, SelfContainedTree
    <3>4. Takes(index)
      BY <2>3, <3>3, Entries DEF Places
    <3> QED BY <2>1, <2>3, <3>4, ResolveDirectory
  <2>4. CASE route = index /\ index \notin DOMAIN tree
    <3>1. IsName("index")
      BY DEF IsName
    <3>2. ~ IsDirectory(tree, index)
      BY <1>1, <2>4, <3>1, EntryIn DEF IsDirectory
    <3> QED BY <1>1, <2>1, <2>4, <3>2, ResolveIndex
  <2> QED BY <2>2, <2>3, <2>4
<1>3. directory # Nowhere
  BY <1>2, Entries
<1>4. ASSUME NEW file \in ComponentFiles
      PROVE  ReadsOptional(tree, Append(directory, file))
  <2> DEFINE path == Append(directory, file)
  <2>1. Last(path) = file
    BY <1>2, PlaceIsPath, AppendedPart
  <2>2. EntryAt(tree, path) = IF path \in DOMAIN tree THEN tree[path] ELSE "nothing"
    BY <1>2, FileNames, EntryIn
  <2>3. path \in DOMAIN tree => tree[path] = "file"
    BY <2>1, SelfContainedTree
  <2>4. EntryAt(tree, path) \in {"file", "nothing"}
    BY <2>2, <2>3
  <2> QED BY <1>2, <2>4, FileNames, OptionalFile
<1> QED BY <1>2, <1>3, <1>4 DEF LoadsComponent

LEMMA SelfContainedList ==
  ASSUME NEW package, IsTree(package.tree), IsSelfContained(package), NEW name \in {"apis", "components"}
  PROVE  CanList(package.tree, name)
<1> DEFINE tree == package.tree
<1>1. Last(<<name>>) = name /\ <<name>> \notin {<<>>, Outside}
  BY DEF Last, Outside
<1>2. name \notin DOMAIN ScriptStem \cup ComponentFiles \cup {"SKILL.md", "mcp.json"}
  BY ScriptStemAssumption DEF ComponentFiles
<1>3. <<name>> \notin DOMAIN tree => EntryAt(tree, <<name>>) = "nothing"
  BY <1>1, Entries
<1>4. ASSUME <<name>> \in DOMAIN tree PROVE EntryAt(tree, <<name>>) = "directory"
  <2>1. tree[<<name>>] = "directory"
    BY <1>1, <1>2, <1>4, SelfContainedTree
  <2> QED BY <1>4, <2>1, Entries
<1> QED BY <1>3, <1>4 DEF CanList, IsDirectory

LEMMA SelfContainedManifest ==
  ASSUME NEW package, IsTree(package.tree), IsSelfContained(package), IsPath(package.manifest.apis)
  PROVE  IsValidManifest(package.manifest, Discovered(package.tree))
<1> DEFINE tree == package.tree
           apis == package.manifest.apis
           declared == Range(package.manifest.components)
           discovered == Discovered(tree)
           paths == declared \cup discovered \cup {Front(path) : path \in discovered}
<1>1. <<"">> \notin declared
  <2>1. Last(<<"">>) = ""
    BY DEF Last
  <2>2. ASSUME NEW path \in declared
        PROVE  Last(path) # ""
    <3>1. PICK place \in DOMAIN tree : path \in {place, Append(place, "index")}
      BY SelfContainedTree
    <3>2. Last(place) # "" /\ Last(Append(place, "index")) = "index"
      BY PlaceParts, AppendedPart DEF IsName
    <3> QED BY <3>1, <3>2
  <2> QED BY <2>1, <2>2
<1>2. DOMAIN apis = 1 .. Len(apis) /\ Len(apis) \in Nat
  BY PathShape
<1>3. ASSUME NEW i \in DOMAIN apis, NEW j \in 1 .. i - 1
      PROVE  apis[j].name # apis[i].name
  <2>1. j \in DOMAIN apis /\ j # i
    BY <1>2
  <2>2. IsInjective([k \in DOMAIN apis |-> apis[k].name])
    BY DEF IsSelfContained
  <2> QED BY <2>1, <2>2 DEF IsInjective
<1>4. ASSUME NEW i \in DOMAIN apis
      PROVE  apis[i].name # "" /\ apis[i].complete /\ (apis[i].card # NoCard => apis[i].card \in paths)
  <2> DEFINE entry == apis[i]
  <2>1. entry \in Range(apis)
    BY DEF Range
  <2>2. /\ entry.name # "" /\ entry.complete
        /\ \/ entry.card \in {NoCard} \cup declared
           \/ \E place \in DOMAIN tree :
                /\ Len(place) = 2 /\ Head(place) = "components" /\ tree[place] = "directory"
                /\ entry.card \in {place, Append(place, "index")}
    BY <2>1 DEF IsSelfContained
  <2> HIDE DEF entry
  <2>3. ASSUME NEW place \in DOMAIN tree, Len(place) = 2, Head(place) = "components", tree[place] = "directory"
        PROVE  {place, Append(place, "index")} \subseteq paths
    <3>1. IsDirectory(tree, place)
      BY <2>3, Entries DEF IsDirectory
    <3>2. Append(place, "index") \in discovered
      BY <2>3, <3>1 DEF Discovered
    <3>3. Front(Append(place, "index")) = place
      BY PlaceParts, AppendedPart
    <3> HIDE DEF discovered
    <3>4. place \in {Front(path) : path \in discovered}
      BY <3>2, <3>3
    <3> QED BY <3>2, <3>4
  <2>4. entry.card # NoCard => entry.card \in paths
    <3> HIDE DEF paths
    <3>1. declared \subseteq paths
      BY DEF paths
    <3> QED BY <2>2, <2>3, <3>1
  <2> QED BY <2>2, <2>4 DEF entry
<1> QED BY <1>1, <1>3, <1>4 DEF IsValidManifest

\* Nothing is wrong with a package: it is taken.
LEMMA SelfContainedIsTaken ==
  ASSUME NEW package, IsTree(package.tree), IsSelfContained(package), IsPath(package.manifest.apis)
  PROVE  LoadsSkill(package)
<1> DEFINE tree == package.tree
<1>1. ASSUME NEW file \in {"SKILL.md", "mcp.json", "index.js"}
      PROVE  ReadsRequired(tree, <<file>>)
  <2>1. <<file>> \in DOMAIN tree /\ Last(<<file>>) = file
    BY SelfContainedTree DEF Last
  <2>2. tree[<<file>>] = "file"
    BY <2>1, SelfContainedTree DEF ComponentFiles
  <2> QED BY <2>1, <2>2, RequiredFile
<1>2. ASSUME NEW name \in ApiScripts(tree)
      PROVE  ReadsRequired(tree, <<"apis", name>>)
  <2>1. name \in DOMAIN ScriptStem /\ <<"apis", name>> \in DOMAIN tree /\ Last(<<"apis", name>>) = name
    BY DEF ApiScripts, Last
  <2>2. tree[<<"apis", name>>] = "file"
    BY <2>1, SelfContainedTree
  <2> QED BY <2>1, <2>2, RequiredFile
<1>3. package.parses
  BY DEF IsSelfContained
<1>4. CanList(tree, "apis") /\ CanList(tree, "components")
  BY SelfContainedList
<1>5. ASSUME NEW route \in Routes(package)
      PROVE  LoadsComponent(tree, route)
  <2>1. \E place \in DOMAIN tree : tree[place] = "directory" /\ route \in {place, Append(place, "index")}
    <3>1. CASE route \in Range(package.manifest.components)
      BY <3>1, SelfContainedTree
    <3>2. CASE route \in Discovered(tree)
      <4>1. PICK place \in DOMAIN tree : route = Append(place, "index") /\ IsDirectory(tree, place)
        BY <3>2 DEF Discovered
      <4>2. tree[place] \in {"file", "directory"}
        BY SelfContainedTree
      <4>3. tree[place] = "directory"
        BY <4>1, <4>2, Entries DEF IsDirectory
      <4> QED BY <4>1, <4>3
    <3> QED BY <3>1, <3>2 DEF Routes
  <2> QED BY <2>1, SelfContainedRoute
<1>6. IsValidManifest(package.manifest, Discovered(tree))
  BY SelfContainedManifest
<1> QED BY <1>1, <1>2, <1>3, <1>4, <1>5, <1>6 DEF LoadsSkill

----------------------------------------------------------------------------
(* What validate prints *)

\* A validate is its package, and prints what became of it.
ValidatedInv ==
  \A c \in Cli : command[c].run = "validate" =>
    /\ IsTree(command[c].package.tree) /\ IsPath(command[c].package.manifest.apis)
    /\ printed[c] \in {"none", IF LoadsSkill(command[c].package) THEN "ok" ELSE "error"}

\* The steps of a demo or of a call-api are none of a validate.
LEMMA ValidateSteps ==
  ASSUME ProcessesInv, NEW c \in Cli, command[c].run = "validate", ProcessStep(c)
  PROVE  ValidatePackage(c)
<1>1. wire[c].state = "idle"
  BY DEF ProcessesInv, ProcessInv, WireInv
<1>2. ~ IsBusy(c) /\ command[c].run # "preview-component"
  BY DEF IsBusy
<1>3. ~ PreviewComponent(c)
  BY <1>2 DEF PreviewComponent
<1>4. \A fine \in BOOLEAN : ~ Resolve(c, fine) /\ ~ LoadHarness(c, fine) /\ ~ Expire(c, fine)
  BY <1>2 DEF Resolve, LoadHarness, Expire, At
<1>5. ~ Send(c) /\ ~ CannotSend(c) /\ ~ Receive(c)
  BY <1>2 DEF Send, CannotSend, Receive
<1>6. ~ Serve(c) /\ ~ Refuse(c) /\ ~ GiveUp(c)
  BY <1>1 DEF Serve, Refuse, GiveUp
<1>7. \A callee \in Apis, fine \in BOOLEAN : ~ CallApi(c, callee, fine)
  BY <1>2 DEF CallApi, At
<1> QED BY <1>3, <1>4, <1>5, <1>6, <1>7 DEF ProcessStep

LEMMA ValidatedInvInductive ==
  ChatInv /\ ValidatedInv /\ [ChatNext]_<<cliVars, chat, up>> => ValidatedInv'
<1> SUFFICES ASSUME ChatInv, ValidatedInv, [ChatNext]_<<cliVars, chat, up>>
             PROVE  ValidatedInv'
  OBVIOUS
<1> USE DEF ChatInv
<1> DEFINE Valid(it, shown) ==
      it.run = "validate" =>
        /\ IsTree(it.package.tree) /\ IsPath(it.package.manifest.apis)
        /\ shown \in {"none", IF LoadsSkill(it.package) THEN "ok" ELSE "error"}
<1>0. (\A c \in Cli : Valid(command[c], printed[c])) /\ Domains
  BY DEF ValidatedInv, ProcessesInv
<1>1. ASSUME \A c \in Cli : Valid(command'[c], printed'[c])
      PROVE  ValidatedInv'
  BY <1>1 DEF ValidatedInv
<1> HIDE DEF Valid
<1>2. CASE CliStep
  <2>1. PICK c \in Cli : ProcessStep(c)
    BY <1>2 DEF CliStep
  <2>2. UNCHANGED command /\ \A d \in Cli \ {c} : printed'[d] = printed[d]
    BY <1>0, <2>1, OthersStay DEF ProcessOf
  <2>3. ASSUME command[c].run = "validate"
        PROVE  Valid(command'[c], printed'[c])
    <3>1. ValidatePackage(c)
      BY <2>1, <2>3, ValidateSteps
    <3>2. printed'[c] = IF LoadsSkill(command[c].package) THEN "ok" ELSE "error"
      BY <1>0, <3>1 DEF ValidatePackage, Domains
    <3> QED BY <1>0, <2>2, <3>2 DEF Valid
  <2>4. command[c].run # "validate" => Valid(command'[c], printed'[c])
    BY <2>2 DEF Valid
  <2> QED BY <1>0, <1>1, <2>2, <2>3, <2>4
<1>3. ASSUME UNCHANGED <<command, printed>>
      PROVE  ValidatedInv'
  BY <1>0, <1>1, <1>3
<1>4. ASSUME NEW c \in Cli, NEW it, it.run # "validate", Begins(c, it)
      PROVE  ValidatedInv'
  <2>1. command'[c] = it /\ \A d \in Cli \ {c} : command'[d] = command[d] /\ printed'[d] = printed[d]
    BY <1>0, <1>4 DEF Begins, Domains
  <2>2. Valid(it, printed'[c])
    BY <1>4 DEF Valid
  <2> QED BY <1>0, <1>1, <2>1, <2>2
<1>5. ASSUME NEW callee \in Apis, NEW args, RunChild(callee, args)
      PROVE  ValidatedInv'
  <2>1. PICK c \in Cli : Begins(c, ApiCall(callee, args, NoInputs))
    <3> DEFINE vacant == {c \in Cli : wire[c].state # "sent"}
    <3>1. PICK c \in vacant : Begins(c, ApiCall(callee, args, NoInputs))
      BY <1>5 DEF RunChild
    <3> QED BY <3>1
  <2>2. ApiCall(callee, args, NoInputs).run # "validate"
    BY DEF ApiCall
  <2> QED BY <1>4, <2>1, <2>2
<1>6. CASE StartSession \/ \E i \in DOMAIN messages : SelectDrink(i) \/ PayOrder(i)
  BY <1>5, <1>6 DEF StartSession, SelectDrink, PayOrder, BeginTap, Apis
<1>7. Idle.run # "validate"
  BY DEF Idle
<1>8. CASE TurnSucceeds
  <2>1. child \in Cli /\ Begins(child, Idle)
    BY <1>8 DEF TurnSucceeds, ProcessesInv
  <2> QED BY <1>4, <1>7, <2>1
<1>9. CASE TurnFails
  <2>1. child \in Cli /\ (UNCHANGED <<command, printed>> \/ Begins(child, Idle))
    BY <1>9 DEF TurnFails, ProcessesInv
  <2> QED BY <1>3, <1>4, <1>7, <2>1
<1>10. CASE TimeOut
  <2>1. child \in Cli /\ turn \in DOMAIN Waiting /\ UNCHANGED command
    BY <1>10 DEF TimeOut, Fail, ProcessesInv
  <2>2. \A d \in Cli \ {child} : printed'[d] = printed[d]
    BY <1>0, <1>10 DEF TimeOut, Fail, Domains
  <2>3. command[child] = ApiCall(Waiting[turn], command[child].args, NoInputs)
    BY <2>1 DEF ChildInv
  <2>4. command[child].run = "call-api"
    BY <2>3 DEF ApiCall
  <2>5. Valid(command'[child], printed'[child])
    BY <2>1, <2>4 DEF Valid
  <2> QED BY <1>0, <1>1, <2>1, <2>2, <2>5
<1>11. CASE SendMessage \/ StartFails \/ Reset \/ ServerDies \/ \E wants \in BOOLEAN : Recognize(wants)
  BY <1>3, <1>11 DEF SendMessage, StartFails, Reset, ServerDies, Recognize, Untouched
<1>12. CASE Restart \/ UNCHANGED <<cliVars, chat, up>>
  BY <1>3, <1>12 DEF Restart, cliVars
<1> QED BY <1>2, <1>6, <1>8, <1>9, <1>10, <1>11, <1>12 DEF ChatNext, ChatStep

LEMMA ValidatedInvInit == ChatInit => ValidatedInv
<1> SUFFICES ASSUME ChatInit, NEW c \in Cli, command[c].run = "validate"
             PROVE  /\ IsTree(command[c].package.tree) /\ IsPath(command[c].package.manifest.apis)
                    /\ printed[c] = "none"
  BY DEF ValidatedInv
<1>1. IsCommand(command[c]) /\ printed[c] = "none"
  BY DockCliAssumption DEF ChatInit, CliInit
<1> QED BY <1>1 DEF IsCommand, IsPath

LEMMA SpecValidated == ChatSpec => []ValidatedInv
BY ChatInvInit, ChatInvInductive, ValidatedInvInit, ValidatedInvInductive, PTL DEF ChatSpec

\* validate takes every package with which nothing is wrong, and one that it takes
\* declares an API once and shows its cards as they were checked: the renderer resolves
\* a card to the files of a component that was loaded (load_skill, ComponentPackage::load).
THEOREM TakenCardsAreShown == ChatSpec => []LoadedCardsAreShown
<1>1. ValidatedInv => LoadedCardsAreShown
  <2> SUFFICES ASSUME ValidatedInv, NEW c \in Cli, command[c].run = "validate"
               PROVE  LET package == command[c].package
                          tree == package.tree
                          apis == package.manifest.apis
                          Checked == {ResolveComponentPath(tree, route) : route \in Routes(package)}
                      IN
                      /\ printed[c] = "error" => ~IsSelfContained(package)
                      /\ printed[c] = "ok" =>
                           \A i \in DOMAIN apis :
                             LET directory == ResolveComponentPath(tree, apis[i].card)
                                 template == Append(directory, "index.wxml")
                             IN
                             /\ \A j \in DOMAIN apis : apis[j].name = apis[i].name => j = i
                             /\ apis[i].card # NoCard /\ ~IsDirectory(tree, Append(directory, "index")) =>
                                  /\ directory \in Checked /\ EntryAt(tree, directory) \in {"directory", "file"}
                                  /\ \A file \in ComponentFiles : EntryAt(tree, Append(directory, file)) \in {"file", "nothing"}
                                  /\ LoadsCard(tree, apis[i].card) <=> template \in DOMAIN tree
    BY DEF LoadedCardsAreShown
  <2> DEFINE package == command[c].package
  <2>1. /\ IsTree(package.tree) /\ IsPath(package.manifest.apis)
        /\ printed[c] = "error" => ~ LoadsSkill(package)
        /\ printed[c] = "ok" => LoadsSkill(package)
    BY DEF ValidatedInv
  <2> HIDE DEF package
  <2>2. printed[c] = "error" => ~ IsSelfContained(package)
    BY <2>1, SelfContainedIsTaken
  <2>3. ASSUME printed[c] = "ok", NEW i \in DOMAIN package.manifest.apis
        PROVE  LET tree == package.tree
                   apis == package.manifest.apis
                   directory == ResolveComponentPath(tree, apis[i].card)
               IN
               /\ \A j \in DOMAIN apis : apis[j].name = apis[i].name => j = i
               /\ apis[i].card # NoCard /\ ~ IsDirectory(tree, Append(directory, "index")) =>
                    /\ directory \in {ResolveComponentPath(tree, route) : route \in Routes(package)}
                    /\ EntryAt(tree, directory) \in {"directory", "file"}
                    /\ \A file \in ComponentFiles : EntryAt(tree, Append(directory, file)) \in {"file", "nothing"}
                    /\ LoadsCard(tree, apis[i].card) <=> Append(directory, "index.wxml") \in DOMAIN tree
    BY <2>1, <2>3, TakenIsShown
  <2> QED BY <2>2, <2>3 DEF package
<1> QED BY <1>1, SpecValidated, PTL
=============================================================================
