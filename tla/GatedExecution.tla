-------------------------- MODULE GatedExecution --------------------------
(***************************************************************************)
(* What the Dock promises about the APIs of a Skill, whoever asks for a    *)
(* call and however calls overlap: a risky call runs only after the user   *)
(* approved that very call, no call runs twice, and what ran is accounted  *)
(* for by the time its call is over.                                       *)
(***************************************************************************)

CONSTANT Call

VARIABLES
  asked,      \* the calls that were made
  risky,      \* those that need the user's approval
  approved,   \* the calls the user approved
  ran,        \* the calls whose API was executed
  accounted,  \* the calls with an audit record, or with a record that was lost
  over        \* the calls that are over

vars == <<asked, risky, approved, ran, accounted, over>>

Init ==
  /\ asked = {}
  /\ risky = {}
  /\ approved = {}
  /\ ran = {}
  /\ accounted = {}
  /\ over = {}

Ask(c) ==
  /\ c \notin asked
  /\ asked' = asked \cup {c}
  /\ risky' \in {risky, risky \cup {c}}
  /\ UNCHANGED <<approved, ran, accounted, over>>

Approve(c) ==
  /\ c \in asked \ (ran \cup over)
  /\ approved' = approved \cup {c}
  /\ UNCHANGED <<asked, risky, ran, accounted, over>>

Run(c) ==
  /\ c \in asked \ (ran \cup over)
  /\ c \in risky => c \in approved
  /\ ran' = ran \cup {c}
  /\ UNCHANGED <<asked, risky, approved, accounted, over>>

End(c) ==
  /\ c \in asked \ over
  /\ over' = over \cup {c}
  /\ accounted' \in {accounted, accounted \cup {c}}
  /\ c \in ran => c \in accounted'
  /\ UNCHANGED <<asked, risky, approved, ran>>

Next == \E c \in Call : Ask(c) \/ Approve(c) \/ Run(c) \/ End(c)

Spec == Init /\ [][Next]_vars

============================================================================
