--------------------------- MODULE TaskLifecycle ---------------------------
(***************************************************************************)
(* What a team's task board promises to the workers that share it, with    *)
(* every operation atomic: no files, no lock directories, no calls that    *)
(* are half way through.  TeamTasks is shown to implement it.              *)
(*                                                                         *)
(* A task is open until some worker claims it; a claim is known by a token *)
(* that is never issued twice and whose lease may lapse.  A task can be    *)
(* claimed only once everything it needs is completed, and a live claim is *)
(* never handed to somebody else.                                          *)
(***************************************************************************)
EXTENDS Naturals

CONSTANT TaskId

VARIABLES phase,    \* phase[t]: where task t stands
          holder,   \* holder[t]: the token t is claimed with, 0 if none
          needs,    \* needs[t]: the tasks t waits for
          issued,   \* tokens 1..issued have been handed out
          lapsed    \* tokens whose lease has run out

lifecycleVars == <<phase, holder, needs, issued, lapsed>>

Phase == {"absent", "open", "claimed", "completed", "failed"}

LifecycleTypeOK ==
  /\ phase \in [TaskId -> Phase]
  /\ holder \in [TaskId -> Nat]
  /\ needs \in [TaskId -> SUBSET TaskId]
  /\ issued \in Nat
  /\ lapsed \subseteq Nat

Init ==
  /\ phase = [t \in TaskId |-> "absent"]
  /\ holder = [t \in TaskId |-> 0]
  /\ needs = [t \in TaskId |-> {}]
  /\ issued = 0
  /\ lapsed = {}

Add(t, ds) ==
  /\ phase[t] = "absent"
  /\ phase' = [phase EXCEPT ![t] = "open"]
  /\ needs' = [needs EXCEPT ![t] = ds]
  /\ UNCHANGED <<holder, issued, lapsed>>

\* A fresh token, for an open task or one whose claim has lapsed.
Claim(t) ==
  /\ \/ phase[t] = "open"
     \/ phase[t] = "claimed" /\ holder[t] \in lapsed
  /\ \A d \in needs[t] : phase[d] = "completed"
  /\ phase' = [phase EXCEPT ![t] = "claimed"]
  /\ holder' = [holder EXCEPT ![t] = issued + 1]
  /\ issued' = issued + 1
  /\ UNCHANGED <<needs, lapsed>>

\* Only the current holder can have asked for this, so it ends the claim.
Finish(t, outcome) ==
  /\ phase[t] = "claimed"
  /\ phase' = [phase EXCEPT ![t] = outcome]
  /\ holder' = [holder EXCEPT ![t] = 0]
  /\ UNCHANGED <<needs, issued, lapsed>>

GiveBack(t) ==
  /\ phase[t] = "claimed"
  /\ phase' = [phase EXCEPT ![t] = "open"]
  /\ holder' = [holder EXCEPT ![t] = 0]
  /\ UNCHANGED <<needs, issued, lapsed>>

ChangeNeeds(t, ds) ==
  /\ phase[t] # "absent"
  /\ needs' = [needs EXCEPT ![t] = ds]
  /\ UNCHANGED <<phase, holder, issued, lapsed>>

Lapse(k) ==
  /\ k \in 1..issued
  /\ lapsed' = lapsed \cup {k}
  /\ UNCHANGED <<phase, holder, needs, issued>>

Next ==
  \/ \E t \in TaskId, ds \in SUBSET TaskId : Add(t, ds) \/ ChangeNeeds(t, ds)
  \/ \E t \in TaskId : Claim(t) \/ GiveBack(t)
  \/ \E t \in TaskId, outcome \in {"completed", "failed"} : Finish(t, outcome)
  \/ \E k \in 1..issued : Lapse(k)

Spec == Init /\ [][Next]_lifecycleVars
=============================================================================
