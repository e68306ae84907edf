--------------------------- MODULE MCTeamWorkers ---------------------------
(***************************************************************************)
(* The two modules about adding and instructing workers.  They share no    *)
(* variable: a scaleUp knows of the queue no more than whether its worker  *)
(* could be told.  So a behaviour of this instance moves one of them and   *)
(* leaves the other in its initial state.                                  *)
(***************************************************************************)
EXTENDS TeamDispatch, TeamScaling, TLC

MCIssueKey == [w \in Worker |-> CHOOSE k \in Issue : TRUE]

\* Hooks and scalers, two of each, may be swapped together, for only the ones or the others move.
Swapped(S) == [x \in S |-> CHOOSE y \in S : y # x]
Symmetry == Permutations(Sender) \cup {Swapped(Hook) @@ Swapped(Scaler)}

WorkersInit == DispatchInit /\ ScalingInit
WorkersNext ==
  \/ ScalingInit /\ DispatchNext /\ UNCHANGED scalingVars
  \/ DispatchInit /\ ~bridge /\ ~direct /\ ScalingNext /\ UNCHANGED dispatchVars
WorkersSpec == WorkersInit /\ [][WorkersNext]_<<dispatchVars, scalingVars>>
=============================================================================
