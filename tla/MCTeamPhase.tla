---------------------------- MODULE MCTeamPhase ----------------------------
(* TeamPhase for TLC: tasks are interchangeable. *)
EXTENDS TeamPhase, TLC

Symmetry == Permutations(TaskId)

\* What a process had in hand goes with it: a poll starts from nothing.  Of a listing, files
\* still to be read and files read are never looked at together.  Dead workers are nothing to
\* a status poll unless they run without panes.
Gone(p) == (PromptMode \/ p \in Job) /\ gone[p]

InHand(p) ==
  CASE stage[p] = "off" -> <<>>
    [] p \in Hook -> <<base[p]>>
    [] stage[p] = "listing" -> <<todo[p], Gone(p), [t \in TaskId \ todo[p] |-> view[p][t]]>>
    [] OTHER -> <<base[p], Gone(p), view[p]>>

View == <<work, dead, phase, stage, [p \in Poller \cup Hook |-> InHand(p)], ended>>
=============================================================================
