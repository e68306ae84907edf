---------------------------- MODULE MCTeamTasks ----------------------------
(* TeamTasks for TLC: names and processes are interchangeable. *)
EXTENDS TeamTasks, TLC

CONSTANTS t1, t2

\* The second task may wait for the first.
MCDeps == [t \in {t1, t2} |-> IF t = t1 THEN {{}} ELSE {{}, {t1}}]

Symmetry == Permutations(Worker) \cup Permutations(Proc)

\* What the future of a state depends on.  No guard and no property but TypeOK reads the
\* snapshot (TeamMonitor's do), the arguments of a call that is past its write, or the lapse
\* of a token no file holds any more.
Matters(p) ==
  CASE pc[p] \in {"releasing", "marking", "recording"} -> <<req[p].task, Completing(req[p])>>
    [] pc[p] = "announcing" -> <<req[p].task, req[p].outcome>>
    [] OTHER -> <<req[p]>>

View ==
  <<tasks, issued, expired \cap {tasks[t].claim.token : t \in TaskId}, lock, pc,
    [p \in Proc |-> Matters(p)], [p \in Proc |-> pc[p] = "writing" /\ seen[p] = tasks[req[p].task]],
    events>>
=============================================================================
