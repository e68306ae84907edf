--------------------------- MODULE MCTeamMonitor ---------------------------
(* TeamMonitor for TLC: one task, so that polls, calls and crashes can be many. *)
EXTENDS TeamMonitor, TLC

CONSTANT t1

Symmetry == Permutations(Poller)

MCDeps == [t \in {t1} |-> {{}}]

\* What a poll that begins with the snapshot s may find unannounced.
Known(s) ==
  {t \in TaskId : s.status[t] \notin {"unseen", "completed"} /\ t \notin s.marked}

\* For properties of the board alone: what was announced and recorded only decides what a poll
\* announces and records.  Of it the view keeps what the next poll may announce, so that polls
\* of this run do find something to announce.
BoardView ==
  <<tasks, issued,
    expired \cap ({tasks[t].claim.token : t \in TaskId}
                  \cup {view[m][t].claim.token : m \in Poller, t \in TaskId}),
    lock, pc, req, [p \in Proc |-> pc[p] = "writing" /\ seen[p] = tasks[req[p].task]],
    poll, view, todo, job, Known(snap)>>
=============================================================================
