------------------------ MODULE MCTeamMonitorHistory ------------------------
(* TeamMonitorHistory for TLC: one task, so that polls, calls and crashes can be many. *)
EXTENDS TeamMonitorHistory, TLC

CONSTANT t1

MCDeps == [t \in {t1} |-> {{}}]
=============================================================================
