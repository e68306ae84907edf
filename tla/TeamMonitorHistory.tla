------------------------- MODULE TeamMonitorHistory -------------------------
(***************************************************************************)
(* TeamMonitor with a history variable: the tasks whose completion met a   *)
(* poll.  A completion is announced by the call that made it or by a poll  *)
(* that found it, and recorded in the snapshot later; the marker and the   *)
(* recorded status keep the next poll from announcing it again.  That can  *)
(* only go wrong for a task in one of three ways, and clashed collects the *)
(* tasks to which one of them happened.                                    *)
(***************************************************************************)
EXTENDS TeamMonitor

VARIABLE clashed    \* history: the tasks to which one of the three happened

historyVars == <<monitorVars, clashed>>

\* The snapshot says that t's completion has been announced.
OnRecord(s, t) == t \in s.marked \/ s.status[t] = "completed"

\* A completing call from its write of the task file to its write of the snapshot.
Unrecorded(p) ==
  Completing(req[p]) /\ pc[p] \in {"announcing", "releasing", "marking", "recording"}

\* Between the decision to announce t's completion and the record of it.
Announcing(x, t) ==
  \/ Unrecorded(x) /\ req[x].task = t
  \/ x \in Poller /\ poll[x] = "emitting" /\ t \in Unannounced(prev[x], view[x])

\* A poll is under way while somebody else is between t's event and its record.
Meets(t) ==
  \E x \in Proc : Announcing(x, t) /\ \E m \in Poller \ {x} : poll[m] # "off"

\* The record is written over from an older read.
Lost(t) == OnRecord(snap, t) /\ ~OnRecord(snap, t)'

\* Whoever was between event and record died there.
Left(t) == \E x \in Proc : Announcing(x, t) /\ ~Announcing(x, t)' /\ ~OnRecord(snap, t)'

HistoryInit == MonitorInit /\ clashed = {}

HistoryNext ==
  /\ MonitorNext
  /\ clashed' = clashed \cup {t \in TaskId : Meets(t)' \/ Lost(t) \/ Left(t)}

HistorySpec == HistoryInit /\ [][HistoryNext]_historyVars
FairHistorySpec == HistorySpec /\ Fairness
----------------------------------------------------------------------------
(* Properties. *)

\* Why the completion markers are enough for a task to be announced once, and how far (issue
\* #161): however polls, completions, refused completions and deaths interleave, a second event
\* for a task is preceded by a poll under way between the first event and its record, by a death
\* there, or by a snapshot written over from an older read.  Without one of these the call and
\* all the polls that come after it agree on one event.
OnceUnlessClashed ==
  \A t \in TaskId \ clashed : events[t]["completed"] <= 1

----------------------------------------------------------------------------
(* Why it holds. *)

\* Nobody else is under way between event and record; an event that is out is on record, or its
\* announcer has still to record it; a poll under way knows of it; and nobody is about to
\* announce it again.
AccountedFor(t) ==
  /\ ~Meets(t)
  /\ events[t]["completed"] # 0 =>
       /\ events[t]["completed"] = 1
       /\ tasks[t].status = "completed"
       /\ OnRecord(snap, t) \/ \E x \in Proc : Announcing(x, t)
       /\ \A m \in Poller : poll[m] # "off" => OnRecord(prev[m], t) \/ Announcing(m, t)
       /\ \A m \in Poller : poll[m] = "emitting" => t \notin todo[m]
       /\ \A p \in Proc : pc[p] = "announcing" /\ Completing(req[p]) => req[p].task # t

\* The inductive invariant.
MarkerInv ==
  /\ PollInv
  /\ clashed \subseteq TaskId
  /\ \A t \in TaskId \ clashed : AccountedFor(t)
=============================================================================
