---------------------------- MODULE TeamMonitor ----------------------------
(***************************************************************************)
(* monitorTeam: the leader's poll over a team's files.  One poll reads the *)
(* previous snapshot, lists the tasks, reclaims claims whose lease is      *)
(* over, hands open tasks to free workers, announces completions it finds  *)
(* that nobody has announced, and writes the next snapshot.  It reads and  *)
(* writes the same task files and the same snapshot as the calls of        *)
(* TeamTasks, and takes task locks only inside the calls it makes itself.  *)
(* Nothing keeps polls apart: the background job and every omx team status *)
(* run one whenever they like, beside each other and beside the calls, and *)
(* any of them may die half way.                                           *)
(***************************************************************************)
EXTENDS TeamTasks

CONSTANTS
  Poller,        \* the processes that run monitorTeam (runtime-cli, omx team status)
  MaxAnnounced   \* bound: no more than this many events of a task are counted

ASSUME PollerAssumption == Poller \subseteq Proc
ASSUME MaxAnnouncedAssumption == MaxAnnounced \in Nat \ {0, 1}

VARIABLES
  poll,    \* poll[m]: how far m's poll is
  prev,    \* prev[m]: the snapshot the poll began with
  view,    \* view[m]: the task files as listed
  todo,    \* todo[m]: the tasks its current loop has still to visit
  job      \* job[m]: the assignment it is making, and whether it changed any task

pollVars == <<poll, prev, view, todo, job>>
monitorVars == <<taskVars, pollVars>>

PollStage == {"off", "listing", "reclaiming", "relisting", "assigning", "claiming",
              "preparing", "dispatching", "viewing", "emitting"}

Job == [task: TaskId, token: Nat, moved: BOOLEAN]
NoJob == [task |-> NoRequest.task, token |-> 0, moved |-> FALSE]

MonitorInit ==
  /\ Init
  /\ poll = [m \in Poller |-> "off"]
  /\ prev = [m \in Poller |-> NoSnapshot]
  /\ view = [m \in Poller |-> [t \in TaskId |-> NoFile]]
  /\ todo = [m \in Poller |-> {}]
  /\ job = [m \in Poller |-> NoJob]

----------------------------------------------------------------------------
\* The time-out of withTaskClaimLock passes while somebody, alive or dead, has the lock.
LockTimesOut(t) == lock[t] # "free"

\* buildRebalanceDecisions: pending, nobody's, and every dependency completed, as listed.
Assignable(files) ==
  {t \in TaskId : /\ files[t].version > 0
                  /\ files[t].status = "pending"
                  /\ files[t].owner = "none"
                  /\ \A d \in files[t].deps : files[d].version > 0 /\ files[d].status = "completed"}

\* Seeded faults: the marker transitionTaskStatus leaves is not looked at; only a task that was
\* last seen in_progress is.
UnannouncedIgnoringMarker(before, files) ==
  {t \in TaskId : /\ before.status[t] \notin {"unseen", "completed"}
                  /\ files[t].status = "completed"}

UnannouncedFromInProgress(before, files) ==
  {t \in TaskId : /\ before.status[t] = "in_progress"
                  /\ files[t].status = "completed"
                  /\ t \notin before.marked}

\* emitMonitorDerivedEvents, as far as task_completed goes.
Unannounced(before, files) ==
  {t \in TaskId : /\ before.status[t] \notin {"unseen", "completed"}
                  /\ files[t].status = "completed"
                  /\ t \notin before.marked}

\* Seeded fault: a status no reader knows.
StatusSeenAbsent(file) == IF file.version = 0 THEN "absent" ELSE file.status

StatusSeen(file) == IF file.version = 0 THEN "unseen" ELSE file.status

----------------------------------------------------------------------------
(* One poll. *)

\* A poll that returns or dies takes its variables with it.
Ends(m) ==
  /\ poll' = [poll EXCEPT ![m] = "off"]
  /\ prev' = [prev EXCEPT ![m] = NoSnapshot]
  /\ view' = [view EXCEPT ![m] = [t \in TaskId |-> NoFile]]
  /\ todo' = [todo EXCEPT ![m] = {}]
  /\ job' = [job EXCEPT ![m] = NoJob]

StartPoll(m) ==
  /\ poll[m] = "off" /\ pc[m] = "idle"
  /\ poll' = [poll EXCEPT ![m] = "listing"]
  /\ prev' = [prev EXCEPT ![m] = snap]
  /\ todo' = [todo EXCEPT ![m] = TaskId]
  /\ UNCHANGED <<taskVars, view, job>>

\* listTasks reads the files side by side, without a lock.
ListTask(m, t) ==
  /\ poll[m] \in {"listing", "relisting", "viewing"}
  /\ t \in todo[m]
  /\ view' = [view EXCEPT ![m][t] = tasks[t]]
  /\ todo' = [todo EXCEPT ![m] = @ \ {t}]
  /\ UNCHANGED <<taskVars, poll, prev, job>>

\* A loop is over, its calls have returned, and the poll goes on to the next one.
GoOn(m, from, to, tasksToVisit) ==
  /\ poll[m] = from /\ todo[m] = {} /\ pc[m] = "idle"
  /\ poll' = [poll EXCEPT ![m] = to]
  /\ todo' = [todo EXCEPT ![m] = tasksToVisit]
  /\ job' = [job EXCEPT ![m].moved = FALSE]
  /\ UNCHANGED <<taskVars, prev, view>>

\* Seeded fault: the wrong tasks are looked through for lapsed claims.
ListedOpen(m) ==
  \/ GoOn(m, "listing", "reclaiming", {t \in TaskId : view[m][t].status = "pending"})
  \/ GoOn(m, "relisting", "assigning", Assignable(view[m]))
  \/ GoOn(m, "viewing", "emitting", Unannounced(prev[m], view[m]))

Listed(m) ==
  \/ GoOn(m, "listing", "reclaiming", {t \in TaskId : view[m][t].status = "in_progress"})
  \/ GoOn(m, "relisting", "assigning", Assignable(view[m]))
  \/ GoOn(m, "viewing", "emitting", Unannounced(prev[m], view[m]))

\* The list is read again only if the loop changed something.
ReclaimedAll(m) ==
  \/ job[m].moved /\ GoOn(m, "reclaiming", "relisting", TaskId)
  \/ ~job[m].moved /\ GoOn(m, "reclaiming", "assigning", Assignable(view[m]))

AssignedAll(m) ==
  \/ job[m].moved /\ GoOn(m, "assigning", "viewing", TaskId)
  \/ ~job[m].moved /\ GoOn(m, "assigning", "emitting", Unannounced(prev[m], view[m]))

\* The lease that is looked at is the listed one; the call looks at the file's.
Reclaim(m, t) ==
  /\ poll[m] = "reclaiming" /\ t \in todo[m]
  /\ LeaseExpired(view[m][t].claim)
  /\ ReclaimExpiredTaskClaim(m, t)
  /\ todo' = [todo EXCEPT ![m] = @ \ {t}]
  /\ job' = [job EXCEPT ![m].moved = @ \/ pc'[m] = "writing"]
  /\ UNCHANGED <<poll, prev, view>>

\* The lease still runs, or the lock could not be had.
LeaveClaimed(m, t) ==
  /\ poll[m] = "reclaiming" /\ t \in todo[m] /\ pc[m] = "idle"
  /\ ~LeaseExpired(view[m][t].claim) \/ LockTimesOut(t)
  /\ todo' = [todo EXCEPT ![m] = @ \ {t}]
  /\ UNCHANGED <<taskVars, poll, prev, view, job>>

\* assignTask claims for the worker, with the version of a fresh read.
Assign(m, t, w) ==
  /\ poll[m] = "assigning" /\ t \in todo[m]
  /\ ClaimTask(m, t, w, tasks[t].version)
  /\ poll' = [poll EXCEPT ![m] = "claiming"]
  /\ todo' = [todo EXCEPT ![m] = @ \ {t}]
  /\ job' = [job EXCEPT ![m].task = t, ![m].token = 0]
  /\ UNCHANGED <<prev, view>>

\* No worker is free, an approval is missing, or claimTask refuses before it asks for the lock.
LeaveOpen(m, t) ==
  /\ poll[m] = "assigning" /\ t \in todo[m] /\ pc[m] = "idle"
  /\ todo' = [todo EXCEPT ![m] = @ \ {t}]
  /\ UNCHANGED <<taskVars, poll, prev, view, job>>

ClaimReturned(m) ==
  /\ poll[m] = "claiming" /\ pc[m] = "idle"
  /\ poll' = [poll EXCEPT ![m] = IF job[m].token = 0 THEN "assigning" ELSE "preparing"]
  /\ UNCHANGED <<taskVars, prev, view, todo, job>>

\* Seeded faults: the plan is added without the task's lock, to the file as it is or to the file
\* as it was listed.
PrepareWith(m, file) ==
  /\ poll[m] = "preparing"
  /\ tasks' = [tasks EXCEPT ![job[m].task] = [file EXCEPT !.version = @ + 1]]
  /\ poll' = [poll EXCEPT ![m] = "dispatching"]
  /\ UNCHANGED <<issued, expired, lock, pc, req, seen, events, snap, memo, prev, view, todo, job>>
PrepareUnlocked(m) == PrepareWith(m, tasks[job[m].task])
PrepareFromListing(m) == PrepareWith(m, view[m][job[m].task])

\* A task without a delegation plan is given one; nothing else in the file changes.
Prepare(m) ==
  /\ poll[m] = "preparing"
  /\ \/ UpdateTask(m, job[m].task, tasks[job[m].task].deps)
     \/ pc[m] = "idle" /\ UNCHANGED taskVars
  /\ poll' = [poll EXCEPT ![m] = "dispatching"]
  /\ UNCHANGED <<prev, view, todo, job>>

Dispatched(m) ==
  /\ poll[m] = "dispatching" /\ pc[m] = "idle"
  /\ poll' = [poll EXCEPT ![m] = "assigning"]
  /\ job' = [job EXCEPT ![m].moved = TRUE]
  /\ UNCHANGED <<taskVars, prev, view, todo>>

\* Seeded fault: the task is reopened whoever has it now.
RollBackUnchecked(m) ==
  /\ poll[m] = "dispatching" /\ pc[m] = "idle"
  /\ tasks' = [tasks EXCEPT ![job[m].task] = Reopened(@)]
  /\ poll' = [poll EXCEPT ![m] = "assigning"]
  /\ UNCHANGED <<issued, expired, lock, pc, req, seen, events, snap, memo, prev, view, todo, job>>

\* The worker could not be told, or an earlier step threw: the claim is given back, if the
\* lock can be had.
RollBack(m) ==
  /\ poll[m] = "dispatching"
  /\ \/ ReleaseTaskClaim(m, job[m].task, job[m].token)
     \/ pc[m] = "idle" /\ LockTimesOut(job[m].task) /\ UNCHANGED taskVars
  /\ poll' = [poll EXCEPT ![m] = "assigning"]
  /\ UNCHANGED <<prev, view, todo, job>>

\* Polls that die before they save announce again and again.
Emit(m, t) ==
  /\ poll[m] = "emitting" /\ t \in todo[m]
  /\ events' = [events EXCEPT ![t]["completed"] = IF @ < MaxAnnounced THEN @ + 1 ELSE @]
  /\ todo' = [todo EXCEPT ![m] = @ \ {t}]
  /\ UNCHANGED <<tasks, issued, expired, lock, pc, req, seen, snap, memo, poll, prev, view, job>>

\* Seeded fault: the markers are not carried over.
SaveWithoutMarkers(m) ==
  /\ poll[m] = "emitting" /\ todo[m] = {}
  /\ snap' = [status |-> [t \in TaskId |-> StatusSeen(view[m][t])], marked |-> {}]
  /\ Ends(m)
  /\ UNCHANGED <<tasks, issued, expired, lock, pc, req, seen, events, memo>>

\* The statuses are those listed, the markers those the poll began with.
Save(m) ==
  /\ poll[m] = "emitting" /\ todo[m] = {}
  /\ snap' = [status |-> [t \in TaskId |-> StatusSeen(view[m][t])], marked |-> prev[m].marked]
  /\ Ends(m)
  /\ UNCHANGED <<tasks, issued, expired, lock, pc, req, seen, events, memo>>

\* A poller's own call, while it is in it; a claim's token is what the call returns.
OwnCall(m) ==
  /\ Step(m)
  /\ job' = [job EXCEPT ![m].token =
               IF poll[m] = "claiming" /\ pc[m] = "writing" THEN issued + 1 ELSE @]
  /\ UNCHANGED <<poll, prev, view, todo>>

PollerDies(m) ==
  /\ poll[m] # "off"
  /\ Ends(m)
  /\ Crash(m) \/ (pc[m] = "idle" /\ UNCHANGED taskVars)

PollStep(m) ==
  \/ Listed(m) \/ ReclaimedAll(m) \/ AssignedAll(m)
  \/ ClaimReturned(m) \/ Prepare(m) \/ Dispatched(m) \/ RollBack(m)
  \/ Save(m) \/ OwnCall(m)
  \/ \E t \in TaskId : ListTask(m, t) \/ LeaveClaimed(m, t) \/ LeaveOpen(m, t) \/ Emit(m, t)
  \/ \E t \in TaskId, w \in Worker : Assign(m, t, w)

----------------------------------------------------------------------------
\* Everything else that happens to the board (TeamTasks).
CallerStep(p) == Call(p) \/ Step(p) \/ Crash(p)

OutsideStep ==
  \/ \E t \in TaskId : \E owner \in Worker \cup {"none"}, deps \in Deps[t] :
        CreateTask(t, owner, deps)
  \/ \E t \in TaskId : ExpireLease(t)

MonitorNext ==
  \/ \E m \in Poller : StartPoll(m) \/ PollStep(m) \/ PollerDies(m)
  \/ \E m \in Poller, t \in TaskId : Reclaim(m, t)
  \/ \E p \in Proc \ Poller : CallerStep(p) /\ UNCHANGED pollVars
  \/ OutsideStep /\ UNCHANGED pollVars
  \/ \E t \in TaskId : BreakStaleLock(t) /\ UNCHANGED pollVars

\* The leader polls for as long as the team runs, a call that is under way goes on unless its
\* process dies, somebody waits for every orphaned lock, and a lock that is there for the
\* taking again and again is not missed for ever.
Fairness ==
  /\ \A m \in Poller : WF_monitorVars(StartPoll(m)) /\ WF_monitorVars(PollStep(m))
  /\ \A m \in Poller, t \in TaskId : SF_monitorVars(Reclaim(m, t))
  /\ \A p \in Proc \ Poller : WF_monitorVars(Step(p) /\ UNCHANGED pollVars)
  /\ \A t \in TaskId : WF_monitorVars(BreakStaleLock(t) /\ UNCHANGED pollVars)

MonitorSpec == MonitorInit /\ [][MonitorNext]_monitorVars
FairMonitorSpec == MonitorSpec /\ Fairness
----------------------------------------------------------------------------
(* Properties. *)

MonitorTypeOK ==
  /\ TypeOK
  /\ poll \in [Poller -> PollStage]
  /\ prev \in [Poller -> Snapshot]
  /\ view \in [Poller -> [TaskId -> TaskFile]]
  /\ todo \in [Poller -> SUBSET TaskId]
  /\ job \in [Poller -> Job]

\* A completion is announced to the event log once, whether the call that made it lived to
\* announce it or the poll found it: the purpose of the completion markers (issue #161).
CompletedOnce ==
  \A t \in TaskId : events[t]["completed"] <= 1

\* The snapshots that the processes which end in this step had read at their start.
WrittenFrom ==
  {memo[p] : p \in {q \in Proc : pc[q] = "recording" /\ pc'[q] = "idle"}}
    \cup {prev[m] : m \in {n \in Poller : poll[n] = "emitting" /\ poll'[n] = "off"}}

\* Polls and completing calls all write the whole snapshot from an earlier read, and nothing
\* keeps them apart.  A marker, and a completion the snapshot shows, is taken back only by a
\* process whose own read is older than the record: nobody who had it in hand drops it, however
\* many others wrote the snapshot and the task files in between.
SnapshotKeepsCompletions ==
  [][\A t \in TaskId :
       /\ t \in snap.marked \ snap'.marked => \E s \in WrittenFrom : t \notin s.marked
       /\ snap.status[t] = "completed" /\ snap'.status[t] # "completed" =>
            \E s \in WrittenFrom : s.status[t] # "completed"]_monitorVars

\* A completion whose call died before its event is not lost on a poll that began with a
\* snapshot of the open task and has listed it completed: before it writes its own snapshot, in
\* which no later poll will see anything new, the event is out, unless some call had left a
\* marker by the time it began.
SeenMeansAnnounced ==
  \A m \in Poller, t \in TaskId :
    (/\ poll[m] = "emitting" /\ todo[m] = {}
     /\ prev[m].status[t] \notin {"unseen", "completed"} /\ t \notin prev[m].marked
     /\ view[m][t].status = "completed")
    => events[t]["completed"] >= 1

\* m gives the lapsed claim on t up because the task's lock could not be had in time.
KeptFrom(m, t) == LeaveClaimed(m, t) /\ LeaseExpired(view[m][t].claim)

\* A claim whose lease has run out does not stay in its file, whoever held it and whoever dies
\* with the lock in hand, as long as some poller lives to go on and is not for ever timed out
\* at the task's lock: the task gets back on the board or on to another.
LapsedClaimsEnd ==
  \A t \in TaskId :
    (\E m \in Poller : <>[][~PollerDies(m) /\ ~KeptFrom(m, t)]_monitorVars) =>
      \A k \in 1..MaxTokens :
        (tasks[t].claim.token = k /\ k \in expired) ~> tasks[t].claim.token # k
----------------------------------------------------------------------------
(* Why the completions found and recorded are right, whatever overlaps and dies. *)

\* Pollers complete no tasks.
PollersFinishNothing == \A m \in Poller : req[m].op # "finish"

\* What a snapshot or a listing shows completed is completed, and a poll lists completed what
\* the snapshot it began with shows completed.
CompletedForGood ==
  \A t \in TaskId :
    /\ snap.status[t] = "completed" => tasks[t].status = "completed"
    /\ \A p \in Proc : memo[p].status[t] = "completed" => tasks[t].status = "completed"
    /\ \A m \in Poller :
         /\ prev[m].status[t] = "completed" => tasks[t].status = "completed"
         /\ view[m][t].status = "completed" =>
              view[m][t].version > 0 /\ tasks[t].status = "completed"
         /\ poll[m] # "off" /\ prev[m].status[t] = "completed" =>
              view[m][t].status = "completed" \/ (poll[m] = "listing" /\ t \in todo[m])

\* What a poll finds unannounced it visits, and nothing else.
EmitsUnannounced ==
  \A m \in Poller, t \in TaskId : poll[m] = "emitting" =>
    /\ t \in todo[m] => t \in Unannounced(prev[m], view[m])
    /\ t \in Unannounced(prev[m], view[m]) => t \in todo[m] \/ events[t]["completed"] # 0

\* The inductive invariant of the polls.
PollInv ==
  /\ MonitorTypeOK
  /\ FilesInv
  /\ PollersFinishNothing
  /\ CompletedForGood
  /\ EmitsUnannounced
=============================================================================
