-------------------------- MODULE TeamMonitorProofs --------------------------
(***************************************************************************)
(* TeamMonitor, for any number of tasks, workers, callers and pollers that *)
(* overlap and die anywhere: what polls leave intact of the board, which   *)
(* completions they find and record, and what has to happen to a task      *)
(* before it can be announced twice.                                       *)
(***************************************************************************)
EXTENDS TeamMonitorHistory, TeamTasksProofs

USE NamesAssumption, TaskIdAssumption, DepsAssumption, BoundsAssumption, BreakAssumption,
    PollerAssumption, MaxAnnouncedAssumption

----------------------------------------------------------------------------
(* What a step of the monitor is to the board. *)

\* Only what was announced and recorded changes.
Recorded ==
  /\ UNCHANGED <<tasks, issued, expired, lock, pc, req, seen, memo>>
  /\ events' \in [TaskId -> [Terminal -> Nat]]
  /\ snap' \in Snapshot

\* An announcement by a poll counts for its task only.
LEMMA EmitCounts ==
  ASSUME MonitorTypeOK, NEW m \in Poller, NEW t \in TaskId, Emit(m, t)
  PROVE  /\ events' \in [TaskId -> [Terminal -> Nat]]
         /\ events'[t]["completed"] # 0
         /\ events[t]["completed"] = 0 => events'[t]["completed"] = 1
         /\ \A u \in TaskId \ {t} : events'[u] = events[u]
<1> DEFINE n == events[t]["completed"]
           more == IF n < MaxAnnounced THEN n + 1 ELSE n
<1>1. events \in [TaskId -> [Terminal -> Nat]] /\ "completed" \in Terminal
  BY DEF MonitorTypeOK, TypeOK, Terminal
<1>2. more \in Nat /\ more # 0 /\ (n = 0 => more = 1)
  BY <1>1
<1>3. events' = [events EXCEPT ![t]["completed"] = more]
  BY DEF Emit
<1> HIDE DEF more
<1>4. QED
  BY <1>1, <1>2, <1>3

\* A poll's steps are calls of TeamTasks, with arguments of its own, or leave the files alone.
LEMMA BoardPart ==
  ASSUME MonitorTypeOK, MonitorNext
  PROVE  \/ Next
         \/ UNCHANGED taskVars
         \/ \E m \in Poller, r \in Request : pc[m] = "idle" /\ r.op # "claim" /\ Decide(m, r)
         \/ /\ Recorded
            /\ (\E m \in Poller : Save(m)) \/ \E m \in Poller, t \in TaskId : Emit(m, t)
<1> DEFINE OwnDecision ==
      \E m \in Poller, r \in Request : pc[m] = "idle" /\ r.op # "claim" /\ Decide(m, r)
<1>1. \A m \in Poller : job[m].task \in TaskId /\ job[m].token \in Nat
  BY DEF MonitorTypeOK, Job
<1>2. issued \in Nat
  BY DEF MonitorTypeOK, TypeOK
<1>3. ASSUME NEW m \in Poller, StartPoll(m) PROVE UNCHANGED taskVars
  BY <1>3 DEF StartPoll
<1>4. ASSUME NEW m \in Poller,
             \/ Listed(m) \/ ReclaimedAll(m) \/ AssignedAll(m) \/ ClaimReturned(m) \/ Dispatched(m)
             \/ \E t \in TaskId : ListTask(m, t) \/ LeaveClaimed(m, t) \/ LeaveOpen(m, t)
      PROVE  UNCHANGED taskVars
  BY <1>4 DEF Listed, ReclaimedAll, AssignedAll, ClaimReturned, Dispatched, GoOn, ListTask,
              LeaveClaimed, LeaveOpen
<1>5. ASSUME NEW m \in Poller, Prepare(m) PROVE OwnDecision \/ UNCHANGED taskVars
  <2> DEFINE deps == tasks[job[m].task].deps
             r == [NoRequest EXCEPT !.op = "update", !.task = job[m].task, !.deps = deps]
  <2>1. deps \in SUBSET TaskId
    BY <1>1 DEF MonitorTypeOK, TypeOK, TaskFile
  <2>2. r \in Request
    BY <1>1, <1>2, <2>1, RequestType
  <2>3. r.op # "claim"
    BY DEF NoRequest
  <2>4. (pc[m] = "idle" /\ Decide(m, r)) \/ UNCHANGED taskVars
    BY <1>5 DEF Prepare, UpdateTask
  <2> HIDE DEF r
  <2>5. QED
    BY <2>2, <2>3, <2>4
<1>6. ASSUME NEW m \in Poller, RollBack(m) PROVE OwnDecision \/ UNCHANGED taskVars
  <2> DEFINE r == [NoRequest EXCEPT !.op = "release", !.task = job[m].task, !.token = job[m].token]
  <2>1. r \in Request
    BY <1>1, <1>2, RequestType
  <2>2. r.op # "claim"
    BY DEF NoRequest
  <2>3. (pc[m] = "idle" /\ Decide(m, r)) \/ UNCHANGED taskVars
    BY <1>6 DEF RollBack, ReleaseTaskClaim
  <2> HIDE DEF r
  <2>4. QED
    BY <2>1, <2>2, <2>3
<1>7. ASSUME NEW m \in Poller, Save(m) PROVE Recorded
  <2>1. \A t \in TaskId : StatusSeen(view[m][t]) \in Status \cup {"unseen"}
    BY DEF StatusSeen, MonitorTypeOK, TaskFile
  <2>2. prev[m].marked \in SUBSET TaskId
    BY DEF MonitorTypeOK, Snapshot
  <2>3. snap' \in Snapshot
    BY <1>7, <2>1, <2>2 DEF Save, Snapshot
  <2>4. QED
    BY <1>7, <2>3 DEF Save, Recorded, MonitorTypeOK, TypeOK
<1>8. ASSUME NEW m \in Poller, NEW t \in TaskId, Emit(m, t) PROVE Recorded
  <2>1. events' \in [TaskId -> [Terminal -> Nat]]
    BY <1>8, EmitCounts
  <2>2. QED
    BY <1>8, <2>1 DEF Emit, Recorded, MonitorTypeOK, TypeOK
<1>9. ASSUME NEW m \in Poller, OwnCall(m) PROVE Next
  BY <1>9 DEF OwnCall, Next
<1>10. ASSUME NEW m \in Poller, NEW t \in TaskId, NEW w \in Worker, Assign(m, t, w) PROVE Next
  <2>1. Call(m)
    BY <1>10 DEF Assign, Call
  <2>2. QED
    BY <2>1 DEF Next
<1>11. ASSUME NEW m \in Poller, PollerDies(m) PROVE Next \/ UNCHANGED taskVars
  BY <1>11 DEF PollerDies, Next
<1>12. ASSUME NEW m \in Poller, NEW t \in TaskId, Reclaim(m, t) PROVE Next
  <2>1. Call(m)
    BY <1>12 DEF Reclaim, Call
  <2>2. QED
    BY <2>1 DEF Next
<1>13. ASSUME NEW p \in Proc, CallerStep(p) PROVE Next
  BY <1>13 DEF CallerStep, Next
<1>14. ASSUME OutsideStep PROVE Next
  BY <1>14 DEF OutsideStep, Next
<1>15. ASSUME NEW t \in TaskId, BreakStaleLock(t) PROVE Next
  BY <1>15 DEF Next
<1> HIDE DEF OwnDecision
<1> DEFINE OwnRecord ==
      /\ Recorded
      /\ (\E m \in Poller : Save(m)) \/ \E m \in Poller, t \in TaskId : Emit(m, t)
<1>16. ASSUME NEW m \in Poller, PollStep(m)
       PROVE  Next \/ UNCHANGED taskVars \/ OwnDecision \/ OwnRecord
  BY <1>4, <1>5, <1>6, <1>7, <1>8, <1>9, <1>10, <1>16 DEF PollStep
<1>17. Next \/ UNCHANGED taskVars \/ OwnDecision \/ OwnRecord
  BY <1>3, <1>11, <1>12, <1>13, <1>14, <1>15, <1>16 DEF MonitorNext
<1>18. QED
  BY <1>17 DEF OwnDecision

----------------------------------------------------------------------------
(* Types. *)

LEMMA NoJobType == NoJob \in Job
<1>1. NoRequest.task \in TaskId
  BY NoRequestType DEF Request
<1>2. QED
  BY <1>1 DEF NoJob, Job

LEMMA JobChange ==
  ASSUME job \in [Poller -> Job], NEW m \in Poller
  PROVE  /\ \A b \in BOOLEAN : [job EXCEPT ![m].moved = b] \in [Poller -> Job]
         /\ \A k \in Nat : [job EXCEPT ![m].token = k] \in [Poller -> Job]
         /\ \A t \in TaskId : [job EXCEPT ![m].task = t, ![m].token = 0] \in [Poller -> Job]
<1>1. \A b \in BOOLEAN : [job[m] EXCEPT !.moved = b] \in Job
  BY DEF Job
<1>2. \A k \in Nat : [job[m] EXCEPT !.token = k] \in Job
  BY DEF Job
<1>3. \A t \in TaskId : [job[m] EXCEPT !.task = t, !.token = 0] \in Job
  <2>1. job[m] \in [task: TaskId, token: Nat, moved: BOOLEAN] /\ 0 \in Nat
    BY DEF Job
  <2>2. QED
    BY <2>1 DEF Job
<1>4. QED
  BY <1>1, <1>2, <1>3

LEMMA MonitorTypeStep == MonitorTypeOK /\ [MonitorNext]_monitorVars => MonitorTypeOK'
<1> SUFFICES ASSUME MonitorTypeOK, [MonitorNext]_monitorVars PROVE MonitorTypeOK'
  OBVIOUS
<1> DEFINE PollTypes ==
      /\ poll \in [Poller -> PollStage]
      /\ prev \in [Poller -> Snapshot]
      /\ view \in [Poller -> [TaskId -> TaskFile]]
      /\ todo \in [Poller -> SUBSET TaskId]
      /\ job \in [Poller -> Job]
<1>1. TypeOK /\ PollTypes
  BY DEF MonitorTypeOK
<1>2. TypeOK'
  <2>1. CASE Next \/ UNCHANGED taskVars
    BY <1>1, <2>1, TypeStep
  <2>2. ASSUME NEW m \in Poller, NEW r \in Request, Decide(m, r) PROVE TypeOK'
    BY <1>1, <2>2, DecideType
  <2>3. CASE Recorded
    BY <1>1, <2>3 DEF Recorded, TypeOK
  <2>4. CASE UNCHANGED monitorVars
    BY <2>1, <2>4 DEF monitorVars
  <2>5. QED
    BY <2>1, <2>2, <2>3, <2>4, BoardPart
<1>3. ASSUME NEW m \in Poller, StartPoll(m) PROVE PollTypes'
  <2>1. snap \in Snapshot
    BY <1>1 DEF TypeOK
  <2>2. QED
    BY <1>1, <1>3, <2>1 DEF StartPoll, PollStage
<1>4. ASSUME NEW m \in Poller, NEW t \in TaskId, ListTask(m, t) PROVE PollTypes'
  BY <1>1, <1>4 DEF ListTask, TypeOK
<1>5. ASSUME NEW m \in Poller, NEW a, NEW b \in PollStage, NEW S \in SUBSET TaskId, GoOn(m, a, b, S)
      PROVE  PollTypes'
  BY <1>1, <1>5, JobChange DEF GoOn
<1>6. ASSUME NEW m \in Poller, Listed(m) \/ ReclaimedAll(m) \/ AssignedAll(m) PROVE PollTypes'
  <2>1. {t \in TaskId : view[m][t].status = "in_progress"} \in SUBSET TaskId
    OBVIOUS
  <2>2. Assignable(view[m]) \in SUBSET TaskId /\ Unannounced(prev[m], view[m]) \in SUBSET TaskId
    BY DEF Assignable, Unannounced
  <2>3. {"reclaiming", "relisting", "assigning", "viewing", "emitting"} \subseteq PollStage
    BY DEF PollStage
  <2> HIDE DEF PollTypes
  <2>4. QED
    BY <1>5, <1>6, <2>1, <2>2, <2>3 DEF Listed, ReclaimedAll, AssignedAll
<1>7. ASSUME NEW m \in Poller, NEW t \in TaskId, Reclaim(m, t) PROVE PollTypes'
  BY <1>1, <1>7, JobChange DEF Reclaim
<1>8. ASSUME NEW m \in Poller, NEW t \in TaskId, LeaveClaimed(m, t) \/ LeaveOpen(m, t) \/ Emit(m, t)
      PROVE  PollTypes'
  BY <1>1, <1>8 DEF LeaveClaimed, LeaveOpen, Emit
<1>9. ASSUME NEW m \in Poller, NEW t \in TaskId, NEW w \in Worker, Assign(m, t, w) PROVE PollTypes'
  BY <1>1, <1>9, JobChange DEF Assign, PollStage
<1>10. ASSUME NEW m \in Poller,
              ClaimReturned(m) \/ Prepare(m) \/ Dispatched(m) \/ RollBack(m)
       PROVE  PollTypes'
  <2>1. CASE ClaimReturned(m) \/ Prepare(m) \/ RollBack(m)
    BY <1>1, <2>1 DEF ClaimReturned, Prepare, RollBack, PollStage
  <2>2. CASE Dispatched(m)
    <3>1. job' \in [Poller -> Job]
      BY <1>1, <2>2, JobChange DEF Dispatched
    <3>2. QED
      BY <1>1, <2>2, <3>1 DEF Dispatched, PollStage
  <2>3. QED
    BY <1>10, <2>1, <2>2
<1>11. ASSUME NEW m \in Poller, OwnCall(m) PROVE PollTypes'
  <2>1. issued + 1 \in Nat
    BY <1>1 DEF TypeOK
  <2>2. job[m].token \in Nat
    BY <1>1 DEF Job
  <2>3. PICK k \in Nat : job' = [job EXCEPT ![m].token = k]
    BY <1>1, <1>11, <2>1, <2>2 DEF OwnCall
  <2>4. job' \in [Poller -> Job]
    BY <1>1, <2>3, JobChange
  <2>5. QED
    BY <1>1, <1>11, <2>4 DEF OwnCall
<1>12. ASSUME NEW m \in Poller, Save(m) \/ PollerDies(m) PROVE PollTypes'
  <2>1. Ends(m)
    BY <1>12 DEF Save, PollerDies
  <2>2. QED
    BY <1>1, <2>1, NoFileType, NoSnapshotType, NoJobType DEF Ends, PollStage
<1>13. ASSUME UNCHANGED pollVars PROVE PollTypes'
  BY <1>1, <1>13 DEF pollVars
<1> HIDE DEF PollTypes
<1>14. ASSUME NEW m \in Poller, PollStep(m) PROVE PollTypes'
  BY <1>4, <1>6, <1>8, <1>9, <1>10, <1>11, <1>12, <1>14 DEF PollStep
<1>15. PollTypes'
  BY <1>3, <1>7, <1>12, <1>13, <1>14 DEF MonitorNext, monitorVars
<1>16. QED
  BY <1>2, <1>15 DEF MonitorTypeOK, PollTypes

LEMMA MonitorTypeInit == MonitorInit => MonitorTypeOK
<1> SUFFICES ASSUME MonitorInit PROVE MonitorTypeOK
  OBVIOUS
<1>1. TypeOK
  BY NoFileType, NoRequestType, NoSnapshotType DEF MonitorInit, Init, TypeOK, Stage
<1>2. QED
  BY <1>1, NoFileType, NoSnapshotType, NoJobType DEF MonitorInit, MonitorTypeOK, PollStage

\* Every variable of the poll and of the board keeps its type, whatever overlaps and dies.
THEOREM MonitorTypeCorrect == MonitorSpec => []MonitorTypeOK
  BY MonitorTypeInit, MonitorTypeStep, PTL DEF MonitorSpec

----------------------------------------------------------------------------
(* The board, with polls that overlap each other and every call, and die anywhere. *)

LEMMA MonitorFilesStep ==
  ASSUME LiveLocksBroken = FALSE, MonitorTypeOK, FilesInv, [MonitorNext]_monitorVars
  PROVE  FilesInv'
<1>1. CASE Next \/ UNCHANGED taskVars
  BY <1>1, FilesStep
<1>2. ASSUME NEW m \in Poller, NEW r \in Request, r.op # "claim", Decide(m, r) PROVE FilesInv'
  BY <1>2, DecideInv
<1>3. CASE Recorded
  <2>1. TypeOK'
    BY MonitorTypeStep DEF MonitorTypeOK
  <2>2. UNCHANGED <<tasks, issued, expired, lock, pc, req, seen>>
    BY <1>3 DEF Recorded
  <2>3. QED
    BY <2>1, <2>2, Untouched, QuietStep
<1>4. CASE UNCHANGED monitorVars
  BY <1>1, <1>4 DEF monitorVars
<1>5. QED
  BY <1>1, <1>2, <1>3, <1>4, BoardPart

\* Polls leave what the calls of the board rely on as it is.
THEOREM MonitorFilesCorrect ==
  ASSUME LiveLocksBroken = FALSE
  PROVE  MonitorSpec => []FilesInv
<1>1. MonitorInit => FilesInv
  BY FilesInit DEF MonitorInit
<1>2. MonitorTypeOK /\ FilesInv /\ [MonitorNext]_monitorVars => FilesInv'
  BY MonitorFilesStep
<1>3. QED
  BY <1>1, <1>2, MonitorTypeCorrect, PTL DEF MonitorSpec

\* No call and no poll ever writes a task file over another one's write, although a poll decides
\* what to do from a listing that may be old.
THEOREM MonitorNeverStaleWrite ==
  ASSUME LiveLocksBroken = FALSE
  PROVE  MonitorSpec => []NoStaleWrite
<1>1. FilesInv => NoStaleWrite
  BY DEF FilesInv, InTurn, NoStaleWrite
<1>2. QED
  BY <1>1, MonitorFilesCorrect, PTL

\* A poll's reclaims and roll-backs end a running lease only with its token.
THEOREM MonitorLeasesHonoured ==
  ASSUME LiveLocksBroken = FALSE
  PROVE  MonitorSpec => LeaseHonoured
<1> DEFINE Kept ==
      \A t \in TaskId :
        (/\ tasks[t].claim # NoClaim
         /\ tasks[t].claim.token \notin expired
         /\ tasks'[t].claim # tasks[t].claim)
        => \E p \in Proc : /\ pc[p] = "writing"
                           /\ req[p].task = t
                           /\ req[p].op \in {"finish", "release"}
                           /\ req[p].token = tasks[t].claim.token
<1>1. MonitorTypeOK /\ FilesInv /\ [MonitorNext]_monitorVars => [Kept]_taskVars
  <2> SUFFICES ASSUME MonitorTypeOK, FilesInv, [MonitorNext]_monitorVars PROVE [Kept]_taskVars
    OBVIOUS
  <2>1. CASE Next
    BY <2>1, LeaseStep
  <2>2. CASE tasks' = tasks
    BY <2>2
  <2>3. \A m, r : Decide(m, r) => tasks' = tasks
    BY DEF Decide, Accept, Refuse, Enter
  <2> HIDE DEF Kept
  <2>4. QED
    BY <2>1, <2>2, <2>3, BoardPart DEF Recorded, taskVars, monitorVars
<1>2. MonitorSpec => [][Kept]_taskVars
  <2> HIDE DEF Kept
  <2>1. QED
    BY <1>1, MonitorTypeCorrect, MonitorFilesCorrect, PTL DEF MonitorSpec
<1>3. QED
  BY <1>2 DEF LeaseHonoured

\* With polls that overlap calls and each other and die half way, task files still go through
\* the atomic operations of TaskLifecycle only.
THEOREM MonitorImplementsLifecycle ==
  ASSUME LiveLocksBroken = FALSE
  PROVE  MonitorSpec => ImplementsLifecycle
<1>1. MonitorInit => Lifecycle!Init
  BY DEF MonitorInit, Init, Lifecycle!Init, PhaseOf, Present, NoFile, NoClaim
<1>2. MonitorTypeOK /\ FilesInv /\ [MonitorNext]_monitorVars
        => [Lifecycle!Next]_Lifecycle!lifecycleVars
  <2> SUFFICES ASSUME MonitorTypeOK, FilesInv, [MonitorNext]_monitorVars
               PROVE  [Lifecycle!Next]_Lifecycle!lifecycleVars
    OBVIOUS
  <2>1. CASE Next \/ UNCHANGED taskVars
    BY <2>1, ImplementsStep
  <2>2. CASE UNCHANGED <<tasks, issued, expired>>
    BY <2>2, StutterStep
  <2>3. \A m, r : Decide(m, r) => UNCHANGED <<tasks, issued, expired>>
    BY DEF Decide, Accept, Refuse, Enter
  <2>4. QED
    BY <2>1, <2>2, <2>3, BoardPart DEF Recorded, monitorVars
<1>3. QED
  BY <1>1, <1>2, MonitorTypeCorrect, MonitorFilesCorrect, PTL
     DEF MonitorSpec, ImplementsLifecycle, Lifecycle!Spec

\* Polls use the tasks' locks as they are promised, too.
THEOREM MonitorUsesLocksAsPromised ==
  ASSUME LiveLocksBroken = FALSE
  PROVE  MonitorSpec => (\A t \in TaskId : TaskLock(t)!Init) /\ LocksUsedAsHeld
<1> DEFINE Use == \A t \in TaskId : [TaskLock(t)!Next]_(TaskLock(t)!heldVars)
<1>1. MonitorInit => \A t \in TaskId : TaskLock(t)!Init
  BY DEF MonitorInit, Init, TaskLock!Init
<1>2. MonitorTypeOK /\ FilesInv /\ [MonitorNext]_monitorVars => [Use]_taskVars
  <2> SUFFICES ASSUME MonitorTypeOK, FilesInv, [MonitorNext]_monitorVars, NEW t \in TaskId
               PROVE  [TaskLock(t)!Next]_(TaskLock(t)!heldVars)
    OBVIOUS
  <2>1. CASE Next \/ UNCHANGED taskVars
    BY <2>1, LockUse
  <2>2. CASE Recorded
    BY <2>2 DEF Recorded, TaskLock!heldVars
  <2>3. ASSUME NEW m \in Poller, NEW r \in Request, pc[m] = "idle", Decide(m, r)
        PROVE  [TaskLock(t)!Next]_(TaskLock(t)!heldVars)
    BY <2>3, DecideTakes, PollerAssumption DEF FilesInv
  <2>4. QED
    BY <2>1, <2>2, <2>3, BoardPart DEF monitorVars
<1>3. QED
  BY <1>1, <1>2, MonitorTypeCorrect, MonitorFilesCorrect, PTL DEF MonitorSpec, LocksUsedAsHeld

----------------------------------------------------------------------------
(* Completions. *)

\* What is completed stays so.
LEMMA CompletedStays ==
  ASSUME MonitorTypeOK, FilesInv, [MonitorNext]_monitorVars, NEW t \in TaskId,
         tasks[t].status = "completed"
  PROVE  tasks'[t].status = "completed"
<1>1. CASE Next
  <2>1. "completed" \in Terminal
    BY DEF Terminal
  <2>2. ASSUME NEW p \in Proc, WriteTask(p) PROVE tasks'[t].status = "completed"
    BY <2>1, <2>2, FinalStays
  <2>3. ASSUME NEW p \in Proc, Announce(p) PROVE tasks'[t].status = "completed"
    BY <2>3 DEF Announce
  <2>4. QED
    BY <1>1, <2>1, <2>2, <2>3, OutcomeStep
<1>2. CASE tasks' = tasks
  BY <1>2
<1>3. \A m, r : Decide(m, r) => tasks' = tasks
  BY DEF Decide, Accept, Refuse, Enter
<1>4. QED
  BY <1>1, <1>2, <1>3, BoardPart DEF Recorded, taskVars, monitorVars

\* A completed task has a file.
LEMMA CompletedPresent ==
  ASSUME FilesInv, NEW t \in TaskId, tasks[t].status = "completed"
  PROVE  tasks[t].version > 0
  BY DEF FilesInv, AbsentIsEmpty, Present, NoFile

\* Which steps change the snapshot, and what a process keeps of it.
LEMMA SnapshotStep ==
  ASSUME TypeOK, Next
  PROVE  /\ snap' = snap \/ \E p \in Proc : WriteSnapshot(p)
         /\ \A q \in Proc : memo'[q] \in {memo[q], snap, NoSnapshot}
<1> DEFINE Copies == \A q \in Proc : memo'[q] \in {memo[q], snap, NoSnapshot}
<1>1. ASSUME NEW p \in Proc, Return(p) PROVE Copies
  BY <1>1 DEF Return, TypeOK
<1>2. ASSUME NEW p \in Proc, NEW r, Decide(p, r) PROVE snap' = snap /\ Copies
  BY <1>2 DEF Decide, Accept, Refuse, Enter
<1>3. ASSUME NEW p \in Proc, Call(p) PROVE snap' = snap /\ Copies
  BY <1>2, <1>3 DEF Call, ClaimTask, TransitionTaskStatus, ReleaseTaskClaim,
                    ReclaimExpiredTaskClaim, UpdateTask
<1>4. ASSUME NEW p \in Proc, ReadSnapshot(p) PROVE snap' = snap /\ Copies
  BY <1>4 DEF ReadSnapshot, TypeOK
<1>5. ASSUME NEW p \in Proc, GiveUp(p) \/ Release(p) \/ Crash(p) PROVE snap' = snap /\ Copies
  <2>1. Return(p) /\ snap' = snap
    BY <1>5 DEF GiveUp, Release, Crash
  <2>2. QED
    BY <1>1, <2>1
<1>6. ASSUME NEW p \in Proc, WriteTask(p) \/ Announce(p) \/ ReleaseToMark(p)
      PROVE  snap' = snap /\ Copies
  BY <1>6 DEF WriteTask, Announce, ReleaseToMark
<1>7. ASSUME NEW p \in Proc, WriteSnapshot(p) PROVE Copies
  <2>1. Return(p)
    BY <1>7 DEF WriteSnapshot
  <2>2. QED
    BY <1>1, <2>1
<1>8. ASSUME NEW p \in Proc, ClaimUnderLock(p) PROVE snap' = snap /\ Copies
  BY <1>2, <1>8 DEF ClaimUnderLock
<1> HIDE DEF Copies
<1>9. ASSUME NEW p \in Proc, Step(p)
      PROVE  (snap' = snap \/ \E q \in Proc : WriteSnapshot(q)) /\ Copies
  BY <1>4, <1>5, <1>6, <1>7, <1>8, <1>9 DEF Step
<1>10. ASSUME \/ \E t \in TaskId : \E owner \in Worker \cup {"none"}, deps \in Deps[t] :
                   CreateTask(t, owner, deps)
              \/ \E t \in TaskId : ExpireLease(t) \/ BreakStaleLock(t)
       PROVE  snap' = snap /\ Copies
  BY <1>10 DEF CreateTask, ExpireLease, BreakStaleLock, Copies
<1>11. (snap' = snap \/ \E p \in Proc : WriteSnapshot(p)) /\ Copies
  BY <1>3, <1>5, <1>9, <1>10 DEF Next
<1>12. QED
  BY <1>11 DEF Copies

\* The same for a step of the monitor, where polls write the snapshot too.
LEMMA WrittenByWhom ==
  ASSUME MonitorTypeOK, MonitorNext
  PROVE  /\ \/ snap' = snap
            \/ \E p \in Proc : WriteSnapshot(p)
            \/ \E m \in Poller : Save(m)
         /\ \A q \in Proc : memo'[q] \in {memo[q], snap, NoSnapshot}
<1>1. \A m, r : Decide(m, r) => snap' = snap /\ memo' = memo
  BY DEF Decide, Accept, Refuse, Enter
<1>2. \A m \in Poller, t \in TaskId : Emit(m, t) => snap' = snap
  BY DEF Emit
<1>3. QED
  BY <1>1, <1>2, SnapshotStep, BoardPart DEF Recorded, taskVars, MonitorTypeOK

\* Which steps announce a completion, and that a call about to announce one has just written it.
LEMMA AnnouncedByWhom ==
  ASSUME MonitorTypeOK, FilesInv, MonitorNext
  PROVE  /\ \A t \in TaskId :
              \/ events'[t]["completed"] = events[t]["completed"]
              \/ \E p \in Proc : Announce(p) /\ Completing(req[p]) /\ req[p].task = t
              \/ \E m \in Poller : Emit(m, t)
         /\ \A q \in Proc : pc'[q] = "announcing" /\ Completing(req'[q]) =>
              \/ pc[q] = "announcing" /\ req'[q] = req[q]
              \/ tasks[req'[q].task].status # "completed"
<1> DEFINE Once ==
      \A t \in TaskId :
        \/ events'[t]["completed"] = events[t]["completed"]
        \/ \E p \in Proc : Announce(p) /\ Completing(req[p]) /\ req[p].task = t
        \/ \E m \in Poller : Emit(m, t)
<1> DEFINE Fresh ==
      \A q \in Proc : pc'[q] = "announcing" /\ Completing(req'[q]) =>
        \/ pc[q] = "announcing" /\ req'[q] = req[q]
        \/ tasks[req'[q].task].status # "completed"
<1>1. TypeOK
  BY DEF MonitorTypeOK
<1>2. ASSUME NEW p \in Proc, WriteTask(p) PROVE Once /\ Fresh
  <2>1. /\ UNCHANGED <<events, req>>
        /\ pc' = [pc EXCEPT ![p] = IF req[p].op = "finish" THEN "announcing" ELSE "releasing"]
    BY <1>2 DEF WriteTask
  <2>2. req[p].op = "finish" => tasks[req[p].task].status = "in_progress"
    BY <1>2, WriteResult DEF Entitled
  <2>3. QED
    BY <1>1, <2>1, <2>2 DEF TypeOK, Completing
<1>3. ASSUME NEW p \in Proc, Announce(p) PROVE Once /\ Fresh
  <2>1. /\ pc[p] = "announcing" /\ req' = req
        /\ pc' = [pc EXCEPT ![p] = "releasing"]
        /\ events' = [events EXCEPT ![req[p].task][req[p].outcome] = @ + 1]
    BY <1>3 DEF Announce
  <2>2. req[p].op = "finish" /\ req[p].task \in TaskId /\ req[p].outcome \in Terminal
    BY <1>1, <2>1 DEF FilesInv, InTurn, TypeOK, Request
  <2>3. Once
    <3> SUFFICES ASSUME NEW t \in TaskId, events'[t]["completed"] # events[t]["completed"]
                 PROVE  Completing(req[p]) /\ req[p].task = t
      BY <1>3
    <3>1. QED
      BY <1>1, <2>1, <2>2 DEF TypeOK, Completing, Terminal
  <2>4. Fresh
    BY <1>1, <2>1 DEF TypeOK
  <2>5. QED
    BY <2>3, <2>4
<1>4. ASSUME Next PROVE Once /\ Fresh
  <2>1. ASSUME events' = events,
               \A q \in Proc : pc'[q] = "announcing" => pc[q] = "announcing" /\ req'[q] = req[q]
        PROVE  Once /\ Fresh
    BY <2>1
  <2> HIDE DEF Once, Fresh
  <2>2. QED
    BY <1>2, <1>3, <1>4, <2>1, OutcomeStep
<1>5. ASSUME UNCHANGED taskVars PROVE Once /\ Fresh
  BY <1>5 DEF taskVars
<1>6. ASSUME NEW m \in Poller, NEW r \in Request, Decide(m, r) PROVE Once /\ Fresh
  BY <1>1, <1>6 DEF Decide, Accept, Refuse, Enter, TypeOK
<1>7. ASSUME NEW m \in Poller, Save(m) PROVE Once /\ Fresh
  BY <1>7 DEF Save
<1>8. ASSUME NEW m \in Poller, NEW t \in TaskId, Emit(m, t) PROVE Once /\ Fresh
  <2>1. Fresh
    BY <1>8 DEF Emit
  <2>2. Once
    BY <1>8, EmitCounts
  <2>3. QED
    BY <2>1, <2>2
<1> HIDE DEF Once, Fresh
<1>9. Once /\ Fresh
  BY <1>4, <1>5, <1>6, <1>7, <1>8, BoardPart
<1>10. QED
  BY <1>9 DEF Once, Fresh

----------------------------------------------------------------------------
(* What a step is to one poller. *)

\* It is not its step, or one that leaves the poll where it is.
Stays(m) ==
  poll'[m] = poll[m] /\ prev'[m] = prev[m] /\ view'[m] = view[m] /\ todo'[m] = todo[m]

\* It moves between stages at which nothing depends on the snapshot or the listing.
MovesOn(m) ==
  /\ poll[m] \notin {"off", "listing", "emitting"}
  /\ poll'[m] \notin {"off", "listing", "emitting"}
  /\ prev'[m] = prev[m] /\ view'[m] = view[m]

Begins(m) ==
  /\ poll[m] = "off" /\ poll'[m] = "listing"
  /\ prev'[m] = snap /\ view'[m] = view[m] /\ todo'[m] = TaskId
  /\ UNCHANGED <<snap, events>>

Lists(m, t) ==
  /\ poll[m] \notin {"off", "emitting"} /\ poll'[m] = poll[m]
  /\ prev'[m] = prev[m]
  /\ view'[m] = [view[m] EXCEPT ![t] = tasks[t]]
  /\ todo'[m] = todo[m] \ {t}

HasListed(m) ==
  /\ poll[m] = "listing" /\ poll'[m] = "reclaiming" /\ todo[m] = {}
  /\ prev'[m] = prev[m] /\ view'[m] = view[m]

StartsEmitting(m) ==
  /\ poll[m] \in {"viewing", "assigning"} /\ poll'[m] = "emitting"
  /\ prev'[m] = prev[m] /\ view'[m] = view[m]
  /\ todo'[m] = Unannounced(prev[m], view[m])

Emits(m, t) ==
  /\ Emit(m, t)
  /\ poll'[m] = "emitting" /\ prev'[m] = prev[m] /\ view'[m] = view[m]
  /\ todo'[m] = todo[m] \ {t}

IsOver(m) ==
  poll'[m] = "off" /\ prev'[m] = NoSnapshot /\ view'[m] = [t \in TaskId |-> NoFile]

PollPart(m) ==
  \/ Stays(m) \/ MovesOn(m) \/ Begins(m) \/ HasListed(m) \/ StartsEmitting(m) \/ IsOver(m)
  \/ \E t \in TaskId : Lists(m, t) \/ Emits(m, t)

LEMMA PollParts ==
  ASSUME MonitorTypeOK, [MonitorNext]_monitorVars, NEW m \in Poller
  PROVE  PollPart(m)
<1> DEFINE Inner == PollStage \ {"off", "listing", "emitting"}
<1>1. /\ poll \in [Poller -> PollStage] /\ prev \in [Poller -> Snapshot]
      /\ view \in [Poller -> [TaskId -> TaskFile]] /\ todo \in [Poller -> SUBSET TaskId]
  BY DEF MonitorTypeOK
<1>2. ASSUME UNCHANGED pollVars PROVE PollPart(m)
  BY <1>2 DEF pollVars, PollPart, Stays
<1>3. ASSUME NEW n \in Poller, StartPoll(n) PROVE PollPart(m)
  <2>1. n # m => Stays(m)
    BY <1>1, <1>3 DEF StartPoll, Stays
  <2>2. n = m => Begins(m)
    BY <1>1, <1>3 DEF StartPoll, Begins, taskVars
  <2>3. QED
    BY <2>1, <2>2 DEF PollPart
<1>4. ASSUME NEW n \in Poller, NEW t \in TaskId, ListTask(n, t) PROVE PollPart(m)
  <2>1. n # m => Stays(m)
    BY <1>1, <1>4 DEF ListTask, Stays
  <2>2. n = m => Lists(m, t)
    BY <1>1, <1>4 DEF ListTask, Lists
  <2>3. QED
    BY <2>1, <2>2 DEF PollPart
<1>5. ASSUME NEW n \in Poller, NEW from, NEW to, NEW S, GoOn(n, from, to, S)
      PROVE  /\ n # m => Stays(m)
             /\ n = m => /\ poll[m] = from /\ poll'[m] = to /\ todo[m] = {} /\ todo'[m] = S
                         /\ prev'[m] = prev[m] /\ view'[m] = view[m]
  BY <1>1, <1>5 DEF GoOn, Stays
<1>6. ASSUME NEW n \in Poller, Listed(n) \/ ReclaimedAll(n) \/ AssignedAll(n) PROVE PollPart(m)
  <2>1. ASSUME NEW from, NEW to, NEW S, GoOn(n, from, to, S),
               \/ from \in {"relisting", "reclaiming", "assigning"}
                  /\ to \in {"assigning", "relisting", "viewing"}
               \/ from = "listing" /\ to = "reclaiming"
               \/ /\ from \in {"viewing", "assigning"} /\ to = "emitting"
                  /\ S = Unannounced(prev[n], view[n])
        PROVE  PollPart(m)
    BY <1>5, <2>1 DEF PollPart, MovesOn, HasListed, StartsEmitting
  <2>2. QED
    BY <1>6, <2>1 DEF Listed, ReclaimedAll, AssignedAll
<1>7. ASSUME NEW n \in Poller, UNCHANGED <<prev, view>>,
             \/ UNCHANGED <<poll, todo>>
             \/ /\ poll[n] \notin {"off", "listing", "emitting"}
                /\ \E to \in PollStage \ {"off", "listing", "emitting"} :
                     poll' = [poll EXCEPT ![n] = to]
                /\ todo' = todo \/ \E t \in TaskId : todo' = [todo EXCEPT ![n] = @ \ {t}]
             \/ /\ poll[n] \notin {"off", "listing", "emitting"} /\ poll' = poll
                /\ \E t \in TaskId : todo' = [todo EXCEPT ![n] = @ \ {t}]
      PROVE  PollPart(m)
  <2>1. n # m => Stays(m)
    BY <1>1, <1>7 DEF Stays
  <2>2. n = m => Stays(m) \/ MovesOn(m)
    BY <1>1, <1>7 DEF Stays, MovesOn
  <2>3. QED
    BY <2>1, <2>2 DEF PollPart
<1>8. ASSUME NEW n \in Poller,
             \/ ClaimReturned(n) \/ Prepare(n) \/ Dispatched(n) \/ RollBack(n) \/ OwnCall(n)
             \/ \E t \in TaskId : LeaveClaimed(n, t) \/ LeaveOpen(n, t) \/ Reclaim(n, t)
             \/ \E t \in TaskId, w \in Worker : Assign(n, t, w)
      PROVE  PollPart(m)
  BY <1>7, <1>8 DEF ClaimReturned, Prepare, Dispatched, RollBack, OwnCall, LeaveClaimed, LeaveOpen,
                    Reclaim, Assign, PollStage
<1>9. ASSUME NEW n \in Poller, NEW t \in TaskId, Emit(n, t) PROVE PollPart(m)
  <2>1. n # m => Stays(m)
    BY <1>1, <1>9 DEF Emit, Stays
  <2>2. n = m => Emits(m, t)
    BY <1>1, <1>9 DEF Emit, Emits
  <2>3. QED
    BY <2>1, <2>2 DEF PollPart
<1>10. ASSUME NEW n \in Poller, Save(n) \/ PollerDies(n) PROVE PollPart(m)
  <2>1. Ends(n)
    BY <1>10 DEF Save, PollerDies
  <2>2. n # m => Stays(m)
    BY <1>1, <2>1 DEF Ends, Stays
  <2>3. n = m => IsOver(m)
    BY <1>1, <2>1 DEF Ends, IsOver
  <2>4. QED
    BY <2>2, <2>3 DEF PollPart
<1>11. ASSUME NEW n \in Poller, PollStep(n) PROVE PollPart(m)
  BY <1>4, <1>6, <1>8, <1>9, <1>10, <1>11 DEF PollStep
<1>12. QED
  BY <1>2, <1>3, <1>8, <1>10, <1>11 DEF MonitorNext, monitorVars

----------------------------------------------------------------------------
(* What polls find and record. *)

\* A process's step leaves the calls of the others where they are.
LEMMA OthersWait ==
  ASSUME TypeOK, NEW p, NEW q \in Proc \ {p}, Call(p) \/ Step(p) \/ Crash(p) \/ \E r : Decide(p, r)
  PROVE  req'[q] = req[q]
<1>1. ASSUME NEW r, Decide(p, r) PROVE req'[q] = req[q]
  BY <1>1 DEF Decide, Accept, Refuse, Enter, TypeOK
<1>2. ASSUME Return(p) PROVE req'[q] = req[q]
  BY <1>2 DEF Return, TypeOK
<1>3. ASSUME Call(p) PROVE req'[q] = req[q]
  BY <1>1, <1>3 DEF Call, ClaimTask, TransitionTaskStatus, ReleaseTaskClaim,
                    ReclaimExpiredTaskClaim, UpdateTask, TypeOK
<1>4. ASSUME Step(p) PROVE req'[q] = req[q]
  BY <1>1, <1>2, <1>4 DEF Step, ClaimUnderLock, GiveUp, WriteTask, Announce, Release, ReleaseToMark,
                          ReadSnapshot, WriteSnapshot
<1>5. QED
  BY <1>1, <1>2, <1>3, <1>4 DEF Crash

LEMMA FinishStep ==
  ASSUME MonitorTypeOK, PollersFinishNothing, [MonitorNext]_monitorVars
  PROVE  PollersFinishNothing'
<1> SUFFICES ASSUME NEW m \in Poller PROVE req'[m].op # "finish"
  BY DEF PollersFinishNothing
<1>1. TypeOK /\ req[m].op # "finish"
  BY DEF MonitorTypeOK, PollersFinishNothing
<1>2. CASE req' = req
  BY <1>1, <1>2
<1>3. ASSUME NEW n \in Poller, NEW r, Decide(n, r), r.op # "finish" PROVE req'[m].op # "finish"
  <2>1. CASE n = m
    BY <1>1, <1>3, <2>1 DEF Decide, Accept, Refuse, Enter, TypeOK
  <2>2. CASE n # m
    BY <1>1, <1>3, <2>2, OthersWait
  <2>3. QED
    BY <2>1, <2>2
<1>4. ASSUME NEW n \in Poller, Return(n) PROVE req'[m].op # "finish"
  BY <1>1, <1>4 DEF Return, NoRequest, TypeOK
<1>5. ASSUME NEW n \in Poller, Step(n) PROVE req'[m].op # "finish"
  <2>1. CASE ClaimUnderLock(n)
    BY <1>3, <2>1 DEF ClaimUnderLock, PollersFinishNothing
  <2>2. CASE ~ClaimUnderLock(n)
    BY <1>2, <1>4, <1>5, <2>2 DEF Step, GiveUp, WriteTask, Announce, Release, ReleaseToMark,
                                  ReadSnapshot, WriteSnapshot
  <2>3. QED
    BY <2>1, <2>2
<1>6. ASSUME NEW n \in Poller, NEW t \in TaskId, NEW w, NEW v, ClaimTask(n, t, w, v)
      PROVE  req'[m].op # "finish"
  BY <1>1, <1>6 DEF ClaimTask, NoRequest, TypeOK
<1>7. ASSUME NEW n \in Poller, NEW t, NEW k, NEW deps,
             \/ ReleaseTaskClaim(n, t, k) \/ ReclaimExpiredTaskClaim(n, t) \/ UpdateTask(n, t, deps)
      PROVE  req'[m].op # "finish"
  <2>1. /\ [NoRequest EXCEPT !.op = "release", !.task = t, !.token = k].op # "finish"
        /\ [NoRequest EXCEPT !.op = "reclaim", !.task = t].op # "finish"
        /\ [NoRequest EXCEPT !.op = "update", !.task = t, !.deps = deps].op # "finish"
    BY DEF NoRequest
  <2>2. QED
    BY <1>3, <1>7, <2>1 DEF ReleaseTaskClaim, ReclaimExpiredTaskClaim, UpdateTask
<1>8. ASSUME NEW n \in Poller, PollStep(n) PROVE req'[m].op # "finish"
  <2>1. CASE Prepare(n) \/ RollBack(n) \/ \E t \in TaskId, w \in Worker : Assign(n, t, w)
    BY <1>2, <1>6, <1>7, <2>1 DEF Prepare, RollBack, Assign, taskVars
  <2>2. CASE OwnCall(n)
    BY <1>5, <2>2 DEF OwnCall
  <2>3. CASE \/ Listed(n) \/ ReclaimedAll(n) \/ AssignedAll(n) \/ ClaimReturned(n)
             \/ Dispatched(n) \/ Save(n)
             \/ \E t \in TaskId : \/ ListTask(n, t) \/ LeaveClaimed(n, t) \/ LeaveOpen(n, t)
                                  \/ Emit(n, t)
    BY <1>2, <2>3 DEF Listed, ReclaimedAll, AssignedAll, ClaimReturned, Dispatched, Save, GoOn,
                      ListTask, LeaveClaimed, LeaveOpen, Emit, taskVars
  <2>4. QED
    BY <1>8, <2>1, <2>2, <2>3 DEF PollStep
<1>9. ASSUME NEW n \in Poller, StartPoll(n) \/ PollerDies(n) PROVE req'[m].op # "finish"
  BY <1>2, <1>4, <1>9 DEF StartPoll, PollerDies, Crash, taskVars
<1>10. ASSUME NEW n \in Poller, NEW t \in TaskId, Reclaim(n, t) PROVE req'[m].op # "finish"
  BY <1>7, <1>10 DEF Reclaim
<1>11. ASSUME NEW p \in Proc \ Poller, CallerStep(p) PROVE req'[m].op # "finish"
  BY <1>1, <1>11, OthersWait DEF CallerStep
<1>12. CASE OutsideStep \/ (\E t \in TaskId : BreakStaleLock(t)) \/ UNCHANGED monitorVars
  BY <1>2, <1>12
     DEF OutsideStep, CreateTask, ExpireLease, BreakStaleLock, monitorVars, taskVars
<1>13. QED
  BY <1>8, <1>9, <1>10, <1>11, <1>12 DEF MonitorNext

\* What a poll's snapshot shows completed is what it has listed completed.
LEMMA SavedStatus ==
  ASSUME MonitorTypeOK, NEW m \in Poller, Save(m), NEW t \in TaskId
  PROVE  /\ snap'.status[t] = "completed" => view[m][t].status = "completed"
         /\ view[m][t].status = "completed" /\ view[m][t].version > 0
              => snap'.status[t] = "completed"
         /\ snap'.marked = prev[m].marked
  BY DEF Save, StatusSeen, MonitorTypeOK, TaskFile

\* A call's write of the snapshot adds its marker to what it has read.
LEMMA WrittenStatus ==
  ASSUME MonitorTypeOK, NEW p \in Proc, WriteSnapshot(p)
  PROVE  /\ snap'.status = memo[p].status
         /\ snap'.marked = memo[p].marked \cup {req[p].task}
         /\ pc[p] = "recording" /\ pc'[p] = "idle"
  BY DEF WriteSnapshot, Return, MonitorTypeOK, TypeOK, Snapshot

LEMMA CompletedStep ==
  ASSUME MonitorTypeOK, FilesInv, CompletedForGood, [MonitorNext]_monitorVars
  PROVE  CompletedForGood'
<1> SUFFICES ASSUME NEW t \in TaskId
             PROVE  (/\ snap.status[t] = "completed" => tasks[t].status = "completed"
                     /\ \A p \in Proc :
                          memo[p].status[t] = "completed" => tasks[t].status = "completed"
                     /\ \A m \in Poller :
                          /\ prev[m].status[t] = "completed" => tasks[t].status = "completed"
                          /\ view[m][t].status = "completed" =>
                               view[m][t].version > 0 /\ tasks[t].status = "completed"
                          /\ poll[m] # "off" /\ prev[m].status[t] = "completed" =>
                               \/ view[m][t].status = "completed"
                               \/ poll[m] = "listing" /\ t \in todo[m])'
  BY DEF CompletedForGood
<1> DEFINE Done == tasks[t].status = "completed"
<1>1. Done => Done'
  BY CompletedStays
<1>2. /\ snap.status[t] = "completed" => Done
      /\ \A p \in Proc : memo[p].status[t] = "completed" => Done
      /\ \A m \in Poller :
           /\ prev[m].status[t] = "completed" => Done
           /\ view[m][t].status = "completed" => view[m][t].version > 0 /\ Done
           /\ poll[m] # "off" /\ prev[m].status[t] = "completed" =>
                view[m][t].status = "completed" \/ (poll[m] = "listing" /\ t \in todo[m])
  BY DEF CompletedForGood
<1>3. NoSnapshot.status[t] # "completed" /\ NoFile.status # "completed"
  BY DEF NoSnapshot, NoFile
<1>4. Done => tasks[t].version > 0
  BY CompletedPresent
<1>5. /\ \/ snap' = snap
         \/ \E p \in Proc : WriteSnapshot(p)
         \/ \E m \in Poller : Save(m)
      /\ \A q \in Proc : memo'[q] \in {memo[q], snap, NoSnapshot}
  BY WrittenByWhom DEF monitorVars, taskVars
<1>6. snap'.status[t] = "completed" => Done
  BY <1>2, <1>5, SavedStatus, WrittenStatus
<1>7. \A p \in Proc : memo'[p].status[t] = "completed" => Done
  BY <1>2, <1>3, <1>5
<1>8. ASSUME NEW m \in Poller
      PROVE  /\ prev'[m].status[t] = "completed" => Done
             /\ view'[m][t].status = "completed" => view'[m][t].version > 0 /\ Done
             /\ poll'[m] # "off" /\ prev'[m].status[t] = "completed" =>
                  view'[m][t].status = "completed" \/ (poll'[m] = "listing" /\ t \in todo'[m])
  <2>1. CASE Stays(m) \/ MovesOn(m) \/ HasListed(m) \/ StartsEmitting(m)
    BY <1>2, <2>1 DEF Stays, MovesOn, HasListed, StartsEmitting
  <2>2. CASE Begins(m)
    BY <1>2, <2>2 DEF Begins
  <2>3. CASE IsOver(m)
    BY <1>3, <2>3 DEF IsOver
  <2>4. ASSUME NEW u \in TaskId, Lists(m, u)
        PROVE  /\ prev'[m].status[t] = "completed" => Done
               /\ view'[m][t].status = "completed" => view'[m][t].version > 0 /\ Done
               /\ poll'[m] # "off" /\ prev'[m].status[t] = "completed" =>
                    view'[m][t].status = "completed" \/ (poll'[m] = "listing" /\ t \in todo'[m])
    <3>1. view[m] \in [TaskId -> TaskFile]
      BY DEF MonitorTypeOK
    <3>2. CASE u = t
      BY <1>2, <1>4, <2>4, <3>1, <3>2 DEF Lists
    <3>3. CASE u # t
      BY <1>2, <2>4, <3>1, <3>3 DEF Lists
    <3>4. QED
      BY <3>2, <3>3
  <2>5. ASSUME NEW u \in TaskId, Emits(m, u)
        PROVE  UNCHANGED <<prev[m], view[m]>> /\ poll[m] = "emitting" /\ poll'[m] = "emitting"
    BY <2>5 DEF Emits, Emit
  <2>6. QED
    BY <1>2, <2>1, <2>2, <2>3, <2>4, <2>5, PollParts DEF PollPart
<1> HIDE DEF Done
<1>9. QED
  BY <1>1, <1>6, <1>7, <1>8 DEF Done

\* An event that is out stays in the log.
LEMMA EventsGrow ==
  ASSUME MonitorTypeOK, FilesInv, [MonitorNext]_monitorVars, NEW t \in TaskId,
         events[t]["completed"] # 0
  PROVE  events'[t]["completed"] # 0
<1>1. events \in [TaskId -> [Terminal -> Nat]] /\ "completed" \in Terminal
  BY DEF MonitorTypeOK, TypeOK, Terminal
<1>2. ASSUME NEW p \in Proc, Announce(p) PROVE events'[t]["completed"] # 0
  <2>1. req[p].task \in TaskId /\ req[p].outcome \in Terminal
    BY DEF MonitorTypeOK, TypeOK, Request
  <2>2. QED
    BY <1>1, <1>2, <2>1 DEF Announce
<1>3. ASSUME NEW m \in Poller, Emit(m, t) PROVE events'[t]["completed"] # 0
  BY <1>3, EmitCounts
<1>4. QED
  BY <1>2, <1>3, AnnouncedByWhom DEF monitorVars, taskVars

LEMMA EmitsStep ==
  ASSUME MonitorTypeOK, FilesInv, EmitsUnannounced, [MonitorNext]_monitorVars
  PROVE  EmitsUnannounced'
<1> SUFFICES ASSUME NEW m \in Poller, NEW t \in TaskId, poll'[m] = "emitting"
             PROVE  (/\ t \in todo[m] => t \in Unannounced(prev[m], view[m])
                     /\ t \in Unannounced(prev[m], view[m])
                          => t \in todo[m] \/ events[t]["completed"] # 0)'
  BY DEF EmitsUnannounced
<1> DEFINE Found(b, f) == t \in Unannounced(b, f)
<1>1. (t \in Unannounced(prev[m], view[m]))' <=> Found(prev'[m], view'[m])
  BY DEF Unannounced
<1>2. poll[m] = "emitting" =>
        /\ t \in todo[m] => Found(prev[m], view[m])
        /\ Found(prev[m], view[m]) => t \in todo[m] \/ events[t]["completed"] # 0
  BY DEF EmitsUnannounced
<1>3. events[t]["completed"] # 0 => events'[t]["completed"] # 0
  BY EventsGrow
<1>4. ASSUME NEW u \in TaskId, Emits(m, u)
      PROVE  /\ prev'[m] = prev[m] /\ view'[m] = view[m] /\ poll[m] = "emitting"
             /\ todo'[m] = todo[m] \ {u}
             /\ u = t => events'[t]["completed"] # 0
  BY <1>4, EmitCounts DEF Emits, Emit
<1> HIDE DEF Found
<1>5. /\ t \in todo'[m] => Found(prev'[m], view'[m])
      /\ Found(prev'[m], view'[m]) => t \in todo'[m] \/ events'[t]["completed"] # 0
  <2>1. CASE Stays(m)
    BY <1>2, <1>3, <2>1 DEF Stays
  <2>2. CASE StartsEmitting(m)
    BY <2>2 DEF StartsEmitting, Found
  <2>3. ASSUME NEW u \in TaskId, Emits(m, u)
        PROVE  /\ t \in todo'[m] => Found(prev'[m], view'[m])
               /\ Found(prev'[m], view'[m]) => t \in todo'[m] \/ events'[t]["completed"] # 0
    BY <1>2, <1>3, <1>4, <2>3
  <2>4. ~MovesOn(m) /\ ~Begins(m) /\ ~HasListed(m) /\ ~IsOver(m) /\ \A u \in TaskId : ~Lists(m, u)
    BY DEF MovesOn, Begins, HasListed, IsOver, Lists
  <2>5. QED
    BY <2>1, <2>2, <2>3, <2>4, PollParts DEF PollPart
<1>6. QED
  BY <1>1, <1>5

LEMMA PollInit == MonitorInit => PollInv
<1> SUFFICES ASSUME MonitorInit PROVE PollInv
  OBVIOUS
<1>1. MonitorTypeOK /\ FilesInv
  BY MonitorTypeInit, FilesInit DEF MonitorInit
<1>2. /\ \A m \in Poller : req[m].op = "update" /\ poll[m] = "off"
      /\ \A t \in TaskId : /\ snap.status[t] = "unseen"
                           /\ \A p \in Proc : memo[p].status[t] = "unseen"
                           /\ \A m \in Poller : prev[m].status[t] = "unseen"
                           /\ \A m \in Poller : view[m][t].status = "pending"
  BY PollerAssumption DEF MonitorInit, Init, NoRequest, NoFile, NoSnapshot
<1>3. PollersFinishNothing /\ CompletedForGood /\ EmitsUnannounced
  BY <1>2 DEF PollersFinishNothing, CompletedForGood, EmitsUnannounced
<1>4. QED
  BY <1>1, <1>3 DEF PollInv

LEMMA PollInvStep ==
  ASSUME LiveLocksBroken = FALSE, PollInv, [MonitorNext]_monitorVars
  PROVE  PollInv'
  BY MonitorTypeStep, MonitorFilesStep, FinishStep, CompletedStep, EmitsStep DEF PollInv

\* However polls and calls overlap and die, snapshots and listings show only completions that
\* are there to stay, and a poll announces what it found unannounced.
THEOREM PollsCorrect ==
  ASSUME LiveLocksBroken = FALSE
  PROVE  MonitorSpec => []PollInv
<1>1. MonitorInit => PollInv
  BY PollInit
<1>2. PollInv /\ [MonitorNext]_monitorVars => PollInv'
  BY PollInvStep
<1>3. QED
  BY <1>1, <1>2, PTL DEF MonitorSpec

\* A poll that began with a snapshot of an open task and lists it completed, without a marker,
\* has the event out before it saves.
THEOREM FoundMeansAnnounced ==
  ASSUME LiveLocksBroken = FALSE
  PROVE  MonitorSpec => []SeenMeansAnnounced
<1>1. PollInv => SeenMeansAnnounced
  <2> SUFFICES ASSUME PollInv, NEW m \in Poller, NEW t \in TaskId,
                      poll[m] = "emitting", todo[m] = {},
                      prev[m].status[t] \notin {"unseen", "completed"}, t \notin prev[m].marked,
                      view[m][t].status = "completed"
               PROVE  events[t]["completed"] >= 1
    BY DEF SeenMeansAnnounced
  <2>1. t \in Unannounced(prev[m], view[m])
    BY DEF Unannounced
  <2>2. events[t]["completed"] # 0
    BY <2>1 DEF PollInv, EmitsUnannounced
  <2>3. events[t]["completed"] \in Nat
    BY DEF PollInv, MonitorTypeOK, TypeOK, Terminal
  <2>4. QED
    BY <2>2, <2>3
<1>2. QED
  BY <1>1, PollsCorrect, PTL

\* What the snapshot says of a completion is dropped only by a poll or a call that began before
\* it said so.
THEOREM CompletionsKept ==
  ASSUME LiveLocksBroken = FALSE
  PROVE  MonitorSpec => SnapshotKeepsCompletions
<1> DEFINE Kept ==
      \A t \in TaskId :
        /\ t \in snap.marked \ snap'.marked => \E s \in WrittenFrom : t \notin s.marked
        /\ snap.status[t] = "completed" /\ snap'.status[t] # "completed" =>
             \E s \in WrittenFrom : s.status[t] # "completed"
<1>1. PollInv /\ [MonitorNext]_monitorVars => [Kept]_monitorVars
  <2> SUFFICES ASSUME PollInv, MonitorNext PROVE Kept
    OBVIOUS
  <2>1. ASSUME NEW m \in Poller, Save(m) PROVE Kept
    <3>1. prev[m] \in WrittenFrom
      BY <2>1 DEF Save, Ends, WrittenFrom, PollInv, MonitorTypeOK
    <3>2. ASSUME NEW t \in TaskId, prev[m].status[t] = "completed" PROVE snap'.status[t] = "completed"
      <4>1. view[m][t].status = "completed" /\ view[m][t].version > 0
        BY <2>1, <3>2 DEF Save, PollInv, CompletedForGood
      <4>2. QED
        BY <2>1, <4>1, SavedStatus DEF PollInv
    <3>3. \A t \in TaskId : t \in prev[m].marked => t \in snap'.marked
      BY <2>1, SavedStatus DEF PollInv
    <3>4. QED
      BY <3>1, <3>2, <3>3
  <2>2. ASSUME NEW p \in Proc, WriteSnapshot(p) PROVE Kept
    <3>1. /\ snap'.status = memo[p].status /\ memo[p].marked \subseteq snap'.marked
          /\ pc[p] = "recording" /\ pc'[p] = "idle"
      BY <2>2, WrittenStatus DEF PollInv
    <3>2. memo[p] \in WrittenFrom
      BY <3>1 DEF WrittenFrom
    <3>3. QED
      BY <3>1, <3>2
  <2>3. CASE snap' = snap
    BY <2>3
  <2> HIDE DEF Kept
  <2>4. QED
    BY <2>1, <2>2, <2>3, WrittenByWhom DEF PollInv
<1>2. MonitorSpec => [][Kept]_monitorVars
  <2> HIDE DEF Kept
  <2>1. QED
    BY <1>1, PollsCorrect, PTL DEF MonitorSpec
<1>3. QED
  BY <1>2 DEF SnapshotKeepsCompletions

----------------------------------------------------------------------------
(* How often a completion is announced. *)

\* Pollers are between event and record by their polls alone.
LEMMA PollersAnnounce ==
  ASSUME PollersFinishNothing, NEW m \in Poller, NEW t \in TaskId
  PROVE  Announcing(m, t) <=> poll[m] = "emitting" /\ t \in Unannounced(prev[m], view[m])
  BY DEF Announcing, Unrecorded, Completing, PollersFinishNothing

\* A poll that is off while an event goes out stays off.
LEMMA StaysOff ==
  ASSUME MonitorTypeOK, MonitorNext, NEW m \in Poller, poll[m] = "off", events' # events
  PROVE  poll'[m] = "off"
  BY PollParts DEF PollPart, Stays, MovesOn, Begins, HasListed, StartsEmitting, IsOver, Lists, Emits, Emit

\* What the event's announcer, a call or a poll, leaves of an unclashed task.
LEMMA FirstByCall ==
  ASSUME PollInv, MonitorNext, NEW t \in TaskId, AccountedFor(t),
         NEW p \in Proc, Announce(p), Completing(req[p]), req[p].task = t
  PROVE  /\ events'[t]["completed"] = 1
         /\ tasks[t].status = "completed"
         /\ Announcing(p, t)'
         /\ \A m \in Poller : poll'[m] = "off"
         /\ \A q \in Proc : ~(pc'[q] = "announcing" /\ Completing(req'[q]) /\ req'[q].task = t)
<1>1. /\ TypeOK /\ MonitorTypeOK /\ FilesInv /\ UNCHANGED <<req, lock>>
      /\ pc[p] = "announcing" /\ req[p].outcome = "completed"
      /\ pc' = [pc EXCEPT ![p] = "releasing"]
      /\ events' = [events EXCEPT ![t]["completed"] = @ + 1]
  BY DEF Announce, PollInv, MonitorTypeOK, Completing
<1>2. events[t]["completed"] = 0
  BY <1>1 DEF AccountedFor
<1>3. events'[t]["completed"] = 1
  BY <1>1, <1>2 DEF TypeOK, Terminal
<1>4. tasks[t].status = "completed"
  BY <1>1 DEF FilesInv, InTurn
<1>5. pc'[p] = "releasing" /\ \A q \in Proc \ {p} : pc'[q] = pc[q]
  BY <1>1 DEF TypeOK
<1>6. Announcing(p, t) /\ Announcing(p, t)'
  BY <1>1, <1>5 DEF Announcing, Unrecorded, Completing
<1>7. p \notin Poller
  BY DEF PollInv, PollersFinishNothing, Completing
<1>8. \A m \in Poller : poll[m] = "off"
  BY <1>6, <1>7 DEF AccountedFor, Meets
<1>9. \A m \in Poller : poll'[m] = "off"
  BY <1>1, <1>2, <1>3, <1>8, StaysOff
<1>10. \A q \in Proc \ {p} : pc[q] = "announcing" => req[q].task # t
  BY <1>1, Exclusive
<1>11. QED
  BY <1>1, <1>3, <1>4, <1>5, <1>6, <1>9, <1>10

LEMMA FirstByPoll ==
  ASSUME PollInv, MonitorNext, NEW t \in TaskId, AccountedFor(t), NEW m \in Poller, Emit(m, t)
  PROVE  /\ events'[t]["completed"] = 1
         /\ tasks[t].status = "completed"
         /\ Announcing(m, t)' /\ t \notin todo'[m]
         /\ \A n \in Poller \ {m} : poll'[n] = "off"
         /\ \A q \in Proc : ~(pc'[q] = "announcing" /\ Completing(req'[q]) /\ req'[q].task = t)
<1>1. /\ MonitorTypeOK /\ PollersFinishNothing
      /\ poll[m] = "emitting" /\ t \in todo[m] /\ todo' = [todo EXCEPT ![m] = @ \ {t}]
      /\ UNCHANGED <<pc, req, poll, prev, view>>
  BY DEF Emit, PollInv
<1>2. events[t]["completed"] = 0
  BY <1>1 DEF AccountedFor
<1>3. events'[t]["completed"] = 1
  BY <1>1, <1>2, EmitCounts
<1>4. t \in Unannounced(prev[m], view[m])
  BY <1>1 DEF PollInv, EmitsUnannounced
<1>5. tasks[t].status = "completed"
  BY <1>4 DEF Unannounced, PollInv, CompletedForGood
<1>6. Announcing(m, t) /\ Announcing(m, t)'
  BY <1>1, <1>4 DEF Announcing, Unannounced
<1>7. m \in Proc
  BY PollerAssumption
<1>8. \A n \in Poller \ {m} : poll[n] = "off"
  BY <1>6, <1>7 DEF AccountedFor, Meets
<1>9. \A n \in Poller \ {m} : poll'[n] = "off"
  BY <1>1, <1>8
<1>10. ASSUME NEW q \in Proc, pc'[q] = "announcing", Completing(req'[q]), req'[q].task = t PROVE FALSE
  <2>1. Announcing(q, t)
    BY <1>1, <1>10 DEF Announcing, Unrecorded, Completing
  <2>2. q # m
    BY <1>1, <1>10 DEF PollersFinishNothing, Completing
  <2>3. QED
    BY <1>1, <2>1, <2>2 DEF AccountedFor, Meets
<1>11. t \notin todo'[m]
  BY <1>1 DEF MonitorTypeOK
<1>12. QED
  BY <1>3, <1>5, <1>6, <1>9, <1>10, <1>11

\* What is announced once and accounted for stays so, in a step without a clash.
LEMMA StaysAccounted ==
  ASSUME PollInv, PollInv', MonitorNext, NEW t \in TaskId, AccountedFor(t),
         ~Meets(t)', ~Lost(t), ~Left(t), events[t]["completed"] # 0
  PROVE  AccountedFor(t)'
<1>1. /\ MonitorTypeOK /\ FilesInv /\ PollersFinishNothing /\ PollersFinishNothing'
      /\ [MonitorNext]_monitorVars
  BY DEF PollInv
<1>2. /\ events[t]["completed"] = 1 /\ tasks[t].status = "completed"
      /\ OnRecord(snap, t) \/ \E x \in Proc : Announcing(x, t)
      /\ \A m \in Poller : poll[m] # "off" => OnRecord(prev[m], t) \/ Announcing(m, t)
      /\ \A m \in Poller : poll[m] = "emitting" => t \notin todo[m]
      /\ \A p \in Proc : pc[p] = "announcing" /\ Completing(req[p]) => req[p].task # t
  BY DEF AccountedFor
<1>3. events'[t]["completed"] = 1
  <2>1. \A p \in Proc : ~(Announce(p) /\ Completing(req[p]) /\ req[p].task = t)
    BY <1>2 DEF Announce
  <2>2. \A m \in Poller : ~Emit(m, t)
    BY <1>2 DEF Emit
  <2>3. QED
    BY <1>1, <1>2, <2>1, <2>2, AnnouncedByWhom
<1>4. tasks'[t].status = "completed"
  BY <1>1, <1>2, CompletedStays
<1>5. OnRecord(snap, t)' \/ \E x \in Proc : Announcing(x, t)'
  BY <1>2 DEF Lost, Left
<1>6. ASSUME NEW m \in Poller, poll'[m] # "off"
      PROVE  OnRecord(prev'[m], t) \/ Announcing(m, t)'
  <2>1. CASE Begins(m)
    <3>1. OnRecord(snap, t)' => OnRecord(prev'[m], t)
      BY <2>1 DEF Begins, OnRecord
    <3>2. \A x \in Proc : Announcing(x, t)' => x = m
      BY <1>6 DEF Meets
    <3>3. QED
      BY <1>5, <3>1, <3>2
  <2>2. ASSUME poll[m] # "off", prev'[m] = prev[m],
               poll[m] = "emitting" => poll'[m] = "emitting" /\ view'[m] = view[m]
        PROVE  OnRecord(prev'[m], t) \/ Announcing(m, t)'
    <3>1. CASE OnRecord(prev[m], t)
      BY <2>2, <3>1
    <3>2. CASE Announcing(m, t)
      <4>1. poll[m] = "emitting" /\ t \in Unannounced(prev[m], view[m])
        BY <1>1, <3>2, PollersAnnounce
      <4>2. QED
        BY <2>2, <4>1 DEF Announcing, Unannounced
    <3>3. QED
      BY <1>2, <2>2, <3>1, <3>2
  <2>3. \/ Begins(m)
        \/ /\ poll[m] # "off" /\ prev'[m] = prev[m]
           /\ poll[m] = "emitting" => poll'[m] = "emitting" /\ view'[m] = view[m]
    BY <1>1, <1>6, PollParts
       DEF PollPart, Stays, MovesOn, HasListed, StartsEmitting, IsOver, Lists, Emits, Emit
  <2>4. QED
    BY <2>1, <2>2, <2>3
<1>7. ASSUME NEW m \in Poller, poll'[m] = "emitting" PROVE t \notin todo'[m]
  <2>1. CASE StartsEmitting(m)
    <3>1. OnRecord(prev[m], t)
      BY <1>1, <1>2, <2>1, PollersAnnounce DEF StartsEmitting
    <3>2. QED
      BY <2>1, <3>1 DEF StartsEmitting, Unannounced, OnRecord
  <2>2. StartsEmitting(m) \/ (poll[m] = "emitting" /\ todo'[m] \subseteq todo[m])
    BY <1>1, <1>7, PollParts
       DEF PollPart, Stays, MovesOn, Begins, HasListed, IsOver, Lists, Emits, Emit
  <2>3. QED
    BY <1>2, <2>1, <2>2
<1>8. ASSUME NEW p \in Proc, pc'[p] = "announcing", Completing(req'[p]) PROVE req'[p].task # t
  BY <1>1, <1>2, <1>8, AnnouncedByWhom
<1>9. QED
  BY <1>3, <1>4, <1>5, <1>6, <1>7, <1>8 DEF AccountedFor, Completing

LEMMA AccountedStep ==
  ASSUME PollInv, PollInv', MonitorNext, NEW t \in TaskId, AccountedFor(t),
         ~Meets(t)', ~Lost(t), ~Left(t)
  PROVE  AccountedFor(t)'
<1>1. /\ MonitorTypeOK /\ FilesInv /\ [MonitorNext]_monitorVars
      /\ "completed" \in Terminal
  BY DEF PollInv, Terminal
<1>2. CASE events[t]["completed"] # 0
  BY <1>2, StaysAccounted
<1>3. CASE events'[t]["completed"] = 0
  BY <1>3 DEF AccountedFor
<1>4. ASSUME NEW p \in Proc, Announce(p), Completing(req[p]), req[p].task = t
      PROVE  AccountedFor(t)'
  <2>1. /\ events'[t]["completed"] = 1 /\ tasks[t].status = "completed" /\ Announcing(p, t)'
        /\ \A m \in Poller : poll'[m] = "off"
        /\ \A q \in Proc : ~(pc'[q] = "announcing" /\ Completing(req'[q]) /\ req'[q].task = t)
    BY <1>4, FirstByCall
  <2>2. tasks'[t].status = "completed"
    BY <1>1, <2>1, CompletedStays
  <2>3. QED
    BY <2>1, <2>2 DEF AccountedFor, Completing
<1>5. ASSUME NEW m \in Poller, Emit(m, t) PROVE AccountedFor(t)'
  <2>1. /\ events'[t]["completed"] = 1 /\ tasks[t].status = "completed"
        /\ Announcing(m, t)' /\ t \notin todo'[m]
        /\ \A n \in Poller \ {m} : poll'[n] = "off"
        /\ \A q \in Proc : ~(pc'[q] = "announcing" /\ Completing(req'[q]) /\ req'[q].task = t)
    BY <1>5, FirstByPoll
  <2>2. tasks'[t].status = "completed"
    BY <1>1, <2>1, CompletedStays
  <2>3. \A n \in Poller : poll'[n] # "off" => n = m
    BY <2>1
  <2>4. m \in Proc
    BY PollerAssumption
  <2>5. QED
    BY <2>1, <2>2, <2>3, <2>4 DEF AccountedFor, Completing
<1>6. QED
  BY <1>1, <1>2, <1>3, <1>4, <1>5, AnnouncedByWhom

LEMMA MarkerStep ==
  ASSUME LiveLocksBroken = FALSE, MarkerInv, [HistoryNext]_historyVars
  PROVE  MarkerInv'
<1>1. PollInv /\ clashed \subseteq TaskId /\ [MonitorNext]_monitorVars
  BY DEF MarkerInv, HistoryNext, historyVars
<1>2. PollInv'
  BY <1>1, PollInvStep
<1>3. CASE HistoryNext
  <2>1. clashed' = clashed \cup {t \in TaskId : Meets(t)' \/ Lost(t) \/ Left(t)} /\ MonitorNext
    BY <1>3 DEF HistoryNext
  <2>2. ASSUME NEW t \in TaskId, t \notin clashed' PROVE AccountedFor(t)'
    <3>1. AccountedFor(t) /\ ~Meets(t)' /\ ~Lost(t) /\ ~Left(t)
      BY <2>1, <2>2 DEF MarkerInv
    <3>2. QED
      BY <1>1, <1>2, <2>1, <3>1, AccountedStep
  <2>3. QED
    BY <1>1, <1>2, <2>1, <2>2 DEF MarkerInv
<1>4. CASE UNCHANGED historyVars
  <2>1. UNCHANGED <<tasks, events, snap, pc, req, poll, prev, view, todo, clashed>>
    BY <1>4 DEF historyVars, monitorVars, taskVars, pollVars
  <2>2. \A t \in TaskId : \A x : Announcing(x, t)' <=> Announcing(x, t)
    BY <2>1 DEF Announcing, Unrecorded, Completing, Unannounced
  <2>3. \A t \in TaskId : Meets(t)' <=> Meets(t)
    BY <2>1, <2>2 DEF Meets
  <2>4. \A t \in TaskId : AccountedFor(t) => AccountedFor(t)'
    BY <2>1, <2>2, <2>3 DEF AccountedFor, OnRecord, Completing
  <2>5. QED
    BY <1>1, <1>2, <2>1, <2>4 DEF MarkerInv
<1>5. QED
  BY <1>3, <1>4

LEMMA MarkerInit == HistoryInit => MarkerInv
<1> SUFFICES ASSUME HistoryInit PROVE MarkerInv
  OBVIOUS
<1>1. PollInv /\ clashed = {}
  BY PollInit DEF HistoryInit
<1>2. /\ \A m \in Poller : poll[m] = "off"
      /\ \A t \in TaskId : events[t]["completed"] = 0
  BY DEF HistoryInit, MonitorInit, Init, Terminal
<1>3. \A t \in TaskId : AccountedFor(t)
  BY <1>2 DEF AccountedFor, Meets
<1>4. QED
  BY <1>1, <1>3 DEF MarkerInv

\* As long as nobody else is under way between a task's event and its record, dies there or
\* overwrites the record, an event that is out is known to everybody who might announce it again.
THEOREM MarkersCorrect ==
  ASSUME LiveLocksBroken = FALSE
  PROVE  HistorySpec => []MarkerInv
<1>1. HistoryInit => MarkerInv
  BY MarkerInit
<1>2. MarkerInv /\ [HistoryNext]_historyVars => MarkerInv'
  BY MarkerStep
<1>3. QED
  BY <1>1, <1>2, PTL DEF HistorySpec

\* How far the completion markers go: no task is announced twice to which none of the three has
\* happened, for any number of calls and polls.
THEOREM TwiceOnlyAfterClash ==
  ASSUME LiveLocksBroken = FALSE
  PROVE  HistorySpec => []OnceUnlessClashed
<1>1. MarkerInv => OnceUnlessClashed
  <2> SUFFICES ASSUME MarkerInv, NEW t \in TaskId \ clashed PROVE events[t]["completed"] <= 1
    BY DEF OnceUnlessClashed
  <2>1. events[t]["completed"] = 0 \/ events[t]["completed"] = 1
    BY DEF MarkerInv, AccountedFor
  <2>2. QED
    BY <2>1
<1>2. QED
  BY <1>1, MarkersCorrect, PTL
=============================================================================
