---------------------------- MODULE TeamScaling ----------------------------
(***************************************************************************)
(* The roster of a running team and its two counters, in one manifest that *)
(* scaleUp, scaleDown and createTask read and write as a whole: the first  *)
(* two under the scaling lock, createTask under the team lock.  scaleUp    *)
(* calls createTask itself, opens a tmux pane per new worker, tells the    *)
(* worker to start (what may come of that is TeamDispatch) and saves the   *)
(* manifest after each; when anything fails it takes everything back.      *)
(***************************************************************************)
EXTENDS Naturals, FiniteSetsExt

CONSTANTS
  Scaler,      \* processes that scale the team
  Creator,     \* other processes that create tasks
  MaxWorkers,  \* DEFAULT_MAX_WORKERS (20)
  MaxTask,     \* bound: task ids
  MaxPanes,    \* bound: panes ever opened
  MaxSetbacks   \* bound: processes that stop half-way, scaling locks their live holder keeps too long

ASSUME ScalingProcessAssumption ==
  /\ Scaler \cap Creator = {}
  /\ (Scaler \cup Creator) \cap {"free", "orphan"} = {}
ASSUME ScalingBoundsAssumption ==
  MaxWorkers \in Nat /\ MaxTask \in Nat /\ MaxPanes \in Nat \ {0} /\ MaxSetbacks \in Nat

VARIABLES
  manifest,  \* manifest.v2.json: workers, next_worker_index, next_task_id
  tasks,     \* tasks[t]: how many creations task-<t>.json is the file of
  panes,     \* panes that live, each with the worker started in it
  opened,    \* panes opened so far
  locked,    \* locked.scaling and locked.team: who made the lock directories
  step,      \* step[p]: where process p is
  creating,  \* creating[p]: where it is in createTask
  read,      \* read[p]: the manifest createTask has read
  mine,      \* mine[s]: the manifest scaler s works on
  job,       \* job[s]: its workers to add, the first one's index, those added, tasks made, workers to remove
  raced,     \* has a scaler saved while somebody was creating a task?
  setbacks

scalingVars == <<manifest, tasks, panes, opened, locked, step, creating, read, mine, job, raced, setbacks>>

TaskId == 1..MaxTask
PaneId == 1..MaxPanes
Index == 1..(MaxPanes + 1)
ScalingProc == Scaler \cup Creator

\* A worker's entry: its index, which is its name, and its pane.
Entries == [index: Index, pane: PaneId]
Manifests == [workers: SUBSET Entries, nextIndex: Index, nextTask: 1..(MaxTask + 1)]
First == [index |-> 1, pane |-> 1]
NewTeam == [workers |-> {First}, nextIndex |-> 2, nextTask |-> 1]

Jobs == [adding: Nat, first: Index, added: SUBSET Entries, made: SUBSET TaskId, removing: SUBSET Entries]
NoJob == [adding |-> 0, first |-> 1, added |-> {}, made |-> {}, removing |-> {}]

ScalingSteps == {"off", "opening", "telling", "undoing", "restoring", "killing", "dropping"}

ScalingInit ==
  /\ manifest = NewTeam
  /\ tasks = [t \in TaskId |-> 0]
  /\ panes = {First}
  /\ opened = 1
  /\ locked = [scaling |-> "free", team |-> "free"]
  /\ step = [s \in Scaler |-> "off"]
  /\ creating = [p \in ScalingProc |-> "off"]
  /\ read = [p \in ScalingProc |-> NewTeam]
  /\ mine = [s \in Scaler |-> NewTeam]
  /\ job = [s \in Scaler |-> NoJob]
  /\ raced = FALSE
  /\ setbacks = 0

----------------------------------------------------------------------------
(* createTask; scaleUp calls it before it opens the first pane. *)

\* Seeded fault: the counter is believed.
NextTaskFromCounter(m) == m.nextTask

\* computeNextTaskIdFromDisk, unless the counter is ahead.
NextTask(m) == Max({m.nextTask} \cup {t + 1 : t \in {u \in TaskId : tasks[u] # 0}})

CreateReads(p) ==
  /\ p \in Scaler => step[p] = "opening" /\ job[p].added = {}
  /\ creating[p] = "off" /\ locked.team = "free"
  /\ NextTask(manifest) \in TaskId
  /\ locked' = [locked EXCEPT !.team = p]
  /\ creating' = [creating EXCEPT ![p] = "writing"]
  /\ read' = [read EXCEPT ![p] = [manifest EXCEPT !.nextTask = NextTask(manifest)]]
  /\ UNCHANGED <<manifest, tasks, panes, opened, step, mine, job, raced, setbacks>>

CreateWrites(p) ==
  LET t == read[p].nextTask
  IN /\ creating[p] = "writing"
     /\ tasks' = [tasks EXCEPT ![t] = @ + 1]
     /\ creating' = [creating EXCEPT ![p] = "saving"]
     /\ job' = IF p \in Scaler THEN [job EXCEPT ![p].made = @ \cup {t}] ELSE job
     /\ UNCHANGED <<manifest, panes, opened, locked, step, read, mine, raced, setbacks>>

\* The manifest goes back as it was read, but for the counter.
CreateSaves(p) ==
  /\ creating[p] = "saving"
  /\ manifest' = [read[p] EXCEPT !.nextTask = @ + 1]
  /\ read' = [read EXCEPT ![p] = NewTeam]
  /\ creating' = [creating EXCEPT ![p] = "off"]
  /\ locked' = [locked EXCEPT !.team = "free"]
  /\ UNCHANGED <<tasks, panes, opened, step, mine, job, raced, setbacks>>

----------------------------------------------------------------------------
(* scaleUp. *)

ScalerGoesOn(s, next) == step' = [step EXCEPT ![s] = next]

\* saveTeamConfig of a scaler, which knows nothing of the team lock.
Save(m) ==
  /\ manifest' = m
  /\ raced' = (raced \/ \E p \in ScalingProc : creating[p] # "off")

\* Seeded fault: the scaling lock is not asked for.
EnterUnlocked(s) == UNCHANGED locked

EnterScaling(s) ==
  /\ locked.scaling = "free"
  /\ locked' = [locked EXCEPT !.scaling = s]

LeaveScaling(s) ==
  /\ locked' = [locked EXCEPT !.scaling = IF @ = s THEN "free" ELSE @]
  /\ mine' = [mine EXCEPT ![s] = NewTeam]
  /\ job' = [job EXCEPT ![s] = NoJob]
  /\ ScalerGoesOn(s, "off")

\* Refused when there would be too many workers.
UpReads(s, count) ==
  /\ step[s] = "off" /\ EnterScaling(s)
  /\ Cardinality(manifest.workers) + count <= MaxWorkers
  /\ mine' = [mine EXCEPT ![s] = manifest]
  /\ job' = [job EXCEPT ![s].adding = count, ![s].first = manifest.nextIndex]
  /\ ScalerGoesOn(s, "opening")
  /\ UNCHANGED <<manifest, tasks, panes, opened, creating, read, raced, setbacks>>

\* The next worker has the next index, whether it has been saved or not.
Newcomer(s) == [index |-> mine[s].nextIndex, pane |-> opened + 1]

UpOpens(s) ==
  /\ step[s] = "opening" /\ creating[s] = "off" /\ opened < MaxPanes
  /\ opened' = opened + 1
  /\ panes' = panes \cup {Newcomer(s)}
  /\ job' = [job EXCEPT ![s].added = @ \cup {Newcomer(s)}]
  /\ mine' = [mine EXCEPT ![s].nextIndex = @ + 1]
  /\ ScalerGoesOn(s, "telling")
  /\ UNCHANGED <<manifest, tasks, locked, creating, read, raced, setbacks>>

\* split-window fails, or the worker cannot be told.
UpFails(s) ==
  /\ step[s] \in {"opening", "telling"} /\ creating[s] = "off"
  /\ ScalerGoesOn(s, "undoing")
  /\ UNCHANGED <<manifest, tasks, panes, opened, locked, creating, read, mine, job, raced, setbacks>>

\* The worker has been told.
UpSaves(s) ==
  LET now == [mine[s] EXCEPT !.workers = @ \cup job[s].added]
  IN /\ step[s] = "telling"
     /\ Save(now)
     /\ IF job[s].adding = 1
        THEN LeaveScaling(s)
        ELSE /\ mine' = [mine EXCEPT ![s] = now]
             /\ job' = [job EXCEPT ![s].adding = @ - 1]
             /\ ScalerGoesOn(s, "opening")
             /\ UNCHANGED locked
     /\ UNCHANGED <<tasks, panes, opened, creating, read, setbacks>>

\* rollbackScaleUp: the panes are killed, then the files of the tasks removed, one by one...
UpUndoes(s) ==
  LET left == job[s].added \cap panes
  IN /\ step[s] = "undoing"
     /\ \/ \E w \in left :
             /\ \A v \in left : w.pane <= v.pane
             /\ panes' = panes \ {w}
             /\ UNCHANGED <<tasks, job, step>>
        \/ \E t \in job[s].made :
             /\ left = {} /\ \A u \in job[s].made : t <= u
             /\ tasks' = [tasks EXCEPT ![t] = 0]
             /\ job' = [job EXCEPT ![s].made = @ \ {t}]
             /\ UNCHANGED <<panes, step>>
        \/ /\ left = {} /\ job[s].made = {}
           /\ ScalerGoesOn(s, "restoring")
           /\ UNCHANGED <<tasks, panes, job>>
     /\ UNCHANGED <<manifest, opened, locked, creating, read, mine, raced, setbacks>>

\* Seeded fault: the counter goes back too far.
WithoutOneMore(s) == [mine[s] EXCEPT !.workers = @ \ job[s].added, !.nextIndex = job[s].first - 1]

\* Seeded fault: the counter goes back, those already saved stay in the roster.
WithoutCounter(s) == [mine[s] EXCEPT !.nextIndex = job[s].first]

\* ... then the roster and the index counter are as they were read, and so is the task counter.
Without(s) == [mine[s] EXCEPT !.workers = @ \ job[s].added, !.nextIndex = job[s].first]

UpRestores(s) ==
  /\ step[s] = "restoring"
  /\ Save(Without(s))
  /\ LeaveScaling(s)
  /\ UNCHANGED <<tasks, panes, opened, creating, read, setbacks>>

----------------------------------------------------------------------------
(* scaleDown. *)

\* Seeded fault: all may go.
RemovableAll(m) == (SUBSET m.workers) \ {{}}

\* Some workers, not all.
Removable(m) == (SUBSET m.workers) \ {{}, m.workers}

\* The wait for the workers to drain is over at once: the code takes the status it has just
\* written for their answer.
DownReads(s, targets) ==
  /\ step[s] = "off" /\ EnterScaling(s)
  /\ targets \in Removable(manifest)
  /\ mine' = [mine EXCEPT ![s] = manifest]
  /\ job' = [job EXCEPT ![s].removing = targets]
  /\ ScalerGoesOn(s, "killing")
  /\ UNCHANGED <<manifest, tasks, panes, opened, creating, read, raced, setbacks>>

DownKills(s) ==
  /\ step[s] = "killing"
  /\ panes' = panes \ job[s].removing
  /\ ScalerGoesOn(s, "dropping")
  /\ UNCHANGED <<manifest, tasks, opened, locked, creating, read, mine, job, raced, setbacks>>

DownSaves(s) ==
  /\ step[s] = "dropping"
  /\ Save([mine[s] EXCEPT !.workers = @ \ job[s].removing])
  /\ LeaveScaling(s)
  /\ UNCHANGED <<tasks, panes, opened, creating, read, setbacks>>

----------------------------------------------------------------------------
\* p dies and leaves its locks behind, or gives up where it is and releases them, with nothing
\* taken back: createTask throws, or tmux, or git, or the mark of a request, or scaleDown returns
\* because it cannot clean up the worktrees of the workers whose panes it has killed.
Stops(p, left) ==
  /\ setbacks < MaxSetbacks
  /\ setbacks' = setbacks + 1
  /\ locked' = [l \in {"scaling", "team"} |-> IF locked[l] = p THEN left ELSE locked[l]]
  /\ creating' = [creating EXCEPT ![p] = "off"]
  /\ read' = [read EXCEPT ![p] = NewTeam]
  /\ IF p \in Scaler
     THEN /\ step[p] # "off"
          /\ step' = [step EXCEPT ![p] = "off"]
          /\ mine' = [mine EXCEPT ![p] = NewTeam]
          /\ job' = [job EXCEPT ![p] = NoJob]
     ELSE creating[p] # "off" /\ UNCHANGED <<step, mine, job>>
  /\ UNCHANGED <<manifest, tasks, panes, opened, raced>>

\* LOCK_STALE_MS: nothing renews a lock, and a scaleUp may wait 45 s for every worker.
Outlasts(l) == l = "scaling" /\ locked[l] \in Scaler /\ setbacks < MaxSetbacks

BreakOldLock(l) ==
  /\ \/ locked[l] = "orphan" /\ UNCHANGED setbacks
     \/ Outlasts(l) /\ setbacks' = setbacks + 1
  /\ locked' = [locked EXCEPT ![l] = "free"]
  /\ UNCHANGED <<manifest, tasks, panes, opened, step, creating, read, mine, job, raced>>

ScalingNext ==
  \/ \E p \in ScalingProc : CreateReads(p) \/ CreateWrites(p) \/ CreateSaves(p)
  \/ \E p \in ScalingProc, left \in {"free", "orphan"} : Stops(p, left)
  \/ \E s \in Scaler :
       \/ \E count \in 1..MaxWorkers : UpReads(s, count)
       \/ UpOpens(s) \/ UpFails(s) \/ UpSaves(s)
       \/ UpUndoes(s) \/ UpRestores(s)
       \/ \E targets \in SUBSET manifest.workers : DownReads(s, targets)
       \/ DownKills(s) \/ DownSaves(s)
  \/ \E l \in {"scaling", "team"} : BreakOldLock(l)

ScalingSpec == ScalingInit /\ [][ScalingNext]_scalingVars
----------------------------------------------------------------------------
\* Every variable holds a value of its type.
ScalingTypeOK ==
  /\ manifest \in Manifests
  /\ tasks \in [TaskId -> Nat]
  /\ panes \subseteq Entries /\ opened \in PaneId
  /\ locked \in [{"scaling", "team"} -> ScalingProc \cup {"free", "orphan"}]
  /\ step \in [Scaler -> ScalingSteps]
  /\ creating \in [ScalingProc -> {"off", "writing", "saving"}]
  /\ read \in [ScalingProc -> Manifests]
  /\ mine \in [Scaler -> Manifests]
  /\ job \in [Scaler -> Jobs]
  /\ raced \in BOOLEAN
  /\ setbacks \in 0..MaxSetbacks

\* No two workers of the roster have one name, and the next worker's name is new to it: in spite
\* of deaths, overlaps, roll-backs and saves that undo each other.
NamesDistinct ==
  /\ \A v \in manifest.workers, w \in manifest.workers : v.index = w.index => v = w
  /\ \A w \in manifest.workers : w.index < manifest.nextIndex

\* Between scalings the roster is what runs, with at least one worker: unless a scaler died, or
\* lost its lock, or saved while a task was being created (createTask puts the old roster back).
RosterIsAlive ==
  ~raced /\ setbacks = 0 /\ locked.scaling = "free" => manifest.workers = panes /\ panes # {}

\* No task file is ever written over by the creation of another task, and only the scaleUp that
\* has created it takes it back, although scalers put old counters back into the manifest.
TasksKept ==
  [][\A t \in TaskId :
       tasks[t] # 0 /\ tasks'[t] # tasks[t] =>
         tasks'[t] = 0 /\ \E s \in Scaler : step[s] = "undoing" /\ t \in job[s].made]_scalingVars

----------------------------------------------------------------------------
\* The team lock, as HeldLock has it.
TeamLock == INSTANCE HeldLock WITH
  Proc <- ScalingProc,
  lock <- locked.team,
  users <- {p \in ScalingProc : creating[p] # "off"}

\* Creators of tasks, and the scalers among them, use the team lock as it is promised, also when
\* they stop half-way.
TeamLockUsed == TeamLock!Spec
=============================================================================
