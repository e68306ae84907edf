# A verification of the oh-my-codex team runtime

The repository is a workflow layer around a coding agent: one leader process starts a *team* of
worker processes, puts tasks on a shared board, watches them, and carries the team through a
pipeline of phases to its end. Nothing of that runs inside one server. Everything is a file
under `.omx/state/team/<team>/`, and everybody - the background job (`runtime-cli`), every
`omx team ...` command a worker or a user types, the hooks of the agent, the `omx-runtime`
binary - is a process of its own that reads, decides and writes these files. What can go wrong
is in the interleavings of these processes, in those that die or are suspended half way, and in
the decisions taken on what was read before. That is what this project models.

Paths below are relative to the repository (`src/` there is the TypeScript source, `crates/` the
Rust source); `PROJECT.json` names them with the prefix this checkout has.

## Contents

1. [The system](#1-the-system)
2. [Modules](#2-modules)
3. [How state and actions correspond to the code](#3-how-state-and-actions-correspond-to-the-code)
4. [What is checked](#4-what-is-checked)
5. [What is proved](#5-what-is-proved)
6. [Disagreements with the documentation](#6-disagreements-with-the-documentation)
7. [Not modelled](#7-not-modelled)
8. [Plan](#8-plan)
9. [Running it](#9-running-it)

## 1. The system

### Components

| component | state it keeps | operations | correct when |
|---|---|---|---|
| **team task board** `src/team/state/tasks.ts` | `tasks/task-<id>.json`: status, owner, claim (owner, token, lease end), version, depends_on | createTask, claimTask, transitionTaskStatus, releaseTaskClaim, reclaimExpiredTaskClaim, updateTask | one worker at a time holds a task, under a live lease; it is claimed only when what it depends on is completed; it ends once; no write is lost |
| **directory locks** `src/team/state/locks.ts` | `.lock-*` directories with an owner file | five copies of one protocol: task claim, team, scaling, mailbox, dispatch lock | one holder; no lock outlives its holder for ever; no waiter waits for ever |
| **team monitor** `src/team/runtime.ts` monitorTeam, assignTask | `monitor-snapshot.json`: last seen statuses, completion markers | one poll: list, reclaim, assign, announce, save | lapsed claims come back; each completion is announced, once |
| **team phase** `src/team/phase-controller.ts`, `orchestrator.ts` | `phase.json`: current phase, fix attempts | reconcile per poll; stop hook marks a dead transport; the job's verdict | the pipeline is walked along its transitions; a team is complete only when its work is; the job ends |
| **runtime engine** `crates/omx-runtime-core` | `events.json`, `mailbox.json`, `dispatch.json` ... | one command per process: load, process, persist, write views | the log replays to the state; delivery records move forward only |
| **dispatch queue, mailbox** `src/team/state/dispatch.ts`, `mailbox.ts`, `src/team/mcp-comm.ts` | `dispatch/requests.json`, or the engine's view `dispatch.json`; `mailbox/<worker>.json` | enqueue, wait for the receipt, type directly, mark notified, patch failed; send, broadcast | "notified" is said of a request only after a hook saw its text gone from the pane or a sender's own send went well; a failed request stays failed; a sender that is back has settled its request |
| **dispatch hook** `src/scripts/notify-hook/team-dispatch.ts` | the same files, `dispatch/.lock`, `dispatch/.processing-<id>` | drain: read, lease, write; inject, confirm, report, release | one hook at a time works on a request; an unconfirmed trigger is typed a bounded number of times |
| **scaling** `src/team/scaling.ts`, createTask in `src/team/state.ts` | `manifest.v2.json`: workers, next worker index, next task id; tmux panes | scaleUp, roll back, scaleDown, createTask | no two workers have one name; the roster is what runs; no task is written over |
| worktrees, tmux, API, planning, pipeline, loops, HUD ... | see `PROJECT.json` | | |

### How they interact

* A **worker** learns of its task from an inbox file and a nudge in its terminal, claims it
  through the team API, and later finishes or releases it with the claim token. Its lease is
  fifteen minutes; nothing renews it.
* The **leader's poll** (`monitorTeam`) lists all tasks without a lock, reclaims those whose
  lease is over, claims open tasks *for* workers and hands them out (`assignTask`, which rolls
  the claim back if the worker cannot be told), infers the phase, emits events for what changed
  since its last snapshot, and writes the next snapshot. The background job polls, and so does
  every `omx team status`: polls overlap each other and everything else.
* All changes of one task file go through its **directory lock**; the snapshot and `phase.json`
  are read and rewritten without one. A lock directory older than `LOCK_STALE_MS` (five minutes)
  is removed by any waiter.
* The **runtime engine** is a process per command (`RuntimeEngine`). The TypeScript side calls it from under its
  own dispatch or mailbox lock, or from under none, and falls back to its JSON files when the
  engine does not know a request. What falls back changes the view only, and the next command of
  the engine writes the view again from its log.
* A **sender** of an instruction (the leader handing out a task, `scaleUp` starting a worker)
  queues a request and waits for a receipt. A **hook**, a short process at the end of an agent's
  turn, leases pending requests under the dispatch lock, types their texts without it, and
  reports under the lock again. A sender whose time is up types the text itself, while a hook
  may be doing the same.
* **scaleUp** and **scaleDown** hold the scaling lock, **createTask** holds the team lock, and all
  three read and write the one manifest.

### What is hard here

* **Interleaving**: read - decide - rewrite of a whole file by overlapping processes.
* **Stale decisions**: listings and versions read before the lock is waited for.
* **Crashes**: a process may die between the task file and the event about it, between the event
  and the marker for it, inside a lock, between a claim and the message about it.
* **Lock recovery**: `stat` and `rm` are two system calls; age is the only sign of death.
* **Long protocols**: fail, fix, verify, reopen, with new tasks coming in at any time.

The list of hazards, each at its line and with the properties that watch it, is in
`PROJECT.json` under `hazards`.

## 2. Modules

| module | what it is |
|---|---|
| `TaskLifecycle` | abstract: a task board whose operations are atomic |
| `TeamTasks` | the task files and the calls that work on them, step by step; implements `TaskLifecycle` |
| `TeamTasksProofs` | theorems about `TeamTasks` |
| `TeamMonitor` | `TeamTasks` together with `monitorTeam` (EXTENDS it: the poll makes the same calls on the same files) |
| `TeamMonitorHistory` | `TeamMonitor` with a history variable, the tasks whose completion met a poll, was left unrecorded by a death or lost its record |
| `TeamMonitorProofs` | theorems about `TeamMonitor` and `TeamMonitorHistory`, from those about `TeamTasks` |
| `TeamPhase` | the pipeline of phases, polls, stop hook and background job |
| `TeamPhaseProofs` | theorems about `TeamPhase` |
| `HeldLock` | abstract: a lock that one process has at a time, and that outlives a holder who dies |
| `DirLock` | the lock protocol, one system call per step; implements `HeldLock` as long as no live holder is robbed |
| `DirLockProofs` | theorems about `DirLock` |
| `DeliveryLedger` | abstract: dispatch requests and messages whose status changes atomically |
| `RuntimeEngine` | concurrent `omx-runtime exec` processes on one state directory; implements `DeliveryLedger` as long as they do not overlap |
| `RuntimeEngineProofs` | theorems about `RuntimeEngine` |
| `TeamDispatch` | the dispatch queue between senders, hooks and the engine's log |
| `TeamDispatchProofs` | theorems about `TeamDispatch` |
| `TeamScaling` | scaleUp, scaleDown and createTask on one manifest under two locks |
| `TeamScalingProofs` | theorems about `TeamScaling` |
| `FiniteRecursion` | lemmas about induction and recursion up to a number, for the proofs about paths and logs |
| `MC*` | TLC instances: symmetry, views, dependency lists |

`HeldLock` is where a lock and its users meet: `DirLock` implements it (`Held`), and `TeamTasks`
(`TaskLock(t)`), `TeamDispatch` (`DispatchLock`) and `TeamScaling` (`TeamLock`) use their locks as
it says, which section 5 proves of both sides. A lock there is `"free"`, its holder, or `"orphan"`, a directory
whose maker is dead; `LiveLocksBroken` of `TeamTasks` says whether a live holder may be robbed
(`NobodyRobbed` of `DirLock` is its negation). The scaling lock is left out of this: a scaler can
take longer than `LOCK_STALE_MS`, and `BreakOldLock` robs it alive. `TeamPhase` stands beside
`TeamMonitor`: of a task it keeps only what the phase depends on, and how a task moves between
these is `TeamTasks`. `TeamDispatch` takes the engine to be atomic, which `RuntimeEngine` shows it
to be while commands do not overlap. Of `TeamDispatch`, `TeamScaling` sees only whether a new worker
could be told (`UpSaves` or `UpFails`), and of `TeamScaling`, `TeamTasks` needs that a new task
has a file of its own (`TasksKept`).

Definitions marked `Seeded fault` are deliberate errors - a dropped guard, a missing check, a
swapped comparison. Nothing uses them; `mutants` in `PROJECT.json` puts each in the place of the
definition that follows it to show that some property would notice.

## 3. How state and actions correspond to the code

`map` in `PROJECT.json` gives the source lines of every definition. In outline:

### TeamTasks

| TLA+ | code |
|---|---|
| `tasks[t]` | `task-<t>.json`; version 0 is a file that does not exist |
| `issued` | claim tokens (`randomUUID`): fresh ones are numbered |
| `expired` | tokens whose `leased_until` has passed (`isClaimLeaseExpired`) |
| `lock[t]` | the task's lock directory |
| `pc[p]`, `req[p]`, `seen[p]`, `memo[p]` | the call process p is in: how far, its arguments, the file as read under the lock, the snapshot as read for the marker |
| `events` | `task_completed` / `task_failed` lines appended |
| `snap` | `monitor-snapshot.json`: `taskStatusById`, `completedEventTaskIds` |
| `ClaimTask`, `ClaimUnderLock`, `GiveUp` | claimTask: the look before the lock, the decision under it, the time-out |
| `TransitionTaskStatus`, `ReleaseTaskClaim`, `ReclaimExpiredTaskClaim`, `UpdateTask` | the other calls, whose decision depends on nothing read before the lock |
| `Admits`, `Result` | each call's guards under the lock, and the file it writes |
| `WriteTask`, `Announce`, `Release*`, `ReadSnapshot`, `WriteSnapshot` | the rest of a call: file, event, lock, marker |
| `Crash`, `ExpireLease`, `BreakStaleLock` | death anywhere, time, lock recovery |

Reading a file and deciding are one step: the decision is not visible to anybody. Writing is
one step because the code writes a temporary file and renames it. I/O errors (a full disk) are
not modelled. The claim guard is that of the code with its early returns in order; since the
error *kinds* are not told apart, the order does not show.

### TeamMonitor

`poll[m]` is the position in `monitorTeam`; `view[m]` the tasks as listed (file by file, other
processes may step in between); `todo[m]` the loop; `prev[m]` the snapshot read at the start;
`job[m]` the assignment being made. The calls a poll makes are the actions of `TeamTasks` with
the poller as the process, so that every one of their steps can interleave with everybody else.
Which worker is free and which task is chosen first is left open. Worker liveness, mailbox
nudges and worktree integration, which the poll does too, change none of these variables.

Nothing in the code makes polls and completions take turns, and nothing in the model does: polls
begin whenever they like, beside each other and beside completions, and every process may die
anywhere. A poll that returns or dies takes its variables with it (`Ends`).

So the markers do not always do what they were made for, and `TeamMonitorHistory` says when they
do. An announcer, the call that completed the task or a poll that found it completed, is for a
while between the event and the record of it (`Announcing`). `clashed` collects the tasks to which
one of three things has happened: a poll was under way meanwhile (`Meets`), the announcer died
there (`Left`), or the record was written over from an older read (`Lost`). `OnceUnlessClashed` says
that a second event for a task is always preceded by one of them; `monitor_overlap` shows such a
second event. `Lost` is not the affair of one task alone: each completing call reads the snapshot,
adds its marker and writes the whole file back, without a lock, and of two that do so at once, for
different tasks, one marker is lost.

### TeamPhase

`work[t]` lumps what `inferPhaseTargetFromTaskCounts` and the evidence check tell apart
(pending, blocked and in_progress are `open`; the job's `hasOutstandingWork` does not count
blocked tasks, but no caller creates or makes a blocked one, so this is the same).
`InferPhaseTarget`, `BuildTransitionPath`, `TransitionPhase` and `Reconcile` are the pure
functions of `phase-controller.ts` and `orchestrator.ts`; `ReadPhase` and `WritePhase` are
separate because the code has no lock around them. `Walk`, which applies one transition after the
other along the path, is a recursive function, so that it can be proved about. `HookReads` / `HookWrites` are
`markTeamTransportFailure`; `OutcomeOf` is what `runtime-cli` makes of the phase.

### DirLock

One step per system call: mkdir, owner file, stat, rm, the wait, the look at the owner file, the
final rm. A directory is `old` when its mtime is more than `LOCK_STALE_MS` ago; writing a *new*
file into it makes it young. `rm -r` of the two entries is one step. `SlowHolders` says whether a
live holder can keep the lock that long (a suspended machine, a long git operation under it).

### RuntimeEngine

One process per command. `Exec` is load (both reads are under one shared file lock), the command
and compaction, which are in memory; a command that is refused ends the process without a
trace. `PersistLog` and `PersistMailbox` are the two writes of `persist` that a later load reads,
under the exclusive lock; `ViewDispatch`, `TruncateMailbox` and `ViewMailbox` those of
`write_compatibility_view`, under none. The log is a sequence of events; event and command are
the same record. `Torn` is every file that does not parse, a missing one included: the code
treats both alike. `Loaded` is what `RuntimeEngine::load` would build from the files now, with its
preference for `mailbox.json` over the replayed messages. `TornAssumption` says that `Torn` is not
the contents of a file. Authority leases, which no caller asks
for, the replay cursor and the derived files (`snapshot.json`, `backlog.json`, ...) are left out.
The TypeScript side, which changes `dispatch.json` too, is `TeamDispatch`.

`disturbed` is history: it turns TRUE when an exec begins while another runs, or dies with
`events.json` half written or newer than `mailbox.json`.

### TeamDispatch

| TLA+ | code |
|---|---|
| `bridge`, `direct` | is the runtime bridge on; does the policy's `dispatch_mode` send past the hooks |
| `log[r]`, `file[r]` | the status of request r in the engine's log; status and `attempt_count` in the file everybody reads, `dispatch.json` with a bridge and `requests.json` without |
| `address[r]` | `to_worker`, and what the correlation key tells apart |
| `holder` | `dispatch/.lock` by its maker |
| `at[s]`, `ticket[s]`, `seen[s]`, `ok[s]` | the sender: how far, the request it queued or found queued, the status it read last, what it will answer |
| `stage[h]`, `claims[h]`, `copy[h]`, `result[h]` | the hook: how far, the requests it has claimed and not been through, the file as it read it under the lock, what came of the injection |
| `lease[r]`, `robbed[h]` | `dispatch/.processing-<r>` by its maker; the leases others took from h |
| `grounds`, `tries`, `mishaps` | history: what evidence there has been that a request's text arrived, injections, deaths and time-outs so far |
| `Enqueue`, `EnqueueDuplicate` | enqueueDispatchRequest under the lock |
| `Receipt` | waitForDispatchReceipt |
| `TypeDirectly`, `TypingFails`, `MarkNotified`, `ReadCurrent`, `PatchFailed` | the fall-back of queueInboxInstruction, and scaleUp's: type, mark or patch |
| `DrainReads`, `DrainWrites` | the two ends of drainPendingTeamDispatch's turn under the lock |
| `InjectConfirmed`, `InjectUnconfirmed`, `InjectionFails` | injectDispatchRequest and the confirmation rounds |
| `FinalizeReads`, `FinalizeWrites`, `ReleaseLease` | finalizeClaimedDispatchRequest and the lease's end |
| `OtherExec` | any other command of the engine, which writes the view from the log |

`cold` in `DrainWrites` are the issues whose fifteen minutes of cooldown are not over, a free
choice, and `late` the live hooks whose leases have become too old. All that a drain has claimed
is leased at once and injected one after the other, so a long drain outlives its last leases.
A sender holds no lock between its steps: one that dies just takes no more of them.

`grounds[r]` is `"gone"` once a hook has looked and found the text gone from the pane, `"sent"` when
all there is is a send of a sender's own that returned. The second proves little: in prompt mode a
send is a write to a pipe, and `sendToWorker` is "Fail-open by default" (`tmux-session.ts`), returning
also when the pane could not be read or is not ready and still shows the draft. The senders mark
requests notified and answer all the same, and `ReportsAreTrue` claims no more than that: nobody
says notified without one of the two, and nobody says delivered without the first. When a
starting worker shows no sign of life the sender sends, and takes nothing for granted.

### TeamScaling

| TLA+ | code |
|---|---|
| `manifest` | `manifest.v2.json`: `workers`, `next_worker_index`, `next_task_id` |
| `tasks[t]` | how many creations `task-<t>.json` is the file of; 0 is no file |
| `panes`, `opened` | tmux panes that live, each with its worker; panes ever opened |
| `locked` | the scaling lock and the team lock by their makers |
| `step[s]`, `mine[s]`, `job[s]` | the scaler: how far, the `config` it works on, what it is to add, has added, has created, is to remove |
| `creating[p]`, `read[p]` | createTask: how far, the manifest it has read |
| `raced`, `setbacks` | history: a scaler saved while a task was being created; processes that stopped half way, locks broken under live holders |
| `CreateReads`, `CreateWrites`, `CreateSaves` | createTask under the team lock; scaleUp calls it for its tasks |
| `UpReads`, `UpOpens`, `UpSaves` | scaleUp: limits, split-window, telling the worker, saveTeamConfig |
| `UpFails` | split-window fails (`scaling.ts:493-507`), or the worker cannot be told (`scaling.ts:667-681`) |
| `UpUndoes`, `UpRestores` | rollbackScaleUp: panes and then task files, each a step of its own, then the manifest |
| `DownReads`, `DownKills`, `DownSaves` | scaleDown |
| `Stops`, `BreakOldLock` | exceptions with nothing taken back, deaths, LOCK_STALE_MS |

## 4. What is checked

Times are for two TLC workers.

| run | module, instance | shows |
|---|---|---|
| `tasks` | TeamTasks: 2 tasks (the second may depend on the first), 2 workers, 2 calls in flight, 2 claims, file versions to 3; 1.5 million states, 90 s | `ClaimsConsistent`, `NoStaleWrite`, `AnnouncedOnce`, `LeaseHonoured`, the inductive invariant `BoardInv`, and that the board implements `TaskLifecycle` |
| `monitor` | TeamMonitorHistory: 1 task, 1 worker, 1 caller, 1 poller, overlapping and dying anywhere; 0.8 million states, 130 s | two announcements only after a clash (`OnceUnlessClashed`), none missing (`SeenMeansAnnounced`), records dropped only by writers that read before them (`SnapshotKeepsCompletions`), and the liveness of lapsed claims |
| `monitor_shared` | TeamMonitor: 1 task, 1 worker, 2 pollers, 1 caller, all overlapping and dying anywhere; 2.1 million states, 100 s | the board's safety survives polls with stale listings, roll-backs and unlocked plans: `NoStaleWrite`, `LeaseHonoured`, `ImplementsLifecycle` |
| `monitor_overlap` | the same, 1 poller | **violated**: `CompletedOnce` (section 6) |
| `phase` | TeamPhase: job, status poll and stop hook overlap on 2 tasks; 1.2 million states, 80 s | `PathsLegal`, `CompleteIsBacked` |
| `phase_job` | TeamPhase: the job alone, prompt mode, 3 tasks, 1 fix attempt; 0.26 million states, 20 s | `JobSuccessBacked`, and that the job ends |
| `phase_reopened` | TeamPhase: status polls, 4 tasks that fail one after the other, 3 fix attempts | **violated**: `ReopenedForOpenTasks` (section 6) |
| `dirlock` | DirLock: 3 processes, slow holders, deaths anywhere; 38 thousand states, 17 s | two holders only through a wrong recovery; robbed holders keep off; nothing is left behind; orphans go; everybody ends |
| `dirlock_recovery` | DirLock: 3 processes, *no* slow holder | **violated**: `MutualExclusion` (section 6) |
| `engine` | RuntimeEngine: 2 processes that overlap and die anywhere, 1 request, 1 message, logs of up to 4 events, with compaction; 2 million states, 50 s | `LogReplays` whatever happens; `ViewNotAhead` and the ledger (`StepsLikeLedger`) unless disturbed |
| `engine_overlap` | RuntimeEngine: 2 processes, 2 requests, no compaction | **violated**: `AppendOnly` (section 6) |
| `workers` | TeamDispatch: 2 senders, 2 hooks, 2 requests (1 with a bridge) to one worker, 1 mishap; and TeamScaling: 2 scalers, 1 creator of tasks, 3 workers, 2 tasks, 3 panes, 1 setback; 5.2 million states, 190 s | `ReportsAreTrue`, `AnsweredMeansSettled`, `OneHookAtATime`, `TriesBounded`, `FailedIsFinal`; `NamesDistinct`, `RosterIsAlive`, `TasksKept` |

### The bounds, and why they are enough

* *Two tasks, two workers*: the interactions between tasks are dependencies (one of a pair is
  enough, a third task adds only a second reader of the same status) and tokens that must not
  coincide. The proofs of section 5 need no such bound.
* *Two claims, versions to 3*: one claim that lapses and one that takes its place, with an edit
  in between, is the shortest history in which a stale version, a stale token and a stale lease
  are all possible. The bounds sit in the guards of `ClaimTask` and `UpdateTask` only: calls that
  end a claim are always possible.
* *One task, one worker, one caller, one poller* with a completion: a poll, a call, their overlaps
  and deaths are all of what `Meets`, `Left` and `Lost` speak of, except for a second poll beside the
  first and a second task's completion. `monitor_shared` has the second poll, for the board;
  for the markers, two polls and several tasks are in the theorems, not in a run.
* *Two events counted* (`MaxAnnounced`): polls that die before they save announce again and again;
  the count stops at the bound, and no property tells more than one from many.
* *Three processes on a lock*: a dead maker and the two that find its directory - the smallest
  number for the races of recovery.
* *Fix attempts 1 and 3*: 1 reaches the limit soon; 3 is the value `initTeamState` writes.
* *Two requests to one worker*: the second is a duplicate of the first while that is pending, and
  is queued when it is not; two of one issue share a cooldown. Two senders and two hooks give
  every pair that can meet at one request. With the bridge on there is one request: what the
  log and the view say of one does not depend on another. `MaxUnconfirmed` is 2 (the code has 3):
  one attempt that is counted, and the last. One mishap is a death, a lost lease or a time-out;
  the theorems need no bound.
* *Three workers, three panes*: the first worker and two that are added, by one scaler or by two,
  so that the first is saved when the second fails. Two tasks: one of the scaler's and one of
  the creator's, in either order, or the same id twice if that were possible.
* `MCTeamWorkers` has both modules in one instance. They share no variable, so each behaviour moves
  one of them; nothing is claimed of their combination.
* *One request, one message, four events*: a request needs three events to its end and a fourth
  to be refused; requests do not look at each other, and message and request meet only in the
  order of the files.
* `MC*` views leave out of the fingerprint what no guard and no checked property reads (say, the
  arguments of a call that is past its write); the comment above each view says what and why.
* `CHECK_DEADLOCK FALSE` everywhere: with bounded calls and every task at its end the system
  really stops.

### Fairness

* A process that is in the middle of a call takes its next step unless it dies: weak fairness on
  its steps. Dying is never fair.
* The leader polls again and again: weak fairness on `StartPoll`, which nothing but the poller's own
  poll keeps from being possible. A poller may die; the next one is the next poll.
* `LapsedClaimsEnd` is claimed if some poller, from some time on, neither dies nor is timed out at
  the task's lock: the code promises nothing when every poll is killed or kept out.
* A lock that is free again and again is caught in the end: strong fairness on `Reclaim`. The
  code polls the directory every few milliseconds for seconds, and the next poll tries again.
* A waiter's deadline passes: strong fairness on `DirLock`'s `GiveUp`; the code measures it with
  the clock, whatever happens to the directory meanwhile.
* An orphaned lock is met by a waiter: weak fairness on `BreakStaleLock` (the leader's polls are
  such waiters).
* `TeamDispatch` and `TeamScaling` have no fairness: hooks run when some agent's turn ends, which
  nothing guarantees, and only safety is claimed of both.
* `TeamPhase` has fairness for the job only. `omx team status` need never be typed again.

## 5. What is proved

All theorems hold for every number of tasks, workers, processes and requests, every dependency
list and every value of the bounds.

**`TeamTasksProofs`.** `TypeCorrect` needs no assumption. The others assume
`LiveLocksBroken = FALSE`: no live holder is robbed. The assumption is needed - with it false
`NoStaleWrite` fails at once - and `DirLock` shows what it depends on.

`ClaimsConsistent` and `AnnouncedOnce` are not inductive: a call decides in one step and writes in
another, and what makes the write right is what it knew when it decided. `InTurn(p)` states what
is left of that knowledge while others run: p still has its task's lock, the file on disk is
still the one it read, and it is still `Entitled` to its write - which is weaker than `Admits`,
because a lease p found running may lapse before it writes. With the types and the claims this
is `FilesInv`, which is inductive for whatever uses the calls. `BoardInv` adds the
announcements: a finish that has not yet appended its event knows that nobody else has. Two facts
carry the step cases: `Exclusive` (two calls past their decision are not on the same task) and
`FinalStays` (a completed task stays completed, so a claim that found its dependencies completed
is still right when it writes).

* `BoardCorrect` - `BoardInv` always holds; `ClaimsAlwaysConsistent`, `NeverStaleWrite`,
  `OutcomeAnnouncedOnce` follow.
* `LeasesHonoured` - the action property `LeaseHonoured`.
* `BoardImplementsLifecycle` - the refinement: every step of the board is a step of
  `TaskLifecycle`'s task board, or changes nothing there.

**`TeamMonitorProofs`.** A step of a poll is a step of a call, with the poller as the process, or
leaves the files and the calls alone; so `FilesInv` is inductive for `TeamMonitor` as well
(`MonitorFilesCorrect`), with no assumption on when polls run or where they die, and with it
come `MonitorNeverStaleWrite`, `MonitorLeasesHonoured` and `MonitorImplementsLifecycle`.

`PollInv` (`PollsCorrect`) adds what holds of the polls' reads: what a snapshot, old or new, or a
listing shows completed is completed and stays so (`CompletedForGood`), and a poll visits the
completions it finds unannounced and no others (`EmitsUnannounced`). `FoundMeansAnnounced` is read off
it. `CompletionsKept` comes from the steps that write the snapshot: each writes what it had read
and more, so what it drops it had not read.

`MarkersCorrect` is about `HistorySpec`. Its invariant `MarkerInv` says of every task that has not
clashed that it is `AccountedFor`: nobody else is under way between its event and the record; an
event that is out is on record or about to be; every poll under way read that record at its start,
or is the announcer; and nobody is about to announce it again. A step that would break this puts the task into
`clashed`. `TwiceOnlyAfterClash` follows. All of them assume `LiveLocksBroken = FALSE`, as in
`TeamTasksProofs`, and nothing about when polls and calls run, overlap or die.

**`TeamScalingProofs`.** `ScalingCorrect` establishes `ScalingInv`. Whatever may be written back as
the manifest - the scalers' copies, createTask's copy, a roll-back to come - is itself sound
(`ManifestsSound`): that is why saves that undo each other keep the names distinct. A creation has
the team lock to itself and an id that no file has (`CreationKnown`). The names a scaleUp gives
are those from its first index on (`JobsSound`), so that its roll-back may put the counter back.
That the roster is what runs (`RosterKnown`) is claimed only while nobody has raced or been set
back. A roll-back takes panes and files away one by one, and while it does `RosterKnown` says which
panes may be left. From it: `NamesAlwaysDistinct`, `RosterAlwaysAlive`, `TasksAlwaysKept`. No assumption beyond
those on the constants.

**`TeamDispatchProofs`.** `DispatchCorrect` establishes `DispatchInv`. A hook that holds the dispatch
lock knows that the file is its copy, or, with a bridge, that no failure has come into the log
that its copy has not (`CopiesKnown`); the view knows the failures of the log (`FailuresKnown`);
whoever will report something good has grounds for it, a hook having seen the text gone
(`TruthKnown`); a lease one has not
been robbed of is one's own (`LeasesKnown`); what a sender has read as settled stays settled
(`SettledKnown`). `QueueKnown`, `HooksKnown` and `SendersKnown` say what goes with each position.
From it: `ReportsAlwaysTrue`, `AnsweredAlwaysSettled`, `OneHookAlways`, `FailedStaysFailed`, and
`StatusesAlwaysMoveByTable`: a request never goes back along `CanTransition` or past it in the
record that counts - the log with a bridge, the file without - although every hook writes all
requests back as it has read them.

`TriesAlwaysBounded`, that an unconfirmed trigger is typed at most `MaxUnconfirmed` times and once
more per mishap when there is no bridge, is a matter of accounting. `TriesInv` adds to `DispatchInv` that every try of a
pending request is counted in the file, or is to be reported by a hook on its way
(`Unreported`), or is paid for by a mishap; that a mishap of a hook robbed of its lease is not
spent on anything else before that hook has reported (`Robbed`), nor that of a hook which died with the
dispatch lock while another has the lease (`Doomed`); and that of a request which is no longer
pending the tries still to come are within the bound (`Left`). The assumption that there
are finitely many hooks keeps these numbers numbers.

**`TeamPhaseProofs`.** `PhaseTypeCorrect` and `PathsAlwaysLegal` need no assumption: whatever a poll
reads and finds, the path `BuildTransitionPath` gives it is one of legal steps, each from where
the one before ended (`WalkSteps`), and a write that throws on the way writes nothing.
`CompleteAlwaysBacked` and `JobSuccessAlwaysBacked` rest on `PhaseInv`: what a poll has listed as
finished is still finished when it writes, as no finished task opens again (`ListedFinished`), and
a job that has ended lists nothing any more (`EndedIsOff`). Both assume `CompleteIsNotKept`: workers
are panes, or the background job is the only one that polls. Without it they fail. In prompt mode
a poll that finds all workers dead keeps the phase it has read, and with a second poller that may
be a `complete` written before new work came in (a hazard in `PROJECT.json`). The job alone stops
when it has written `complete`, so it never reads it (`AloneReadsNoComplete`).

**`RuntimeEngineProofs`.** `LogAlwaysReplays` holds however processes overlap and die, since a
process writes the log it has loaded and one event that was accepted by the state of that log;
`LogInv` says it of the logs in the processes' hands as well. Compaction is the hard part: what
it leaves of the log still replays, to the same state but for the requests that are over, which
are forgotten (`Compacted`). `ViewNeverAhead` and
`ImplementsLedger` - that files and answers go as the requests and messages of `DeliveryLedger` -
hold until something disturbs the engine. `QuietInv` is their invariant: one command is under way
at a time, the log is the first of the files to be there, what a load would build is what the log
replays to except between the two writes, and what a process has in hand is what the files will be.

**`FiniteRecursion`.** Both modules above compute along sequences, the path of phases and the log.
Their definitions are recursive functions on the numbers up to a length, and what these
compute is proved by a form of induction and recursion without operators as parameters: a property is the
set of numbers that have it (`InductionTo`), a step is a function (`RecursionTo`).

**`DirLockProofs`.** `LockCorrect` establishes `LockInv`: as long as nobody has been robbed, the
process past its mkdir and not through is the maker of the directory, an owner file is that of
its maker, and a directory has somebody answerable for it. From it: `RecoveryIsTheOnlyRisk`
(`OnlyRecoveryLetsTwoIn`), `RobbedKeepsOff`, `NoneLeftBehind`. `LockTypeCorrect` needs no more than
the types.

**The lock between its makers and its users.** `ImplementsHeldLock`: until a live holder is robbed,
every system call of the protocol, with its waiters, failed writes and deaths, is a step of
`HeldLock` or changes nothing there; `UnrobbedIsHeldLock` draws the conclusion for a lock that never
sees a robbery. On the other side each module that asks for such a lock takes it when it
is free, gives back its own only, and is not past its decision without it:
`LocksUsedAsPromised` for the calls on the board (again under `LiveLocksBroken = FALSE`),
`MonitorUsesLocksAsPromised` for the polls, `DispatchLockUsedAsPromised` for the hooks and
`TeamLockUsedAsPromised` for createTask and scaleUp. So what the users assume of a lock, and what the
lock is shown to be, is one specification. That the two sides go together in one
behaviour, with the robbery of a live holder ruled out, is the reader's step: no module has both.

The properties `LocksLikeHeld`, `LocksUsedAsHeld`, `DispatchLockUsed`, `TeamLockUsed` and
`StatusesMoveByTable` are stated by theorems and are in no configuration.

**Only model-checked**: liveness, which is beyond the proof system: `LapsedClaimsEnd`, `JobEnds`,
`OrphanRecovered` and `EverybodyEnds`. Every other property of the passing runs is a theorem.

## 6. Disagreements with the documentation

Each is a run with `expect: violation`; `findings` in `PROJECT.json` quotes the documents.

* **Completions announced twice** (`monitor_overlap`). A completion appends its event under the
  task lock and leaves the marker only after it; a poll that reads the snapshot in between, or
  overlaps another poll's write, announces the completion a second time. The code's comment
  says the markers prevent the duplicate.
* **A failed team taken up again for failed tasks** (`phase_reopened`). A team that has used up
  its fix attempts is `failed`; the next poll finds failed tasks, infers `team-fix`, and reopens
  the team with zero attempts, although nobody gave it new work.
* **Two holders of one lock** (`dirlock_recovery`). Two waiters find the same old directory; the
  first removes it and makes its own; the second's `rm` then removes that one. No slow holder is
  needed, only a dead one and two waiters.

* **An append-only log that loses events** (`engine_overlap`). The engine's lock covers the
  reading and the writing of `events.json`, but not the time between; of two overlapping
  commands, both answered with success, the log keeps the second only.

Not a disagreement with a document, but known behaviours that the models show or allow:

* Two completions at once, of different tasks, lose one's marker; the next poll announces that
  completion again (`Lost` of `TeamMonitorHistory`; a hazard in `PROJECT.json`).
* A sender marks its request notified when its own send returns, which `sendToWorker` also does
  without a sign that the text was taken (`TypeDirectly` of `TeamDispatch`).
* With the bridge on, a failure recorded in the view alone - the request was not the engine's to
  fail - is undone by the engine's next command; the request is pending again and a hook may
  type it (`OtherExec`, and the exemption in `FailedIsFinal`).
* A sender that dies while it types directly leaves its request pending; in direct mode no hook
  takes it, and every later instruction with the same key is answered as a duplicate.
* createTask and a scaler overwrite each other's manifest: what comes back may be a roster without
  a worker that runs, or with one that does not (`raced` in `RosterIsAlive`). Names stay distinct
  and no task is overwritten all the same.
* A scaler that throws outside its roll-back leaves panes that no roster names (`setbacks`).

## 7. Not modelled

`PROJECT.json` lists every component with its status. Of the modelled ones, left out are: worker
liveness events, worktree integration and mailbox nudges in the monitor; the evidence a
completion must bring in detail (a completion may be refused for lack of it, which is modelled as
a choice); description, subject and the other fields updateTask may set. Liveness of the phase
with workers that die is not claimed: a dead team fails, or waits for the user.

Of the dispatch queue: mailbox messages and the `mailbox` kind of request, requests to the leader
and their deferral while its pane is missing, `maxPerTick` (a drain that stops early is one whose
other requests are cooling down), the thirty seconds' trigger cooldown (within the issue's
fifteen minutes), an `exec` that itself fails. `PatchFailed` reads and writes in one step, as it
does both under the dispatch lock. Of scaling: worktrees, worker status files, the retry at a
trust prompt, and the first save that only adds a missing worktree mode. `scaleDown` waits for its
workers to drain, but takes the status `draining` it has just written itself for their answer, so
the wait ends at once and `DownReads` has none; a worker may be killed with a task in its hands,
whose lease then lapses (`TeamTasks`). `scaleUp` and `scaleDown` are exported and tested, but no
command calls them yet.

Terminal multiplexer, git worktrees, external credentials, notification services and user
interfaces are commands to programs outside the repository; their modules are sequential glue.

## 8. Plan

In this order:

1. The mailbox: messages, their own store beside the engine's, the `mailbox` kind of request and
   requests to the leader.
2. Liveness of the queue: a request with a live sender does not stay pending for ever. It held on
   one sender, two hooks and one request; a larger instance takes too long as it stands.
3. A `RuntimeEngine` with the messages of the disturbed world: what `mailbox.json` may lose.
4. Markers set by refused completions (`state.ts`, markTeamTaskCompletedEvent): a property that
   a marker means an announcement, and where it fails.
5. Candidates after that: question records, the ultragoal ledger and its lock, pipeline stages.

## 9. Running it

    tlc -workers 2 -config MCTeamTasks.cfg MCTeamTasks     # one run
    tlc -workers 2 -config MCTeamWorkers.cfg MCTeamWorkers # three minutes
    tlapm TeamTasksProofs.tla                              # about a minute
    tlapm TeamMonitorProofs.tla
    tlapm TeamScalingProofs.tla
    tlapm TeamDispatchProofs.tla                           # some minutes
    tlapm TeamPhaseProofs.tla
    tlapm RuntimeEngineProofs.tla
    tlapm FiniteRecursion.tla
    tlapm DirLockProofs.tla
