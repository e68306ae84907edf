----------------------------- MODULE TeamTasks -----------------------------
(***************************************************************************)
(* The task board of a team: one JSON file per task, changed by short-     *)
(* lived processes (team API calls, the leader's assignment and its        *)
(* monitor poll) that serialise on one lock directory per task.            *)
(*                                                                         *)
(* A call first looks at the files without a lock, then waits for the      *)
(* task's lock, reads the file again, decides, writes the whole file back  *)
(* from what it read, and removes the lock.  A process may die between any *)
(* two of these steps; a lock it leaves behind is broken by a waiter once  *)
(* it is older than LOCK_STALE_MS.  LiveLocksBroken says whether the lock  *)
(* of a process that is still alive can be broken too: because it held it  *)
(* for longer than that, or because two waiters were removing the same old *)
(* directory and the second removed the first one's new one (DirLock).     *)
(***************************************************************************)
EXTENDS Naturals

CONSTANTS
  TaskId,        \* ids a task can have
  Worker,        \* names in the team's config
  Proc,          \* processes that may have a call in flight
  Deps,          \* Deps[t]: dependency lists callers give t (create-task, update-task)
  MaxTokens,     \* bound: claims are not asked for beyond it
  MaxVersion,    \* bound: nor are claims and edits of a file beyond it
  LiveLocksBroken  \* may a waiter break the lock of a live process?

ASSUME NamesAssumption == "none" \notin Worker /\ Proc \cap {"free", "orphan"} = {}
ASSUME TaskIdAssumption == TaskId # {}
ASSUME DepsAssumption == Deps \in [TaskId -> SUBSET SUBSET TaskId]
ASSUME BoundsAssumption == MaxTokens \in Nat /\ MaxVersion \in Nat
ASSUME BreakAssumption == LiveLocksBroken \in BOOLEAN

VARIABLES
  tasks,    \* tasks[t]: task-<t>.json
  issued,   \* claim tokens 1..issued exist (randomUUID: never one twice)
  expired,  \* tokens whose leased_until has passed
  lock,     \* lock[t]: who made the task's lock directory
  pc,       \* pc[p]: how far process p is with its call
  req,      \* req[p]: that call and its arguments
  seen,     \* seen[p]: the task file as p read it under the lock
  events,   \* events[t][outcome]: task_<outcome> events appended for t
  snap,     \* monitor-snapshot.json, as far as completions go
  memo      \* memo[p]: the snapshot as p read it

taskVars == <<tasks, issued, expired, lock, pc, req, seen, events, snap, memo>>

Status == {"pending", "blocked", "in_progress", "completed", "failed"}
Terminal == {"completed", "failed"}

Claim == [owner: Worker \cup {"none"}, token: Nat]
NoClaim == [owner |-> "none", token |-> 0]

\* A file that does not exist has version 0: normalizeTask gives every other at least 1.
TaskFile == [status: Status, owner: Worker \cup {"none"}, claim: Claim,
             version: Nat, deps: SUBSET TaskId]
NoFile == [status |-> "pending", owner |-> "none", claim |-> NoClaim,
           version |-> 0, deps |-> {}]

Operation == {"claim", "finish", "release", "reclaim", "update"}
Request == [op: Operation, task: TaskId, who: Worker \cup {"none"}, token: Nat,
            outcome: Terminal, version: Nat, deps: SUBSET TaskId]

NoRequest == [op |-> "update", task |-> CHOOSE t \in TaskId : TRUE, who |-> "none",
              token |-> 0, outcome |-> "failed", version |-> 0, deps |-> {}]

\* The parts of the snapshot the completion path reads and writes.
Snapshot == [status: [TaskId -> Status \cup {"unseen"}], marked: SUBSET TaskId]
NoSnapshot == [status |-> [t \in TaskId |-> "unseen"], marked |-> {}]

Stage == {"idle", "waiting", "writing", "announcing", "releasing", "marking", "recording"}
----------------------------------------------------------------------------
Present(t) == tasks[t].version > 0

\* isClaimLeaseExpired: no claim is never an expired one.
LeaseExpired(claim) == claim.token \in expired

\* A task is ready when every task it depends on is completed.
Ready(t) == \A d \in tasks[t].deps : Present(d) /\ tasks[d].status = "completed"

Completing(r) == r.op = "finish" /\ r.outcome = "completed"

----------------------------------------------------------------------------
(* What a call decides from the file v it has read under the lock. *)

\* Seeded faults: an in_progress task is taken whatever its lease; readiness is not checked
\* again under the lock.
ClaimIgnoringLease(r, v) ==
  /\ r.version \in {0, v.version}
  /\ Ready(r.task)
  /\ v.status = "in_progress" \/ v.owner \in {"none", r.who}

ClaimWithoutRecheck(r, v) ==
  /\ r.version \in {0, v.version}
  /\ \/ v.status = "in_progress" /\ LeaseExpired(v.claim)
     \/ v.status \in {"pending", "blocked"} /\ v.owner \in {"none", r.who}

ClaimAdmits(r, v) ==
  /\ r.version \in {0, v.version}       \* 0: no expected version was given
  /\ Ready(r.task)
  /\ \/ v.status = "in_progress" /\ LeaseExpired(v.claim)
     \/ /\ v.status \in {"pending", "blocked"}
        /\ v.claim = NoClaim \/ LeaseExpired(v.claim)
        /\ v.owner \in {"none", r.who}

HoldsClaim(r, v) ==
  /\ v.owner # "none"
  /\ v.claim.owner = v.owner
  /\ v.claim.token = r.token
  /\ ~LeaseExpired(v.claim)

FinishAdmits(r, v) == v.status = "in_progress" /\ HoldsClaim(r, v)

ReleaseAdmits(r, v) == v.status \notin Terminal /\ HoldsClaim(r, v)

\* Seeded fault: the lease is not looked at.
ReclaimIgnoringLease(r, v) == v.status = "in_progress"

ReclaimAdmits(r, v) == v.status = "in_progress" /\ LeaseExpired(v.claim)

Admits(r, v) ==
  /\ v.version > 0
  /\ \/ r.op = "claim" /\ ClaimAdmits(r, v)
     \/ r.op = "finish" /\ FinishAdmits(r, v)
     \/ r.op = "release" /\ ReleaseAdmits(r, v)
     \/ r.op = "reclaim" /\ ReclaimAdmits(r, v)
     \/ r.op = "update"

----------------------------------------------------------------------------
(* What it then writes, built from the same v. *)

Claimed(r, v) ==
  [v EXCEPT !.status = "in_progress", !.owner = r.who,
            !.claim = [owner |-> r.who, token |-> issued + 1], !.version = @ + 1]

Finished(r, v) ==
  [v EXCEPT !.status = r.outcome, !.claim = NoClaim, !.version = @ + 1]

\* Seeded faults: a status outside the contract; the claim is left in the file.
ReopenedAsReleased(v) ==
  [v EXCEPT !.status = "released", !.owner = "none", !.claim = NoClaim, !.version = @ + 1]
ReopenedKeepingClaim(v) ==
  [v EXCEPT !.status = "pending", !.owner = "none", !.version = @ + 1]

Reopened(v) ==
  [v EXCEPT !.status = "pending", !.owner = "none", !.claim = NoClaim, !.version = @ + 1]

Updated(r, v) == [v EXCEPT !.deps = r.deps, !.version = @ + 1]

Result(r, v) ==
  CASE r.op = "claim" -> Claimed(r, v)
    [] r.op = "finish" -> Finished(r, v)
    [] r.op \in {"release", "reclaim"} -> Reopened(v)
    [] r.op = "update" -> Updated(r, v)

----------------------------------------------------------------------------
Init ==
  /\ tasks = [t \in TaskId |-> NoFile]
  /\ issued = 0
  /\ expired = {}
  /\ lock = [t \in TaskId |-> "free"]
  /\ pc = [p \in Proc |-> "idle"]
  /\ req = [p \in Proc |-> NoRequest]
  /\ seen = [p \in Proc |-> NoFile]
  /\ events = [t \in TaskId |-> [outcome \in Terminal |-> 0]]
  /\ snap = NoSnapshot
  /\ memo = [p \in Proc |-> NoSnapshot]

\* createTask: the id is one no task file has yet, so nobody else works on the file.
CreateTask(t, owner, deps) ==
  /\ ~Present(t)
  /\ tasks' = [tasks EXCEPT ![t] = [NoFile EXCEPT !.owner = owner, !.version = 1,
                                                  !.deps = deps]]
  /\ UNCHANGED <<issued, expired, lock, pc, req, seen, events, snap, memo>>

----------------------------------------------------------------------------
(* Entering the critical section: mkdir succeeds for one process only.  What the process  *)
(* then reads is not visible to anybody else, so reading and deciding are the same step.   *)

\* Seeded fault: the lock directory is not created exclusively.
EnterAnyway(p, r) ==
  /\ lock' = [lock EXCEPT ![r.task] = p]
  /\ req' = [req EXCEPT ![p] = r]
  /\ UNCHANGED <<tasks, issued, expired, events, snap, memo>>

Enter(p, r) ==
  /\ lock[r.task] = "free"
  /\ lock' = [lock EXCEPT ![r.task] = p]
  /\ req' = [req EXCEPT ![p] = r]
  /\ UNCHANGED <<tasks, issued, expired, events, snap, memo>>

Accept(p, r) ==
  /\ Enter(p, r)
  /\ Admits(r, tasks[r.task])
  /\ seen' = [seen EXCEPT ![p] = tasks[r.task]]
  /\ pc' = [pc EXCEPT ![p] = "writing"]

\* Any error result, or release of a task nobody holds: nothing is written.  A completion
\* without the evidence its delegation plan asks for is refused as well.
Refuse(p, r) ==
  /\ Enter(p, r)
  /\ ~Admits(r, tasks[r.task]) \/ Completing(r)
  /\ pc' = [pc EXCEPT ![p] = "releasing"]
  /\ UNCHANGED seen

Decide(p, r) == Accept(p, r) \/ Refuse(p, r)

----------------------------------------------------------------------------
(* claimTask looks at the files before it waits for the lock; the version it was given and *)
(* the readiness it saw may be stale when it gets in.  The other operations bring nothing  *)
(* they have read, so for them waiting, and giving up, changes nothing that counts.        *)

\* version 0: no expected version; otherwise the one the caller has just read.
ClaimTask(p, t, w, version) ==
  /\ pc[p] = "idle"
  /\ issued < MaxTokens /\ tasks[t].version < MaxVersion
  /\ Present(t)
  /\ Ready(t)
  /\ pc' = [pc EXCEPT ![p] = "waiting"]
  /\ req' = [req EXCEPT ![p] = [NoRequest EXCEPT !.op = "claim", !.task = t, !.who = w,
                                                 !.version = version]]
  /\ UNCHANGED <<tasks, issued, expired, lock, seen, events, snap, memo>>

ClaimUnderLock(p) == pc[p] = "waiting" /\ Decide(p, req[p])

Return(p) ==
  /\ pc' = [pc EXCEPT ![p] = "idle"]
  /\ req' = [req EXCEPT ![p] = NoRequest]
  /\ seen' = [seen EXCEPT ![p] = NoFile]
  /\ memo' = [memo EXCEPT ![p] = NoSnapshot]

\* The deadline passes while the directory is there: claim_conflict.
GiveUp(p) ==
  /\ pc[p] = "waiting"
  /\ lock[req[p].task] # "free"
  /\ Return(p)
  /\ UNCHANGED <<tasks, issued, expired, lock, events, snap>>

\* canTransitionTaskStatus(from, to) lets only in_progress -> completed | failed through.
TransitionTaskStatus(p, t, k, outcome) ==
  /\ pc[p] = "idle"
  /\ Decide(p, [NoRequest EXCEPT !.op = "finish", !.task = t, !.token = k, !.outcome = outcome])

ReleaseTaskClaim(p, t, k) ==
  /\ pc[p] = "idle"
  /\ Decide(p, [NoRequest EXCEPT !.op = "release", !.task = t, !.token = k])

ReclaimExpiredTaskClaim(p, t) ==
  /\ pc[p] = "idle"
  /\ Decide(p, [NoRequest EXCEPT !.op = "reclaim", !.task = t])

UpdateTask(p, t, deps) ==
  /\ pc[p] = "idle"
  /\ tasks[t].version < MaxVersion
  /\ Decide(p, [NoRequest EXCEPT !.op = "update", !.task = t, !.deps = deps])

\* Seeded fault: the age of the lock is not looked at.
BreakAnyLock(t) ==
  /\ lock[t] # "free"
  /\ lock' = [lock EXCEPT ![t] = "free"]
  /\ UNCHANGED <<tasks, issued, expired, pc, req, seen, events, snap, memo>>

\* maybeRecoverStaleLock, called by any waiter that found the directory in its way.
BreakStaleLock(t) ==
  /\ lock[t] = "orphan" \/ (LiveLocksBroken /\ lock[t] # "free")
  /\ lock' = [lock EXCEPT ![t] = "free"]
  /\ UNCHANGED <<tasks, issued, expired, pc, req, seen, events, snap, memo>>

----------------------------------------------------------------------------
(* The rest of the critical section, and what follows it. *)

WriteTask(p) ==
  /\ pc[p] = "writing"
  /\ tasks' = [tasks EXCEPT ![req[p].task] = Result(req[p], seen[p])]
  /\ issued' = IF req[p].op = "claim" THEN issued + 1 ELSE issued
  /\ pc' = [pc EXCEPT ![p] = IF req[p].op = "finish" THEN "announcing" ELSE "releasing"]
  /\ UNCHANGED <<expired, lock, req, seen, events, snap, memo>>

\* appendTeamEvent, still inside the critical section.
Announce(p) ==
  /\ pc[p] = "announcing"
  /\ events' = [events EXCEPT ![req[p].task][req[p].outcome] = @ + 1]
  /\ pc' = [pc EXCEPT ![p] = "releasing"]
  /\ UNCHANGED <<tasks, issued, expired, lock, req, seen, snap, memo>>

\* The directory goes only if the owner file in it is still p's.
Unlock(p) ==
  lock' = IF lock[req[p].task] = p THEN [lock EXCEPT ![req[p].task] = "free"] ELSE lock

Release(p) ==
  /\ pc[p] = "releasing"
  /\ ~Completing(req[p])
  /\ Unlock(p)
  /\ Return(p)
  /\ UNCHANGED <<tasks, issued, expired, events, snap>>

\* After the lock, and whatever came of the call: the marker in the snapshot.
ReleaseToMark(p) ==
  /\ pc[p] = "releasing"
  /\ Completing(req[p])
  /\ Unlock(p)
  /\ pc' = [pc EXCEPT ![p] = "marking"]
  /\ UNCHANGED <<tasks, issued, expired, req, seen, events, snap, memo>>

ReadSnapshot(p) ==
  /\ pc[p] = "marking"
  /\ memo' = [memo EXCEPT ![p] = snap]
  /\ pc' = [pc EXCEPT ![p] = "recording"]
  /\ UNCHANGED <<tasks, issued, expired, lock, req, seen, events, snap>>

WriteSnapshot(p) ==
  /\ pc[p] = "recording"
  /\ snap' = [memo[p] EXCEPT !.marked = @ \cup {req[p].task}]
  /\ Return(p)
  /\ UNCHANGED <<tasks, issued, expired, lock, events>>

----------------------------------------------------------------------------
\* p dies where it stands; whatever lock it holds stays on disk.
Crash(p) ==
  /\ pc[p] # "idle"
  /\ lock' = [t \in TaskId |-> IF lock[t] = p THEN "orphan" ELSE lock[t]]
  /\ Return(p)
  /\ UNCHANGED <<tasks, issued, expired, events, snap>>

\* Fifteen minutes pass for the claim on t.
ExpireLease(t) ==
  /\ tasks[t].claim # NoClaim
  /\ expired' = expired \cup {tasks[t].claim.token}
  /\ UNCHANGED <<tasks, issued, lock, pc, req, seen, events, snap, memo>>

Call(p) ==
  \E t \in TaskId :
    \/ \E w \in Worker, version \in {0, tasks[t].version} : ClaimTask(p, t, w, version)
    \/ \E k \in 1..issued :    \* whoever it was given to, and however long ago
         \/ \E outcome \in Terminal : TransitionTaskStatus(p, t, k, outcome)
         \/ ReleaseTaskClaim(p, t, k)
    \/ ReclaimExpiredTaskClaim(p, t)
    \/ \E deps \in Deps[t] : UpdateTask(p, t, deps)

Step(p) ==
  \/ ClaimUnderLock(p) \/ GiveUp(p)
  \/ WriteTask(p) \/ Announce(p) \/ Release(p)
  \/ ReleaseToMark(p) \/ ReadSnapshot(p) \/ WriteSnapshot(p)

Next ==
  \/ \E t \in TaskId : \E owner \in Worker \cup {"none"}, deps \in Deps[t] :
        CreateTask(t, owner, deps)
  \/ \E p \in Proc : Call(p) \/ Step(p) \/ Crash(p)
  \/ \E t \in TaskId : ExpireLease(t) \/ BreakStaleLock(t)

Spec == Init /\ [][Next]_taskVars
----------------------------------------------------------------------------
(* Properties. *)

\* Every variable holds a value of its type.
TypeOK ==
  /\ tasks \in [TaskId -> TaskFile]
  /\ issued \in Nat
  /\ expired \subseteq Nat
  /\ lock \in [TaskId -> Proc \cup {"free", "orphan"}]
  /\ pc \in [Proc -> Stage]
  /\ req \in [Proc -> Request]
  /\ seen \in [Proc -> TaskFile]
  /\ events \in [TaskId -> [Terminal -> Nat]]
  /\ snap \in Snapshot
  /\ memo \in [Proc -> Snapshot]

\* A task file says in_progress exactly when it names a claim, the claim and the file agree on
\* the owner, and no token is the claim of two tasks: what claimTask, transitionTaskStatus,
\* releaseTaskClaim and reclaimExpiredTaskClaim rely on when they compare tokens, and what
\* each of them must leave behind although it writes the whole file from an earlier read.
ClaimsConsistent ==
  \A t \in TaskId :
    /\ tasks[t].status = "in_progress" =>
         /\ tasks[t].owner \in Worker
         /\ tasks[t].claim.owner = tasks[t].owner
         /\ tasks[t].claim.token \in 1..issued
    /\ tasks[t].status # "in_progress" => tasks[t].claim = NoClaim
    /\ \A u \in TaskId \ {t} :
         tasks[t].claim.token # 0 => tasks[u].claim.token # tasks[t].claim.token

\* A call that is about to write a task file writes over exactly the version it read: no
\* other call's write, whatever its order, crash or timeout, is lost under it.
NoStaleWrite ==
  \A p \in Proc : pc[p] = "writing" => seen[p] = tasks[req[p].task]

\* However many callers present the token of one claim at once, the task ends with one
\* outcome and transitionTaskStatus appends one event for it, the event of that outcome.
AnnouncedOnce ==
  \A t \in TaskId, outcome \in Terminal :
    /\ events[t][outcome] <= 1
    /\ events[t][outcome] = 1 => tasks[t].status = outcome

\* A claim whose lease still runs leaves a task file only on behalf of a call that presented
\* its token: claiming, reclaiming and editing by others cannot displace it.
LeaseHonoured ==
  [][\A t \in TaskId :
       (/\ tasks[t].claim # NoClaim
        /\ tasks[t].claim.token \notin expired
        /\ tasks'[t].claim # tasks[t].claim)
       => \E p \in Proc : /\ pc[p] = "writing"
                          /\ req[p].task = t
                          /\ req[p].op \in {"finish", "release"}
                          /\ req[p].token = tasks[t].claim.token]_taskVars

----------------------------------------------------------------------------
(* Why these hold when no live holder's lock is broken: what each process relies on. *)

\* What is left of Admits once time passes and other calls run.
Entitled(r, v) ==
  /\ v.version > 0
  /\ \/ /\ r.op = "claim"
        /\ r.who \in Worker
        /\ Ready(r.task)
        /\ \/ v.status \in {"pending", "blocked"}
           \/ v.status = "in_progress" /\ LeaseExpired(v.claim)
     \/ r.op \in {"finish", "release"} /\ v.status = "in_progress" /\ v.claim.token = r.token
     \/ r.op = "reclaim" /\ v.status = "in_progress" /\ LeaseExpired(v.claim)
     \/ r.op = "update"

InTurn(p) ==
  LET r == req[p]
      v == tasks[r.task]
  IN /\ pc[p] \in {"writing", "announcing", "releasing"} => lock[r.task] = p
     /\ pc[p] = "waiting" => r.op = "claim" /\ r.who \in Worker
     /\ pc[p] = "writing" => seen[p] = v /\ Entitled(r, v)
     /\ pc[p] = "announcing" => r.op = "finish" /\ v.status = r.outcome

AbsentIsEmpty == \A t \in TaskId : ~Present(t) => tasks[t] = NoFile

\* The inductive invariant of the task files: a call that has decided still holds its task's
\* lock, still has in hand the file that is on disk, and is still entitled to what it is about
\* to write.
FilesInv ==
  /\ TypeOK
  /\ ClaimsConsistent
  /\ AbsentIsEmpty
  /\ \A p \in Proc : InTurn(p)

\* The inductive invariant of the board by itself: while an outcome is still to be announced,
\* there is no event for the task.
BoardInv ==
  /\ FilesInv
  /\ AnnouncedOnce
  /\ \A p \in Proc : pc[p] = "announcing" =>
       \A outcome \in Terminal : events[req[p].task][outcome] = 0
----------------------------------------------------------------------------
\* Seen through this mapping, calls that overlap, time out and die half way behave like the
\* atomic operations of TaskLifecycle.
PhaseOf(t) ==
  IF ~Present(t) THEN "absent"
  ELSE IF tasks[t].status \in {"pending", "blocked"} THEN "open"
  ELSE IF tasks[t].status = "in_progress" THEN "claimed"
  ELSE tasks[t].status

Lifecycle == INSTANCE TaskLifecycle WITH
  phase <- [t \in TaskId |-> PhaseOf(t)],
  holder <- [t \in TaskId |-> tasks[t].claim.token],
  needs <- [t \in TaskId |-> tasks[t].deps],
  lapsed <- expired

\* TeamTasks implements TaskLifecycle.
ImplementsLifecycle == Lifecycle!Spec

\* A task's lock, to those who ask for it.
TaskLock(t) == INSTANCE HeldLock WITH
  lock <- lock[t],
  users <- {p \in Proc : pc[p] \in {"writing", "announcing", "releasing"} /\ req[p].task = t}

\* Every call uses its task's lock as it is promised: it takes it free, gives back its own, and
\* stops acting on it when it does.
LocksUsedAsHeld == [][\A t \in TaskId : [TaskLock(t)!Next]_(TaskLock(t)!heldVars)]_taskVars
=============================================================================
