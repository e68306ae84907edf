-------------------------- MODULE TeamTasksProofs --------------------------
(***************************************************************************)
(* TeamTasks, for any number of tasks, workers and processes.              *)
(***************************************************************************)
EXTENDS TeamTasks, TLAPS

USE NamesAssumption, TaskIdAssumption, DepsAssumption, BoundsAssumption, BreakAssumption

----------------------------------------------------------------------------
(* Types. *)

LEMMA NoFileType == NoFile \in TaskFile /\ NoClaim \in Claim
  BY DEF NoFile, NoClaim, TaskFile, Claim, Status

LEMMA NoRequestType == NoRequest \in Request
<1>1. (CHOOSE t \in TaskId : TRUE) \in TaskId
  OBVIOUS
<1>2. QED
  BY <1>1 DEF NoRequest, Request, Operation, Terminal

LEMMA NoSnapshotType == NoSnapshot \in Snapshot
  BY DEF NoSnapshot, Snapshot

\* Which of the four writes a call makes.
LEMMA ResultCases ==
  ASSUME NEW r, NEW v
  PROVE  /\ r.op = "claim" => Result(r, v) = Claimed(r, v)
         /\ r.op = "finish" => Result(r, v) = Finished(r, v)
         /\ r.op \in {"release", "reclaim"} => Result(r, v) = Reopened(v)
         /\ r.op = "update" => Result(r, v) = Updated(r, v)
<1>1. ASSUME r.op = "claim" PROVE Result(r, v) = Claimed(r, v)
  BY <1>1 DEF Result
<1>2. ASSUME r.op = "finish" PROVE Result(r, v) = Finished(r, v)
  BY <1>2 DEF Result
<1>3. ASSUME r.op \in {"release", "reclaim"} PROVE Result(r, v) = Reopened(v)
  BY <1>3 DEF Result
<1>4. ASSUME r.op = "update" PROVE Result(r, v) = Updated(r, v)
  BY <1>4 DEF Result
<1>5. QED
  BY <1>1, <1>2, <1>3, <1>4

\* What a call writes is a task file, one version above the file it read.
LEMMA ResultType ==
  ASSUME NEW r \in Request, NEW v \in TaskFile, issued \in Nat
  PROVE  Result(r, v) \in TaskFile /\ Result(r, v).version = v.version + 1
<1>1. v.version \in Nat /\ v.version + 1 \in Nat
  BY DEF TaskFile
<1>2. Claimed(r, v) \in TaskFile /\ Claimed(r, v).version = v.version + 1
  <2>1. [owner |-> r.who, token |-> issued + 1] \in Claim
    BY DEF Request, Claim
  <2>2. r.who \in Worker \cup {"none"}
    BY DEF Request
  <2>3. QED
    BY <1>1, <2>1, <2>2 DEF Claimed, TaskFile, Status
<1>3. Finished(r, v) \in TaskFile /\ Finished(r, v).version = v.version + 1
  <2>1. r.outcome \in Status
    BY DEF Request, Status, Terminal
  <2>2. QED
    BY <1>1, <2>1, NoFileType DEF Finished, TaskFile
<1>4. Reopened(v) \in TaskFile /\ Reopened(v).version = v.version + 1
  BY <1>1, NoFileType DEF Reopened, TaskFile, Status
<1>5. Updated(r, v) \in TaskFile /\ Updated(r, v).version = v.version + 1
  BY <1>1 DEF Updated, TaskFile, Request
<1>6. QED
  BY <1>2, <1>3, <1>4, <1>5, ResultCases DEF Request, Operation

LEMMA ResultFields ==
  ASSUME NEW r \in Request, NEW v \in TaskFile
  PROVE  /\ r.op = "claim" =>
              /\ Result(r, v).status = "in_progress" /\ Result(r, v).owner = r.who
              /\ Result(r, v).claim = [owner |-> r.who, token |-> issued + 1]
         /\ r.op = "finish" =>
              Result(r, v).status = r.outcome /\ Result(r, v).claim = NoClaim
         /\ r.op \in {"release", "reclaim"} =>
              Result(r, v).status = "pending" /\ Result(r, v).claim = NoClaim
         /\ r.op = "update" =>
              /\ Result(r, v).status = v.status /\ Result(r, v).claim = v.claim
              /\ Result(r, v).owner = v.owner /\ Result(r, v).deps = r.deps
         /\ r.op # "update" => Result(r, v).deps = v.deps
<1>1. /\ Claimed(r, v).status = "in_progress" /\ Claimed(r, v).owner = r.who
      /\ Claimed(r, v).claim = [owner |-> r.who, token |-> issued + 1]
      /\ Claimed(r, v).deps = v.deps
  BY DEF Claimed, TaskFile
<1>2. /\ Finished(r, v).status = r.outcome /\ Finished(r, v).claim = NoClaim
      /\ Finished(r, v).deps = v.deps
  BY DEF Finished, TaskFile
<1>3. /\ Reopened(v).status = "pending" /\ Reopened(v).claim = NoClaim
      /\ Reopened(v).deps = v.deps
  BY DEF Reopened, TaskFile
<1>4. /\ Updated(r, v).status = v.status /\ Updated(r, v).claim = v.claim
      /\ Updated(r, v).owner = v.owner /\ Updated(r, v).deps = r.deps
  BY DEF Updated, TaskFile
<1>5. QED
  BY <1>1, <1>2, <1>3, <1>4, ResultCases DEF Request, Operation

\* The requests that operations build.
LEMMA RequestType ==
  ASSUME NEW t \in TaskId, issued \in Nat
  PROVE  /\ \A w \in Worker, n \in Nat :
              [NoRequest EXCEPT !.op = "claim", !.task = t, !.who = w, !.version = n] \in Request
         /\ \A k \in Nat, outcome \in Terminal :
              [NoRequest EXCEPT !.op = "finish", !.task = t, !.token = k, !.outcome = outcome]
                \in Request
         /\ \A k \in Nat :
              [NoRequest EXCEPT !.op = "release", !.task = t, !.token = k] \in Request
         /\ [NoRequest EXCEPT !.op = "reclaim", !.task = t] \in Request
         /\ \A deps \in SUBSET TaskId :
              [NoRequest EXCEPT !.op = "update", !.task = t, !.deps = deps] \in Request
  BY NoRequestType DEF Request, Operation

\* Entering the critical section keeps the types.
LEMMA DecideType ==
  ASSUME TypeOK, NEW p \in Proc, NEW r \in Request, Decide(p, r)
  PROVE  TypeOK'
<1>1. r.task \in TaskId
  BY DEF Request
<1>2. /\ UNCHANGED <<tasks, issued, expired, events, snap, memo>>
      /\ lock' = [lock EXCEPT ![r.task] = p]
      /\ req' = [req EXCEPT ![p] = r]
      /\ pc' = [pc EXCEPT ![p] = "writing"] \/ pc' = [pc EXCEPT ![p] = "releasing"]
      /\ seen' = seen \/ seen' = [seen EXCEPT ![p] = tasks[r.task]]
  BY DEF Decide, Accept, Refuse, Enter
<1>3. QED
  BY <1>1, <1>2 DEF TypeOK, Stage

LEMMA TypeStep == TypeOK /\ [Next]_taskVars => TypeOK'
<1> SUFFICES ASSUME TypeOK, [Next]_taskVars PROVE TypeOK'
  OBVIOUS
<1> USE NoFileType, NoRequestType, NoSnapshotType
<1>1. ASSUME NEW t \in TaskId, NEW owner \in Worker \cup {"none"}, NEW deps \in Deps[t],
             CreateTask(t, owner, deps)
      PROVE  TypeOK'
  <2>1. [NoFile EXCEPT !.owner = owner, !.version = 1, !.deps = deps] \in TaskFile
    BY DEF NoFile, NoClaim, TaskFile, Claim, Status
  <2>2. QED
    BY <1>1, <2>1 DEF CreateTask, TypeOK
<1>2. ASSUME NEW p \in Proc, Call(p) PROVE TypeOK'
  <2>1. PICK t \in TaskId :
          \/ \E w \in Worker, version \in {0, tasks[t].version} : ClaimTask(p, t, w, version)
          \/ \E k \in 1..issued :
               \/ \E outcome \in Terminal : TransitionTaskStatus(p, t, k, outcome)
               \/ ReleaseTaskClaim(p, t, k)
          \/ ReclaimExpiredTaskClaim(p, t)
          \/ \E deps \in Deps[t] : UpdateTask(p, t, deps)
    BY <1>2 DEF Call
  <2>2. issued \in Nat /\ tasks[t].version \in Nat /\ 1..issued \subseteq Nat
    BY DEF TypeOK, TaskFile
  <2>3. ASSUME NEW w \in Worker, NEW version \in {0, tasks[t].version},
               ClaimTask(p, t, w, version)
        PROVE  TypeOK'
    BY <2>2, <2>3, RequestType DEF ClaimTask, TypeOK, Stage
  <2>4. ASSUME NEW k \in 1..issued, NEW outcome \in Terminal,
               TransitionTaskStatus(p, t, k, outcome)
        PROVE  TypeOK'
    BY <2>2, <2>4, RequestType, DecideType DEF TransitionTaskStatus
  <2>5. ASSUME NEW k \in 1..issued, ReleaseTaskClaim(p, t, k) PROVE TypeOK'
    BY <2>2, <2>5, RequestType, DecideType DEF ReleaseTaskClaim
  <2>6. CASE ReclaimExpiredTaskClaim(p, t)
    BY <2>2, <2>6, RequestType, DecideType DEF ReclaimExpiredTaskClaim
  <2>7. ASSUME NEW deps \in Deps[t], UpdateTask(p, t, deps) PROVE TypeOK'
    BY <2>2, <2>7, RequestType, DecideType DEF UpdateTask
  <2>8. QED
    BY <2>1, <2>3, <2>4, <2>5, <2>6, <2>7
<1>3. ASSUME NEW p \in Proc, Step(p) PROVE TypeOK'
  <2>1. req[p] \in Request /\ req[p].task \in TaskId /\ issued \in Nat
    BY DEF TypeOK, Request
  <2>2. CASE ClaimUnderLock(p)
    BY <2>1, <2>2, DecideType DEF ClaimUnderLock
  <2>3. CASE GiveUp(p)
    BY <2>3 DEF GiveUp, Return, TypeOK, Stage
  <2>4. CASE WriteTask(p)
    <3>1. Result(req[p], seen[p]) \in TaskFile
      BY <2>1, ResultType DEF TypeOK
    <3>2. QED
      BY <2>1, <2>4, <3>1 DEF WriteTask, TypeOK, Stage
  <2>5. CASE Announce(p)
    BY <2>1, <2>5 DEF Announce, TypeOK, Stage, Request
  <2>6. CASE Release(p)
    BY <2>1, <2>6 DEF Release, Unlock, Return, TypeOK, Stage
  <2>7. CASE ReleaseToMark(p)
    BY <2>1, <2>7 DEF ReleaseToMark, Unlock, TypeOK, Stage
  <2>8. CASE ReadSnapshot(p)
    BY <2>8 DEF ReadSnapshot, TypeOK, Stage
  <2>9. CASE WriteSnapshot(p)
    <3>1. [memo[p] EXCEPT !.marked = @ \cup {req[p].task}] \in Snapshot
      BY <2>1 DEF TypeOK, Snapshot
    <3>2. QED
      BY <2>9, <3>1 DEF WriteSnapshot, Return, TypeOK, Stage
  <2>10. QED
    BY <1>3, <2>2, <2>3, <2>4, <2>5, <2>6, <2>7, <2>8, <2>9 DEF Step
<1>4. ASSUME NEW p \in Proc, Crash(p) PROVE TypeOK'
  BY <1>4 DEF Crash, Return, TypeOK, Stage
<1>5. ASSUME NEW t \in TaskId, ExpireLease(t) PROVE TypeOK'
  <2>1. tasks[t].claim.token \in Nat
    BY DEF TypeOK, TaskFile, Claim
  <2>2. QED
    BY <1>5, <2>1 DEF ExpireLease, TypeOK
<1>6. ASSUME NEW t \in TaskId, BreakStaleLock(t) PROVE TypeOK'
  BY <1>6 DEF BreakStaleLock, TypeOK
<1>7. CASE UNCHANGED taskVars
  BY <1>7 DEF taskVars, TypeOK
<1>8. QED
  BY <1>1, <1>2, <1>3, <1>4, <1>5, <1>6, <1>7 DEF Next

\* Every reachable state has every variable in its type, whatever the bounds and however
\* often the locks of live processes are broken.
THEOREM TypeCorrect == Spec => []TypeOK
<1>1. Init => TypeOK
  BY NoFileType, NoRequestType, NoSnapshotType DEF Init, TypeOK, Stage
<1>2. QED
  BY <1>1, TypeStep, PTL DEF Spec

----------------------------------------------------------------------------
(* The board, when no live holder's lock is broken. *)

\* A process that a step does not touch stays in turn, as long as its lock is not taken away
\* and leases only run out.
LEMMA Untouched ==
  ASSUME FilesInv, NEW q \in Proc,
         UNCHANGED tasks, expired \subseteq expired',
         pc'[q] = pc[q], req'[q] = req[q], seen'[q] = seen[q],
         lock[req[q].task] = q => lock'[req[q].task] = q
  PROVE  InTurn(q)'
  BY DEF FilesInv, InTurn, Entitled, Ready, Present, LeaseExpired

\* A step that changes no file and no token count.
LEMMA QuietStep ==
  ASSUME FilesInv, TypeOK', UNCHANGED <<tasks, issued>>,
         \A q \in Proc : InTurn(q)'
  PROVE  FilesInv'
  BY DEF FilesInv, ClaimsConsistent, AbsentIsEmpty, Present

\* Two processes past their decision are never in the same task's critical section.
LEMMA Exclusive ==
  ASSUME FilesInv, NEW p \in Proc, NEW q \in Proc, p # q,
         pc[p] \in {"writing", "announcing", "releasing"},
         pc[q] \in {"writing", "announcing", "releasing"}
  PROVE  req[p].task # req[q].task
  BY DEF FilesInv, InTurn

\* Whatever Admits lets through is entitled to be written.
LEMMA AdmittedEntitled ==
  ASSUME FilesInv, NEW r \in Request, Admits(r, tasks[r.task]),
         r.op = "claim" => r.who \in Worker
  PROVE  Entitled(r, tasks[r.task])
<1> DEFINE v == tasks[r.task]
<1>1. r.task \in TaskId /\ v \in TaskFile
  BY DEF Request, FilesInv, TypeOK
<1>2. HoldsClaim(r, v) => v.status = "in_progress" /\ v.claim.token = r.token
  <2>1. HoldsClaim(r, v) => v.claim # NoClaim
    BY DEF HoldsClaim, NoClaim
  <2>2. QED
    BY <1>1, <2>1 DEF HoldsClaim, FilesInv, ClaimsConsistent
<1>3. CASE r.op = "claim"
  BY <1>3 DEF Admits, Entitled, ClaimAdmits
<1>4. CASE r.op = "finish"
  BY <1>2, <1>4 DEF Admits, Entitled, FinishAdmits
<1>5. CASE r.op = "release"
  BY <1>2, <1>5 DEF Admits, Entitled, ReleaseAdmits
<1>6. CASE r.op = "reclaim"
  BY <1>6 DEF Admits, Entitled, ReclaimAdmits
<1>7. CASE r.op = "update"
  BY <1>7 DEF Admits, Entitled
<1>8. QED
  BY <1>3, <1>4, <1>5, <1>6, <1>7 DEF Request, Operation

\* Entering the critical section.
LEMMA DecideInv ==
  ASSUME FilesInv, NEW p \in Proc, NEW r \in Request, Decide(p, r),
         r.op = "claim" => r.who \in Worker
  PROVE  FilesInv'
<1>1. TypeOK'
  BY DecideType DEF FilesInv
<1>2. /\ UNCHANGED <<tasks, issued, expired, events>>
      /\ lock[r.task] = "free"
      /\ lock' = [lock EXCEPT ![r.task] = p]
      /\ req' = [req EXCEPT ![p] = r]
  BY DEF Decide, Accept, Refuse, Enter
<1>3. r.task \in TaskId /\ TypeOK
  BY DEF Request, FilesInv
<1>4. ASSUME NEW q \in Proc \ {p} PROVE InTurn(q)'
  <2>1. pc'[q] = pc[q] /\ req'[q] = req[q] /\ seen'[q] = seen[q]
    BY <1>3 DEF Decide, Accept, Refuse, Enter, TypeOK
  <2>2. lock[req[q].task] = q => lock'[req[q].task] = q
    BY <1>2, <1>3 DEF TypeOK, Request
  <2>3. QED
    BY <1>2, <2>1, <2>2, Untouched
<1>5. InTurn(p)'
  <2>1. lock'[r.task] = p /\ req'[p] = r
    BY <1>2, <1>3 DEF TypeOK
  <2>2. CASE Accept(p, r)
    <3>1. Entitled(r, tasks[r.task])
      BY <2>2, AdmittedEntitled DEF Accept
    <3>2. Entitled(r, tasks[r.task])'
      BY <1>2, <3>1 DEF Entitled, Ready, Present, LeaseExpired
    <3>3. seen'[p] = tasks'[r.task] /\ pc'[p] = "writing"
      BY <1>2, <1>3, <2>2 DEF Accept, TypeOK
    <3>4. QED
      BY <2>1, <3>2, <3>3 DEF InTurn
  <2>3. CASE Refuse(p, r)
    <3>1. pc'[p] = "releasing"
      BY <1>3, <2>3 DEF Refuse, TypeOK
    <3>2. QED
      BY <2>1, <3>1 DEF InTurn
  <2>4. QED
    BY <2>2, <2>3 DEF Decide
<1>6. QED
  BY <1>1, <1>2, <1>4, <1>5, QuietStep

\* A file that does not exist is in nobody's hands.
LEMMA CreateInv ==
  ASSUME FilesInv, NEW t \in TaskId, NEW owner \in Worker \cup {"none"}, NEW deps \in Deps[t],
         CreateTask(t, owner, deps), TypeOK'
  PROVE  FilesInv'
<1> DEFINE new == [NoFile EXCEPT !.owner = owner, !.version = 1, !.deps = deps]
<1>1. /\ tasks[t] = NoFile
      /\ tasks' = [tasks EXCEPT ![t] = new]
      /\ UNCHANGED <<issued, expired, lock, pc, req, seen, events>>
  BY DEF CreateTask, FilesInv, AbsentIsEmpty
<1>2. /\ new.status = "pending" /\ new.claim = NoClaim /\ new.version = 1
      /\ NoFile.status = "pending" /\ NoFile.version = 0 /\ NoClaim.token = 0
  BY DEF NoFile, NoClaim
<1>3. tasks'[t] = new /\ \A u \in TaskId \ {t} : tasks'[u] = tasks[u]
  BY <1>1 DEF FilesInv, TypeOK
<1> HIDE DEF new
<1>4. ClaimsConsistent'
  BY <1>1, <1>2, <1>3 DEF FilesInv, ClaimsConsistent
<1>5. AbsentIsEmpty'
  BY <1>2, <1>3 DEF FilesInv, AbsentIsEmpty, Present
<1>6. ASSUME NEW q \in Proc PROVE InTurn(q)'
  <2>1. req[q].task \in TaskId /\ req[q].outcome \in Terminal
    BY DEF FilesInv, TypeOK, Request
  <2>2. InTurn(q)
    BY DEF FilesInv
  <2>3. CASE req[q].task # t
    <3>1. \A u \in TaskId : Present(u) /\ tasks[u].status = "completed"
            => Present(u)' /\ tasks'[u].status = "completed"
      BY <1>1, <1>2, <1>3 DEF Present
    <3>2. tasks'[req[q].task] = tasks[req[q].task]
      BY <1>3, <2>1, <2>3
    <3>3. tasks[req[q].task].deps \subseteq TaskId
      BY <2>1 DEF FilesInv, TypeOK, TaskFile
    <3>4. Ready(req[q].task) => Ready(req[q].task)'
      BY <1>1, <3>1, <3>2, <3>3 DEF Ready
    <3>5. QED
      BY <1>1, <2>2, <3>2, <3>4 DEF InTurn, Entitled, LeaseExpired
  <2>4. CASE req[q].task = t
    <3>1. pc[q] # "writing" /\ pc[q] # "announcing"
      BY <1>1, <1>2, <2>1, <2>2, <2>4 DEF InTurn, Entitled, Terminal
    <3>2. QED
      BY <1>1, <2>2, <3>1 DEF InTurn
  <2>5. QED
    BY <2>3, <2>4
<1>7. QED
  BY <1>4, <1>5, <1>6 DEF FilesInv

\* What a writer leaves in the file it holds.
LEMMA WriteResult ==
  ASSUME FilesInv, NEW p \in Proc, WriteTask(p)
  PROVE  LET t == req[p].task
             v == tasks[t]
             w == tasks'[t]
         IN /\ t \in TaskId
            /\ Entitled(req[p], v)
            /\ w = Result(req[p], v)
            /\ w.version = v.version + 1
            /\ \A u \in TaskId \ {t} : tasks'[u] = tasks[u]
            /\ req[p].op = "claim" =>
                 /\ w.status = "in_progress" /\ w.owner = req[p].who
                 /\ w.claim = [owner |-> req[p].who, token |-> issued + 1]
            /\ req[p].op = "finish" => w.status = req[p].outcome /\ w.claim = NoClaim
            /\ req[p].op \in {"release", "reclaim"} => w.status = "pending" /\ w.claim = NoClaim
            /\ req[p].op = "update" => /\ w.status = v.status /\ w.claim = v.claim
                                       /\ w.owner = v.owner /\ w.deps = req[p].deps
            /\ req[p].op # "update" => w.deps = v.deps
<1> DEFINE r == req[p]
           v == tasks[r.task]
<1>1. r \in Request /\ r.task \in TaskId /\ v \in TaskFile /\ issued \in Nat
  BY DEF FilesInv, TypeOK, Request
<1>2. seen[p] = v /\ Entitled(r, v)
  BY DEF FilesInv, InTurn, WriteTask
<1>3. tasks' = [tasks EXCEPT ![r.task] = Result(r, v)]
  BY <1>2 DEF WriteTask
<1>4. tasks'[r.task] = Result(r, v) /\ \A u \in TaskId \ {r.task} : tasks'[u] = tasks[u]
  BY <1>1, <1>3 DEF FilesInv, TypeOK
<1>5. Result(r, v).version = v.version + 1
  BY <1>1, ResultType
<1>6. r.op \in {"claim", "finish", "release", "reclaim", "update"}
  BY <1>1 DEF Request, Operation
<1> HIDE DEF r, v
<1>7. QED
  BY <1>1, <1>2, <1>4, <1>5, <1>6, ResultFields DEF r, v

\* No write takes a task out of a final status, or its file away.
LEMMA FinalStays ==
  ASSUME FilesInv, NEW p \in Proc, WriteTask(p), NEW u \in TaskId
  PROVE  /\ tasks[u].status \in Terminal => tasks'[u].status = tasks[u].status
         /\ Present(u) => Present(u)'
<1>1. \A x \in TaskId : tasks[x].version \in Nat
  BY DEF FilesInv, TypeOK, TaskFile
<1>2. CASE u = req[p].task
  <2>1. tasks[u].status \in Terminal => req[p].op = "update"
    BY <1>2, WriteResult DEF Entitled, Terminal
  <2>2. tasks'[u].version = tasks[u].version + 1
    BY <1>2, WriteResult
  <2>3. req[p].op = "update" => tasks'[u].status = tasks[u].status
    BY <1>2, WriteResult
  <2>4. QED
    BY <1>1, <2>1, <2>2, <2>3 DEF Present
<1>3. CASE u # req[p].task
  BY <1>3, WriteResult DEF Present
<1>4. QED
  BY <1>2, <1>3

\* The rest of what a write has to keep: one claim per token, nobody else's file.
LEMMA WriteInv ==
  ASSUME FilesInv, NEW p \in Proc, WriteTask(p), TypeOK'
  PROVE  FilesInv'
<1> DEFINE r == req[p]
           t == r.task
<1>1. /\ issued \in Nat /\ r \in Request /\ t \in TaskId /\ r.outcome \in Terminal
      /\ \A u \in TaskId : tasks[u].version \in Nat /\ tasks[u].claim.token \in Nat
      /\ NoClaim.token = 0
  BY DEF FilesInv, TypeOK, Request, TaskFile, Claim, NoClaim
<1>2. /\ UNCHANGED <<expired, lock, req, seen, events>>
      /\ pc[p] = "writing"
      /\ pc' = [pc EXCEPT ![p] = IF r.op = "finish" THEN "announcing" ELSE "releasing"]
      /\ issued' = IF r.op = "claim" THEN issued + 1 ELSE issued
  BY DEF WriteTask
<1>3. /\ Entitled(r, tasks[t])
      /\ tasks'[t].version = tasks[t].version + 1
      /\ \A u \in TaskId \ {t} : tasks'[u] = tasks[u]
  BY WriteResult
<1>4. /\ r.op = "claim" =>
           /\ tasks'[t].status = "in_progress" /\ tasks'[t].owner = r.who
           /\ tasks'[t].claim = [owner |-> r.who, token |-> issued + 1]
      /\ r.op = "finish" => tasks'[t].status = r.outcome /\ tasks'[t].claim = NoClaim
      /\ r.op \in {"release", "reclaim"} => tasks'[t].status = "pending" /\ tasks'[t].claim = NoClaim
      /\ r.op = "update" => /\ tasks'[t].status = tasks[t].status /\ tasks'[t].claim = tasks[t].claim
                            /\ tasks'[t].owner = tasks[t].owner
      /\ r.op # "update" => tasks'[t].deps = tasks[t].deps
  BY WriteResult
<1>5. r.op \in {"claim", "finish", "release", "reclaim", "update"}
  BY <1>1 DEF Request, Operation
<1>6. ClaimsConsistent
  BY DEF FilesInv
<1> HIDE DEF r, t
<1>7. ClaimsConsistent'
  <2>1. CASE r.op = "claim"
    <3>1. r.who \in Worker
      BY <1>3, <2>1 DEF Entitled
    <3>2. issued' = issued + 1 /\ tasks'[t].claim.token = issued + 1
      BY <1>2, <1>4, <2>1
    <3>3. \A u \in TaskId : tasks[u].claim.token \in 0..issued
      BY <1>1, <1>6 DEF ClaimsConsistent
    <3>4. QED
      BY <1>1, <1>3, <1>4, <1>6, <2>1, <3>1, <3>2, <3>3 DEF ClaimsConsistent
  <2>2. CASE r.op \in {"finish", "release", "reclaim"}
    <3>1. tasks'[t].status # "in_progress" /\ tasks'[t].claim = NoClaim
      BY <1>1, <1>4, <2>2 DEF Terminal
    <3>2. issued' = issued
      BY <1>2, <2>2
    <3>3. QED
      BY <1>1, <1>3, <1>6, <3>1, <3>2 DEF ClaimsConsistent
  <2>3. CASE r.op = "update"
    BY <1>1, <1>2, <1>3, <1>4, <1>6, <2>3 DEF ClaimsConsistent
  <2>4. QED
    BY <1>5, <2>1, <2>2, <2>3
<1>8. AbsentIsEmpty'
  BY <1>1, <1>3 DEF FilesInv, AbsentIsEmpty, Present
<1>9. ASSUME NEW q \in Proc \ {p} PROVE InTurn(q)'
  <2>1. InTurn(q) /\ pc'[q] = pc[q] /\ req[q].task \in TaskId
    BY <1>2 DEF FilesInv, TypeOK, Request
  <2>2. CASE pc[q] \in {"writing", "announcing", "releasing"}
    <3>1. req[q].task # t
      BY <1>2, <2>2, Exclusive DEF r, t
    <3>2. tasks'[req[q].task] = tasks[req[q].task]
      BY <1>3, <2>1, <3>1
    <3>3. tasks[req[q].task].deps \subseteq TaskId
      BY <2>1 DEF FilesInv, TypeOK, TaskFile
    <3>4. Ready(req[q].task) => Ready(req[q].task)'
      BY <1>2, <3>2, <3>3, FinalStays DEF Ready, Terminal
    <3>5. QED
      BY <1>2, <2>1, <3>2, <3>4 DEF InTurn, Entitled, LeaseExpired
  <2>3. CASE pc[q] \notin {"writing", "announcing", "releasing"}
    BY <1>2, <2>1, <2>3 DEF InTurn
  <2>4. QED
    BY <2>2, <2>3
<1>10. InTurn(p)'
  <2>1. lock'[t] = p /\ req'[p] = r /\ r.task = t
    BY <1>2 DEF FilesInv, InTurn, r, t
  <2>2. pc'[p] = IF r.op = "finish" THEN "announcing" ELSE "releasing"
    BY <1>2 DEF FilesInv, TypeOK
  <2>3. QED
    BY <1>4, <2>1, <2>2 DEF InTurn
<1>11. QED
  BY <1>7, <1>8, <1>9, <1>10 DEF FilesInv

\* Calls: looking at a task to claim it, or going straight for its lock.
LEMMA CallInv ==
  ASSUME FilesInv, NEW p \in Proc, Call(p), TypeOK'
  PROVE  FilesInv'
<1>1. PICK t \in TaskId :
        \/ \E w \in Worker, version \in {0, tasks[t].version} : ClaimTask(p, t, w, version)
        \/ \E k \in 1..issued :
             \/ \E outcome \in Terminal : TransitionTaskStatus(p, t, k, outcome)
             \/ ReleaseTaskClaim(p, t, k)
        \/ ReclaimExpiredTaskClaim(p, t)
        \/ \E deps \in Deps[t] : UpdateTask(p, t, deps)
  BY DEF Call
<1>2. issued \in Nat /\ 1..issued \subseteq Nat /\ Deps[t] \subseteq SUBSET TaskId
  BY DEF FilesInv, TypeOK
<1>3. ASSUME NEW w \in Worker, NEW version \in {0, tasks[t].version}, ClaimTask(p, t, w, version)
      PROVE  FilesInv'
  <2>1. /\ UNCHANGED <<tasks, issued, expired, lock, seen, events>>
        /\ pc' = [pc EXCEPT ![p] = "waiting"]
        /\ req' = [req EXCEPT ![p] = [NoRequest EXCEPT !.op = "claim", !.task = t, !.who = w,
                                                       !.version = version]]
    BY <1>3 DEF ClaimTask
  <2>2. ASSUME NEW q \in Proc \ {p} PROVE InTurn(q)'
    <3>1. pc'[q] = pc[q] /\ req'[q] = req[q] /\ seen'[q] = seen[q]
      BY <2>1 DEF FilesInv, TypeOK
    <3>2. QED
      BY <2>1, <3>1, Untouched
  <2>3. InTurn(p)'
    <3>1. pc'[p] = "waiting" /\ req'[p].op = "claim" /\ req'[p].who = w
      BY <2>1 DEF FilesInv, TypeOK, NoRequest
    <3>2. QED
      BY <3>1 DEF InTurn
  <2>4. QED
    BY <2>1, <2>2, <2>3, QuietStep
<1>4. ASSUME NEW r \in Request, r.op # "claim", Decide(p, r) PROVE FilesInv'
  BY <1>4, DecideInv
<1>5. /\ \A k \in Nat, outcome \in Terminal :
           [NoRequest EXCEPT !.op = "finish", !.task = t, !.token = k, !.outcome = outcome].op # "claim"
      /\ \A k \in Nat : [NoRequest EXCEPT !.op = "release", !.task = t, !.token = k].op # "claim"
      /\ [NoRequest EXCEPT !.op = "reclaim", !.task = t].op # "claim"
      /\ \A deps \in SUBSET TaskId :
           [NoRequest EXCEPT !.op = "update", !.task = t, !.deps = deps].op # "claim"
  BY DEF NoRequest
<1>6. ASSUME NEW k \in 1..issued, NEW outcome \in Terminal, TransitionTaskStatus(p, t, k, outcome)
      PROVE  FilesInv'
  BY <1>2, <1>4, <1>5, <1>6, RequestType DEF TransitionTaskStatus
<1>7. ASSUME NEW k \in 1..issued, ReleaseTaskClaim(p, t, k) PROVE FilesInv'
  BY <1>2, <1>4, <1>5, <1>7, RequestType DEF ReleaseTaskClaim
<1>8. CASE ReclaimExpiredTaskClaim(p, t)
  BY <1>2, <1>4, <1>5, <1>8, RequestType DEF ReclaimExpiredTaskClaim
<1>9. ASSUME NEW deps \in Deps[t], UpdateTask(p, t, deps) PROVE FilesInv'
  BY <1>2, <1>4, <1>5, <1>9, RequestType DEF UpdateTask
<1>10. QED
  BY <1>1, <1>3, <1>6, <1>7, <1>8, <1>9

\* The steps that only announce the outcome, end a call or pass its lock on.
LEMMA EndInv ==
  ASSUME FilesInv, NEW p \in Proc, TypeOK',
         \/ GiveUp(p) \/ Announce(p) \/ Release(p) \/ ReleaseToMark(p)
         \/ ReadSnapshot(p) \/ WriteSnapshot(p) \/ Crash(p)
  PROVE  FilesInv'
<1> USE DEF GiveUp, Announce, Release, ReleaseToMark, ReadSnapshot, WriteSnapshot, Crash
<1>1. UNCHANGED <<tasks, issued, expired>>
  OBVIOUS
<1>2. /\ pc'[p] \in {"idle", "marking", "recording", "releasing"}
      /\ \A q \in Proc \ {p} : pc'[q] = pc[q] /\ req'[q] = req[q] /\ seen'[q] = seen[q]
  BY DEF Return, FilesInv, TypeOK
<1>3. \A q \in Proc \ {p}, t \in TaskId : lock[t] = q => lock'[t] = q
  BY DEF Unlock, FilesInv, TypeOK
<1>4. ASSUME NEW q \in Proc \ {p} PROVE InTurn(q)'
  <2>1. req[q].task \in TaskId
    BY DEF FilesInv, TypeOK, Request
  <2>2. QED
    BY <1>1, <1>2, <1>3, <2>1, Untouched
<1>5. InTurn(p)'
  <2>1. CASE Announce(p)
    <3>1. lock[req[p].task] = p /\ UNCHANGED <<lock, req>> /\ pc'[p] = "releasing"
      BY <2>1 DEF FilesInv, InTurn, TypeOK
    <3>2. QED
      BY <3>1 DEF InTurn
  <2>2. CASE ~Announce(p)
    <3>1. pc'[p] \in {"idle", "marking", "recording"}
      BY <2>2 DEF Return, FilesInv, TypeOK
    <3>2. QED
      BY <3>1 DEF InTurn
  <2>3. QED
    BY <2>1, <2>2
<1>6. QED
  BY <1>1, <1>4, <1>5, QuietStep

LEMMA FilesStep ==
  ASSUME LiveLocksBroken = FALSE, FilesInv, [Next]_taskVars
  PROVE  FilesInv'
<1>1. TypeOK'
  BY TypeStep DEF FilesInv
<1>2. ASSUME NEW t \in TaskId, NEW owner \in Worker \cup {"none"}, NEW deps \in Deps[t],
             CreateTask(t, owner, deps)
      PROVE  FilesInv'
  BY <1>1, <1>2, CreateInv
<1>3. ASSUME NEW p \in Proc, Call(p) PROVE FilesInv'
  BY <1>1, <1>3, CallInv
<1>4. ASSUME NEW p \in Proc, Step(p) PROVE FilesInv'
  <2>1. CASE ClaimUnderLock(p)
    <3>1. req[p] \in Request /\ req[p].who \in Worker
      BY <2>1 DEF ClaimUnderLock, FilesInv, TypeOK, InTurn
    <3>2. QED
      BY <2>1, <3>1, DecideInv DEF ClaimUnderLock
  <2>2. CASE WriteTask(p)
    BY <1>1, <2>2, WriteInv
  <2>3. CASE \/ GiveUp(p) \/ Announce(p) \/ Release(p) \/ ReleaseToMark(p)
             \/ ReadSnapshot(p) \/ WriteSnapshot(p)
    BY <1>1, <2>3, EndInv
  <2>4. QED
    BY <1>4, <2>1, <2>2, <2>3 DEF Step
<1>5. ASSUME NEW p \in Proc, Crash(p) PROVE FilesInv'
  BY <1>1, <1>5, EndInv
<1>6. ASSUME NEW t \in TaskId, ExpireLease(t) PROVE FilesInv'
  <2>1. /\ UNCHANGED <<tasks, issued, lock, pc, req, seen>>
        /\ expired \subseteq expired'
    BY <1>6 DEF ExpireLease
  <2>2. QED
    BY <1>1, <2>1, Untouched, QuietStep
<1>7. ASSUME NEW t \in TaskId, BreakStaleLock(t) PROVE FilesInv'
  <2>1. /\ lock[t] = "orphan"
        /\ lock' = [lock EXCEPT ![t] = "free"]
        /\ UNCHANGED <<tasks, issued, expired, pc, req, seen>>
    BY <1>7 DEF BreakStaleLock
  <2>2. ASSUME NEW q \in Proc PROVE InTurn(q)'
    <3>1. lock[req[q].task] = q => lock'[req[q].task] = q
      BY <2>1 DEF FilesInv, TypeOK, Request
    <3>2. QED
      BY <2>1, <3>1, Untouched
  <2>3. QED
    BY <1>1, <2>1, <2>2, QuietStep
<1>8. CASE UNCHANGED taskVars
  <2>1. UNCHANGED <<tasks, issued, expired, lock, pc, req, seen>>
    BY <1>8 DEF taskVars
  <2>2. QED
    BY <1>1, <2>1, Untouched, QuietStep
<1>9. QED
  BY <1>2, <1>3, <1>4, <1>5, <1>6, <1>7, <1>8 DEF Next

LEMMA FilesInit == Init => FilesInv
<1> SUFFICES ASSUME Init PROVE FilesInv
  OBVIOUS
<1>1. TypeOK
  BY NoFileType, NoRequestType, NoSnapshotType DEF Init, TypeOK, Stage
<1>2. ClaimsConsistent /\ AbsentIsEmpty
  BY DEF Init, ClaimsConsistent, AbsentIsEmpty, NoFile, NoClaim
<1>3. \A p \in Proc : InTurn(p)
  BY DEF Init, InTurn
<1>4. QED
  BY <1>1, <1>2, <1>3 DEF FilesInv

\* Which steps end a task, which announce it, and that no other step matters to either.
LEMMA OutcomeStep ==
  ASSUME FilesInv, Next
  PROVE  \/ \E p \in Proc : WriteTask(p)
         \/ \E p \in Proc : Announce(p)
         \/ /\ events' = events
            /\ \A q \in Proc : pc'[q] = "announcing" => pc[q] = "announcing" /\ req'[q] = req[q]
            /\ \A t \in TaskId : tasks[t].status \in Terminal => tasks'[t].status = tasks[t].status
<1> DEFINE Quiet ==
      /\ events' = events
      /\ \A q \in Proc : pc'[q] = "announcing" => pc[q] = "announcing" /\ req'[q] = req[q]
      /\ \A t \in TaskId : tasks[t].status \in Terminal => tasks'[t].status = tasks[t].status
<1>1. ASSUME NEW t \in TaskId, NEW owner \in Worker \cup {"none"}, NEW deps \in Deps[t],
             CreateTask(t, owner, deps)
      PROVE  Quiet
  <2>1. tasks[t] = NoFile /\ NoFile.status \notin Terminal
    BY <1>1 DEF CreateTask, FilesInv, AbsentIsEmpty, NoFile, Terminal
  <2>2. \A u \in TaskId \ {t} : tasks'[u] = tasks[u]
    BY <1>1 DEF CreateTask, FilesInv, TypeOK
  <2>3. UNCHANGED <<events, pc, req>>
    BY <1>1 DEF CreateTask
  <2>4. QED
    BY <2>1, <2>2, <2>3
<1>2. ASSUME NEW p \in Proc, NEW r, Decide(p, r) PROVE Quiet
  BY <1>2 DEF Decide, Accept, Refuse, Enter, FilesInv, TypeOK
<1>3. ASSUME NEW p \in Proc, Call(p) PROVE Quiet
  <2>1. ASSUME NEW t \in TaskId, NEW w \in Worker, NEW n, ClaimTask(p, t, w, n) PROVE Quiet
    BY <2>1 DEF ClaimTask, FilesInv, TypeOK
  <2> HIDE DEF Quiet
  <2>2. QED
    BY <1>2, <1>3, <2>1 DEF Call, TransitionTaskStatus, ReleaseTaskClaim,
                            ReclaimExpiredTaskClaim, UpdateTask
<1>4. ASSUME NEW p \in Proc, Step(p), ~WriteTask(p), ~Announce(p) PROVE Quiet
  <2>1. CASE ClaimUnderLock(p)
    BY <1>2, <2>1 DEF ClaimUnderLock
  <2>2. CASE GiveUp(p) \/ Release(p) \/ ReleaseToMark(p) \/ ReadSnapshot(p) \/ WriteSnapshot(p)
    BY <2>2 DEF GiveUp, Release, ReleaseToMark, ReadSnapshot, WriteSnapshot, Return,
                FilesInv, TypeOK
  <2>3. QED
    BY <1>4, <2>1, <2>2 DEF Step
<1>5. ASSUME NEW p \in Proc, Crash(p) PROVE Quiet
  BY <1>5 DEF Crash, Return, FilesInv, TypeOK
<1>6. ASSUME NEW t \in TaskId, ExpireLease(t) \/ BreakStaleLock(t) PROVE Quiet
  BY <1>6 DEF ExpireLease, BreakStaleLock
<1> HIDE DEF Quiet
<1>7. (\E p \in Proc : WriteTask(p)) \/ (\E p \in Proc : Announce(p)) \/ Quiet
  BY <1>1, <1>3, <1>4, <1>5, <1>6 DEF Next
<1>8. QED
  BY <1>7 DEF Quiet

LEMMA BoardStep ==
  ASSUME LiveLocksBroken = FALSE, BoardInv, [Next]_taskVars
  PROVE  BoardInv'
<1> DEFINE Silent(q) == pc[q] = "announcing" =>
             \A outcome \in Terminal : events[req[q].task][outcome] = 0
<1>1. FilesInv /\ FilesInv'
  BY FilesStep DEF BoardInv
<1>2. \A t \in TaskId, outcome \in Terminal :
        /\ events[t][outcome] \in Nat
        /\ events[t][outcome] # 0 => tasks[t].status = outcome
  <2>1. \A t \in TaskId, outcome \in Terminal : events[t][outcome] \in Nat
    BY <1>1 DEF FilesInv, TypeOK
  <2>2. QED
    BY <2>1 DEF BoardInv, AnnouncedOnce
<1>3. \A q \in Proc : req[q].task \in TaskId /\ req[q].outcome \in Terminal
  BY <1>1 DEF FilesInv, TypeOK, Request
<1>4. ASSUME NEW p \in Proc, WriteTask(p)
      PROVE  AnnouncedOnce' /\ \A q \in Proc : Silent(q)'
  <2>1. UNCHANGED <<events, req>> /\ pc' = [pc EXCEPT ![p] = IF req[p].op = "finish"
                                                             THEN "announcing" ELSE "releasing"]
    BY <1>4 DEF WriteTask
  <2>2. AnnouncedOnce'
    BY <1>1, <1>4, <2>1, FinalStays DEF BoardInv, AnnouncedOnce, Terminal
  <2>3. ASSUME req[p].op = "finish" PROVE Silent(p)'
    <3>1. tasks[req[p].task].status = "in_progress"
      BY <1>1, <1>4, <2>3, WriteResult DEF Entitled
    <3>2. QED
      BY <1>2, <1>3, <2>1, <3>1 DEF Terminal
  <2>4. QED
    BY <1>1, <2>1, <2>2, <2>3 DEF BoardInv, FilesInv, TypeOK
<1>5. ASSUME NEW p \in Proc, Announce(p)
      PROVE  AnnouncedOnce' /\ \A q \in Proc : Silent(q)'
  <2>1. /\ UNCHANGED <<tasks, req>>
        /\ pc[p] = "announcing"
        /\ pc' = [pc EXCEPT ![p] = "releasing"]
        /\ events' = [events EXCEPT ![req[p].task][req[p].outcome] = @ + 1]
    BY <1>5 DEF Announce
  <2>2. /\ tasks[req[p].task].status = req[p].outcome
        /\ \A outcome \in Terminal : events[req[p].task][outcome] = 0
    BY <1>1, <2>1 DEF BoardInv, FilesInv, InTurn
  <2>3. \A t \in TaskId, outcome \in Terminal :
          events'[t][outcome] =
            IF t = req[p].task /\ outcome = req[p].outcome THEN 1 ELSE events[t][outcome]
    BY <1>1, <1>3, <2>1, <2>2 DEF FilesInv, TypeOK
  <2>4. AnnouncedOnce'
    BY <1>3, <2>1, <2>2, <2>3 DEF BoardInv, AnnouncedOnce
  <2>5. ASSUME NEW q \in Proc \ {p}, pc[q] = "announcing" PROVE req[q].task # req[p].task
    BY <1>1, <2>1, <2>5, Exclusive
  <2>6. QED
    BY <1>1, <1>3, <2>1, <2>3, <2>4, <2>5 DEF BoardInv, FilesInv, TypeOK
<1>6. CASE /\ events' = events
           /\ \A q \in Proc : pc'[q] = "announcing" => pc[q] = "announcing" /\ req'[q] = req[q]
           /\ \A t \in TaskId : tasks[t].status \in Terminal => tasks'[t].status = tasks[t].status
  <2>1. AnnouncedOnce'
    BY <1>6 DEF BoardInv, AnnouncedOnce, Terminal
  <2>2. \A q \in Proc : Silent(q)'
    BY <1>6 DEF BoardInv
  <2>3. QED
    BY <1>1, <2>1, <2>2 DEF BoardInv
<1>7. CASE UNCHANGED taskVars
  BY <1>1, <1>7 DEF taskVars, BoardInv, AnnouncedOnce
<1>8. QED
  BY <1>1, <1>4, <1>5, <1>6, <1>7, OutcomeStep DEF BoardInv

LEMMA BoardInit == Init => BoardInv
<1>1. Init => AnnouncedOnce /\ \A p \in Proc : pc[p] # "announcing"
  BY DEF Init, AnnouncedOnce, NoFile
<1>2. QED
  BY <1>1, FilesInit DEF BoardInv

\* The inductive invariant holds in every reachable state.
THEOREM BoardCorrect ==
  ASSUME LiveLocksBroken = FALSE
  PROVE  Spec => []BoardInv
<1>1. Init => BoardInv
  BY BoardInit
<1>2. BoardInv /\ [Next]_taskVars => BoardInv'
  BY BoardStep
<1>3. QED
  BY <1>1, <1>2, PTL DEF Spec

\* Status, owner and claim of a task file agree in every reachable state, and no token is the
\* claim of two tasks, for any number of tasks, workers and concurrent calls.
THEOREM ClaimsAlwaysConsistent ==
  ASSUME LiveLocksBroken = FALSE
  PROVE  Spec => []ClaimsConsistent
<1>1. BoardInv => ClaimsConsistent
  BY DEF BoardInv, FilesInv
<1>2. QED
  BY <1>1, BoardCorrect, PTL

\* No call ever writes a task file over another call's write.
THEOREM NeverStaleWrite ==
  ASSUME LiveLocksBroken = FALSE
  PROVE  Spec => []NoStaleWrite
<1>1. BoardInv => NoStaleWrite
  BY DEF BoardInv, FilesInv, InTurn, NoStaleWrite
<1>2. QED
  BY <1>1, BoardCorrect, PTL

\* transitionTaskStatus announces one outcome per task, once, and the task keeps it.
THEOREM OutcomeAnnouncedOnce ==
  ASSUME LiveLocksBroken = FALSE
  PROVE  Spec => []AnnouncedOnce
<1>1. BoardInv => AnnouncedOnce
  BY DEF BoardInv
<1>2. QED
  BY <1>1, BoardCorrect, PTL

----------------------------------------------------------------------------
(* Leases. *)

\* The claim of a file changes only in the write of a call that is entitled to it.
LEMMA ClaimChange ==
  ASSUME FilesInv, Next, NEW t \in TaskId, tasks[t].claim # NoClaim,
         tasks'[t].claim # tasks[t].claim
  PROVE  \E p \in Proc : WriteTask(p) /\ req[p].task = t
<1>1. ASSUME NEW u \in TaskId, NEW owner \in Worker \cup {"none"}, NEW deps \in Deps[u],
             CreateTask(u, owner, deps)
      PROVE  FALSE
  <2>1. tasks[u] = NoFile /\ NoFile.claim = NoClaim
    BY <1>1 DEF CreateTask, FilesInv, AbsentIsEmpty, NoFile
  <2>2. tasks'[t] = tasks[t]
    BY <1>1, <2>1 DEF CreateTask, FilesInv, TypeOK
  <2>3. QED
    BY <2>2
<1>2. ASSUME tasks' = tasks PROVE FALSE
  BY <1>2
<1>3. ASSUME NEW p \in Proc, Call(p) PROVE FALSE
  <2>1. \A r : Decide(p, r) => tasks' = tasks
    BY DEF Decide, Accept, Refuse, Enter
  <2>2. tasks' = tasks
    BY <1>3, <2>1 DEF Call, ClaimTask, TransitionTaskStatus, ReleaseTaskClaim,
                      ReclaimExpiredTaskClaim, UpdateTask
  <2>3. QED
    BY <2>2, <1>2
<1>4. ASSUME NEW p \in Proc, Step(p), ~WriteTask(p) PROVE FALSE
  <2>1. tasks' = tasks
    BY <1>4 DEF Step, ClaimUnderLock, GiveUp, Announce, Release, ReleaseToMark, ReadSnapshot,
                WriteSnapshot, Decide, Accept, Refuse, Enter
  <2>2. QED
    BY <2>1, <1>2
<1>5. ASSUME NEW p \in Proc, Crash(p) PROVE FALSE
  BY <1>2, <1>5 DEF Crash
<1>6. ASSUME NEW u \in TaskId, ExpireLease(u) \/ BreakStaleLock(u) PROVE FALSE
  BY <1>2, <1>6 DEF ExpireLease, BreakStaleLock
<1>7. PICK p \in Proc : WriteTask(p)
  BY <1>1, <1>3, <1>4, <1>5, <1>6 DEF Next
<1>8. req[p].task = t
  BY <1>7, WriteResult
<1>9. QED
  BY <1>7, <1>8

LEMMA LeaseStep ==
  ASSUME FilesInv, Next, NEW t \in TaskId,
         tasks[t].claim # NoClaim,
         tasks[t].claim.token \notin expired,
         tasks'[t].claim # tasks[t].claim
  PROVE  \E p \in Proc : /\ pc[p] = "writing"
                         /\ req[p].task = t
                         /\ req[p].op \in {"finish", "release"}
                         /\ req[p].token = tasks[t].claim.token
<1>1. PICK p \in Proc : WriteTask(p) /\ req[p].task = t
  BY ClaimChange
<1>2. Entitled(req[p], tasks[t]) /\ req[p].op # "update"
  BY <1>1, WriteResult
<1>3. tasks[t].status = "in_progress"
  BY DEF FilesInv, ClaimsConsistent
<1>4. req[p].op \in {"finish", "release"} /\ req[p].token = tasks[t].claim.token
  BY <1>2, <1>3 DEF Entitled, LeaseExpired
<1>5. QED
  BY <1>1, <1>4 DEF WriteTask

\* A running lease is only ended by its holder's token, in every step of every behaviour.
THEOREM LeasesHonoured ==
  ASSUME LiveLocksBroken = FALSE
  PROVE  Spec => LeaseHonoured
<1> DEFINE Kept ==
      \A t \in TaskId :
        (/\ tasks[t].claim # NoClaim
         /\ tasks[t].claim.token \notin expired
         /\ tasks'[t].claim # tasks[t].claim)
        => \E p \in Proc : /\ pc[p] = "writing"
                           /\ req[p].task = t
                           /\ req[p].op \in {"finish", "release"}
                           /\ req[p].token = tasks[t].claim.token
<1>1. BoardInv /\ [Next]_taskVars => [Kept]_taskVars
  <2> SUFFICES ASSUME BoardInv, Next PROVE Kept
    OBVIOUS
  <2>1. QED
    BY LeaseStep DEF BoardInv
<1>2. Spec => [][Kept]_taskVars
  <2> HIDE DEF Kept
  <2>1. QED
    BY <1>1, BoardCorrect, PTL DEF Spec
<1>3. QED
  BY <1>2 DEF LeaseHonoured

----------------------------------------------------------------------------
(* TeamTasks implements TaskLifecycle. *)

\* Under the mapping a task's phase depends on nothing but its file.
LEMMA StutterStep ==
  ASSUME UNCHANGED <<tasks, issued, expired>>
  PROVE  UNCHANGED Lifecycle!lifecycleVars
  BY DEF Lifecycle!lifecycleVars, PhaseOf, Present

LEMMA CreateIsAdd ==
  ASSUME FilesInv, NEW t \in TaskId, NEW owner \in Worker \cup {"none"}, NEW deps \in Deps[t],
         CreateTask(t, owner, deps)
  PROVE  Lifecycle!Next
<1> DEFINE new == [NoFile EXCEPT !.owner = owner, !.version = 1, !.deps = deps]
<1>1. /\ tasks[t] = NoFile /\ ~Present(t)
      /\ tasks' = [tasks EXCEPT ![t] = new]
      /\ UNCHANGED <<issued, expired>>
      /\ deps \in SUBSET TaskId
  BY DEF CreateTask, FilesInv, AbsentIsEmpty
<1>2. /\ new.status = "pending" /\ new.claim = NoClaim /\ new.version = 1 /\ new.deps = deps
      /\ NoFile.claim = NoClaim
  BY DEF NoFile, NoClaim
<1>3. tasks'[t] = new /\ \A u \in TaskId \ {t} : tasks'[u] = tasks[u]
  BY <1>1 DEF FilesInv, TypeOK
<1> HIDE DEF new
<1>4. PhaseOf(t) = "absent" /\ PhaseOf(t)' = "open"
  BY <1>1, <1>2, <1>3 DEF PhaseOf, Present
<1>5. \A u \in TaskId \ {t} : PhaseOf(u)' = PhaseOf(u)
  BY <1>3 DEF PhaseOf, Present
<1>6. Lifecycle!Add(t, deps)
  <2>1. [u \in TaskId |-> PhaseOf(u)]' = [[u \in TaskId |-> PhaseOf(u)] EXCEPT ![t] = "open"]
    BY <1>4, <1>5
  <2>2. [u \in TaskId |-> tasks[u].claim.token]' = [u \in TaskId |-> tasks[u].claim.token]
    BY <1>1, <1>2, <1>3
  <2>3. [u \in TaskId |-> tasks[u].deps]' = [[u \in TaskId |-> tasks[u].deps] EXCEPT ![t] = deps]
    BY <1>2, <1>3
  <2>4. QED
    BY <1>1, <1>4, <2>1, <2>2, <2>3 DEF Lifecycle!Add
<1>7. QED
  BY <1>1, <1>6 DEF Lifecycle!Next

\* A write is the operation it was asked for.
LEMMA WriteImplements ==
  ASSUME FilesInv, NEW p \in Proc, WriteTask(p)
  PROVE  Lifecycle!Next
<1>0. PICK r \in Request, t \in TaskId : r = req[p] /\ t = r.task
  BY DEF FilesInv, TypeOK, Request
<1>1. /\ r \in Request /\ t \in TaskId /\ r.outcome \in Terminal /\ issued \in Nat
      /\ r.deps \in SUBSET TaskId /\ tasks[t].version \in Nat /\ NoClaim.token = 0
  BY <1>0 DEF FilesInv, TypeOK, Request, TaskFile, NoClaim
<1>2. expired' = expired /\ issued' = IF r.op = "claim" THEN issued + 1 ELSE issued
  BY <1>0 DEF WriteTask
<1>3. /\ Entitled(r, tasks[t])
      /\ tasks'[t].version = tasks[t].version + 1
      /\ \A u \in TaskId \ {t} : tasks'[u] = tasks[u]
  BY <1>0, WriteResult
<1>4. /\ r.op = "claim" =>
           /\ tasks'[t].status = "in_progress" /\ tasks'[t].owner = r.who
           /\ tasks'[t].claim = [owner |-> r.who, token |-> issued + 1]
      /\ r.op = "finish" => tasks'[t].status = r.outcome /\ tasks'[t].claim = NoClaim
      /\ r.op \in {"release", "reclaim"} => tasks'[t].status = "pending" /\ tasks'[t].claim = NoClaim
      /\ r.op = "update" => /\ tasks'[t].status = tasks[t].status /\ tasks'[t].claim = tasks[t].claim
                            /\ tasks'[t].deps = r.deps
      /\ r.op # "update" => tasks'[t].deps = tasks[t].deps
  BY <1>0, WriteResult
<1>5. r.op \in {"claim", "finish", "release", "reclaim", "update"}
  BY <1>1 DEF Request, Operation
<1>6. \A u \in TaskId \ {t} : PhaseOf(u)' = PhaseOf(u)
  BY <1>3 DEF PhaseOf, Present
<1>7. Present(t) /\ Present(t)'
  BY <1>1, <1>3 DEF Entitled, Present
<1>8. tasks[t].status = "in_progress" => PhaseOf(t) = "claimed"
  BY <1>7 DEF PhaseOf
<1>9. CASE r.op = "claim"
  <2>1. \/ PhaseOf(t) = "open"
        \/ PhaseOf(t) = "claimed" /\ tasks[t].claim.token \in expired
    BY <1>3, <1>7, <1>9 DEF Entitled, PhaseOf, LeaseExpired
  <2>2. \A d \in tasks[t].deps : PhaseOf(d) = "completed"
    BY <1>0, <1>3, <1>9 DEF Entitled, Ready, PhaseOf
  <2>3. \A d \in tasks[t].deps : d \in TaskId
    BY <1>1 DEF FilesInv, TypeOK, TaskFile
  <2>4. PhaseOf(t)' = "claimed"
    BY <1>4, <1>7, <1>9 DEF PhaseOf
  <2>5. /\ tasks'[t].claim.token = issued + 1
        /\ tasks'[t].deps = tasks[t].deps
        /\ issued' = issued + 1
    BY <1>2, <1>4, <1>9
  <2>6. Lifecycle!Claim(t)
    BY <1>1, <1>2, <1>3, <1>6, <2>1, <2>2, <2>3, <2>4, <2>5 DEF Lifecycle!Claim
  <2>7. QED
    BY <1>1, <2>6 DEF Lifecycle!Next
<1>10. CASE r.op = "finish"
  <2>1. PhaseOf(t) = "claimed" /\ PhaseOf(t)' = r.outcome
    BY <1>1, <1>3, <1>4, <1>7, <1>8, <1>10 DEF Entitled, PhaseOf, Terminal
  <2>2. tasks'[t].claim.token = 0 /\ tasks'[t].deps = tasks[t].deps /\ issued' = issued
    BY <1>1, <1>2, <1>4, <1>10
  <2>3. Lifecycle!Finish(t, r.outcome)
    BY <1>1, <1>2, <1>3, <1>6, <2>1, <2>2 DEF Lifecycle!Finish
  <2>4. QED
    BY <1>1, <2>3 DEF Lifecycle!Next, Terminal
<1>11. CASE r.op \in {"release", "reclaim"}
  <2>1. PhaseOf(t) = "claimed" /\ PhaseOf(t)' = "open"
    BY <1>3, <1>4, <1>7, <1>8, <1>11 DEF Entitled, PhaseOf
  <2>2. tasks'[t].claim.token = 0 /\ tasks'[t].deps = tasks[t].deps /\ issued' = issued
    BY <1>1, <1>2, <1>4, <1>11
  <2>3. Lifecycle!GiveBack(t)
    BY <1>1, <1>2, <1>3, <1>6, <2>1, <2>2 DEF Lifecycle!GiveBack
  <2>4. QED
    BY <1>1, <2>3 DEF Lifecycle!Next
<1>12. CASE r.op = "update"
  <2>1. PhaseOf(t) # "absent" /\ PhaseOf(t)' = PhaseOf(t)
    <3>1. tasks[t].status \in Status
      BY <1>1 DEF FilesInv, TypeOK, TaskFile
    <3>2. QED
      BY <1>4, <1>7, <1>12, <3>1 DEF PhaseOf, Status
  <2>2. /\ tasks'[t].claim = tasks[t].claim /\ tasks'[t].deps = r.deps
        /\ issued' = issued
    BY <1>2, <1>4, <1>12
  <2>3. Lifecycle!ChangeNeeds(t, r.deps)
    BY <1>1, <1>2, <1>3, <1>6, <2>1, <2>2 DEF Lifecycle!ChangeNeeds
  <2>4. QED
    BY <1>1, <2>3 DEF Lifecycle!Next
<1>13. QED
  BY <1>5, <1>9, <1>10, <1>11, <1>12

LEMMA ExpireIsLapse ==
  ASSUME FilesInv, NEW t \in TaskId, ExpireLease(t)
  PROVE  Lifecycle!Next
<1>1. tasks[t].claim.token \in 1..issued
  BY DEF ExpireLease, FilesInv, ClaimsConsistent
<1>2. UNCHANGED <<tasks, issued>> /\ expired' = expired \cup {tasks[t].claim.token}
  BY DEF ExpireLease
<1>3. Lifecycle!Lapse(tasks[t].claim.token)
  BY <1>1, <1>2 DEF Lifecycle!Lapse, PhaseOf, Present
<1>4. QED
  BY <1>1, <1>3 DEF Lifecycle!Next

LEMMA ImplementsStep ==
  ASSUME FilesInv, [Next]_taskVars
  PROVE  [Lifecycle!Next]_Lifecycle!lifecycleVars
<1>1. ASSUME NEW t \in TaskId, NEW owner \in Worker \cup {"none"}, NEW deps \in Deps[t],
             CreateTask(t, owner, deps)
      PROVE  Lifecycle!Next
  BY <1>1, CreateIsAdd
<1>2. ASSUME NEW p \in Proc, Call(p) PROVE UNCHANGED <<tasks, issued, expired>>
  <2>1. \A r : Decide(p, r) => UNCHANGED <<tasks, issued, expired>>
    BY DEF Decide, Accept, Refuse, Enter
  <2>2. QED
    BY <1>2, <2>1 DEF Call, ClaimTask, TransitionTaskStatus, ReleaseTaskClaim,
                      ReclaimExpiredTaskClaim, UpdateTask
<1>3. ASSUME NEW p \in Proc, Step(p), ~WriteTask(p) PROVE UNCHANGED <<tasks, issued, expired>>
  BY <1>3 DEF Step, ClaimUnderLock, GiveUp, Announce, Release, ReleaseToMark, ReadSnapshot,
              WriteSnapshot, Decide, Accept, Refuse, Enter
<1>4. ASSUME NEW p \in Proc, WriteTask(p) PROVE Lifecycle!Next
  BY <1>4, WriteImplements
<1>5. ASSUME NEW p \in Proc, Crash(p) PROVE UNCHANGED <<tasks, issued, expired>>
  BY <1>5 DEF Crash
<1>6. ASSUME NEW t \in TaskId, ExpireLease(t) PROVE Lifecycle!Next
  BY <1>6, ExpireIsLapse
<1>7. ASSUME NEW t \in TaskId, BreakStaleLock(t) PROVE UNCHANGED <<tasks, issued, expired>>
  BY <1>7 DEF BreakStaleLock
<1>8. CASE UNCHANGED taskVars
  BY <1>8, StutterStep DEF taskVars
<1>9. QED
  BY <1>1, <1>2, <1>3, <1>4, <1>5, <1>6, <1>7, <1>8, StutterStep DEF Next

\* Calls that overlap, time out or die half way look, to whoever reads task files, like the
\* atomic operations of TaskLifecycle.
THEOREM BoardImplementsLifecycle ==
  ASSUME LiveLocksBroken = FALSE
  PROVE  Spec => ImplementsLifecycle
<1>1. Init => Lifecycle!Init
  BY DEF Init, Lifecycle!Init, PhaseOf, Present, NoFile, NoClaim
<1>2. BoardInv /\ [Next]_taskVars => [Lifecycle!Next]_Lifecycle!lifecycleVars
  BY ImplementsStep DEF BoardInv
<1>3. QED
  BY <1>1, <1>2, BoardCorrect, PTL DEF Spec, ImplementsLifecycle, Lifecycle!Spec

----------------------------------------------------------------------------
(* The lock of a task, as HeldLock has it. *)

Acting == {"writing", "announcing", "releasing"}

\* A call that gets in takes the free lock of its task, and touches no other.
LEMMA DecideTakes ==
  ASSUME TypeOK, NEW p \in Proc, NEW r \in Request, pc[p] \in {"idle", "waiting"}, Decide(p, r),
         NEW t \in TaskId
  PROVE  [TaskLock(t)!Next]_(TaskLock(t)!heldVars)
<1> DEFINE users == {q \in Proc : pc[q] \in Acting /\ req[q].task = t}
<1>1. /\ lock[r.task] = "free" /\ lock' = [lock EXCEPT ![r.task] = p]
      /\ req' = [req EXCEPT ![p] = r]
      /\ \E s \in {"writing", "releasing"} : pc' = [pc EXCEPT ![p] = s]
  BY DEF Decide, Accept, Refuse, Enter
<1>2. /\ pc \in [Proc -> Stage] /\ req \in [Proc -> Request]
      /\ lock \in [TaskId -> Proc \cup {"free", "orphan"}] /\ r.task \in TaskId
  BY DEF TypeOK, Request
<1>3. p \notin users
  BY DEF Acting
<1>4. CASE r.task = t
  <2>1. lock[t] = "free" /\ lock'[t] = p /\ users' = users \cup {p}
    BY <1>1, <1>2, <1>4 DEF Acting
  <2> QED
    BY <2>1 DEF TaskLock!Next, TaskLock!Take, Acting
<1>5. CASE r.task # t
  <2>1. lock'[t] = lock[t] /\ users' = users
    BY <1>1, <1>2, <1>3, <1>5 DEF Acting
  <2> QED
    BY <2>1 DEF TaskLock!heldVars, Acting
<1> QED
  BY <1>4, <1>5

\* A call that is through gives back the lock it took; one that dies leaves it behind.
LEMMA EndGives ==
  ASSUME FilesInv, NEW p \in Proc, Release(p) \/ ReleaseToMark(p) \/ Crash(p), NEW t \in TaskId
  PROVE  [TaskLock(t)!Next]_(TaskLock(t)!heldVars)
<1> DEFINE users == {q \in Proc : pc[q] \in Acting /\ req[q].task = t}
<1>1. /\ pc \in [Proc -> Stage] /\ req \in [Proc -> Request] /\ req[p].task \in TaskId
      /\ lock \in [TaskId -> Proc \cup {"free", "orphan"}]
  BY DEF FilesInv, TypeOK, Request
<1>2. /\ \E s \in {"idle", "marking"} : pc' = [pc EXCEPT ![p] = s]
      /\ \A q \in Proc \ {p} : req'[q] = req[q]
  BY <1>1 DEF Release, ReleaseToMark, Crash, Return
<1>3. users' = users \ {p}
  BY <1>1, <1>2 DEF Acting
<1>4. CASE Crash(p)
  <2>1. lock' = [u \in TaskId |-> IF lock[u] = p THEN "orphan" ELSE lock[u]]
    BY <1>4 DEF Crash
  <2>2. CASE lock[t] = p
    <3>1. lock'[t] = "orphan"
      BY <2>1, <2>2
    <3> QED
      BY <1>3, <2>2, <3>1 DEF TaskLock!Next, TaskLock!Abandon, Acting
  <2>3. CASE lock[t] # p
    <3>1. lock'[t] = lock[t]
      BY <2>1, <2>3
    <3>2. p \notin users
      BY <2>3 DEF FilesInv, InTurn, Acting
    <3> QED
      BY <1>3, <3>1, <3>2 DEF TaskLock!heldVars, Acting
  <2> QED
    BY <2>2, <2>3
<1>5. CASE Release(p) \/ ReleaseToMark(p)
  <2>1. lock[req[p].task] = p /\ lock' = [lock EXCEPT ![req[p].task] = "free"]
    BY <1>5 DEF FilesInv, InTurn, Release, ReleaseToMark, Unlock
  <2>2. CASE req[p].task = t
    <3>1. lock[t] = p /\ lock'[t] = "free"
      BY <1>1, <2>1, <2>2
    <3> QED
      BY <1>3, <3>1 DEF TaskLock!Next, TaskLock!Give, Acting
  <2>3. CASE req[p].task # t
    <3>1. lock'[t] = lock[t] /\ p \notin users
      BY <1>1, <2>1, <2>3
    <3> QED
      BY <1>3, <3>1 DEF TaskLock!heldVars, Acting
  <2> QED
    BY <2>2, <2>3
<1> QED
  BY <1>4, <1>5

\* No other step has to do with locks, but the recovery of one whose user has died.
LEMMA LockUse ==
  ASSUME LiveLocksBroken = FALSE, FilesInv, [Next]_taskVars, NEW t \in TaskId
  PROVE  [TaskLock(t)!Next]_(TaskLock(t)!heldVars)
<1> DEFINE users == {q \in Proc : pc[q] \in Acting /\ req[q].task = t}
           Same == lock'[t] = lock[t] /\ users' = users
<1>1. TypeOK /\ pc \in [Proc -> Stage] /\ req \in [Proc -> Request]
  BY DEF FilesInv, TypeOK
<1>2. ASSUME Same PROVE [TaskLock(t)!Next]_(TaskLock(t)!heldVars)
  BY <1>2 DEF TaskLock!heldVars, Acting
<1>3. CASE UNCHANGED <<lock, pc, req>>
  BY <1>2, <1>3
<1>4. ASSUME NEW p \in Proc, Call(p) PROVE [TaskLock(t)!Next]_(TaskLock(t)!heldVars)
  <2>1. PICK u \in TaskId :
          \/ \E w \in Worker, version \in {0, tasks[u].version} : ClaimTask(p, u, w, version)
          \/ \E k \in 1..issued :
               \/ \E outcome \in Terminal : TransitionTaskStatus(p, u, k, outcome)
               \/ ReleaseTaskClaim(p, u, k)
          \/ ReclaimExpiredTaskClaim(p, u)
          \/ \E deps \in Deps[u] : UpdateTask(p, u, deps)
    BY <1>4 DEF Call
  <2>2. issued \in Nat /\ 1..issued \subseteq Nat /\ Deps[u] \subseteq SUBSET TaskId
    BY <1>1 DEF TypeOK
  <2>3. CASE \E w \in Worker, version \in {0, tasks[u].version} : ClaimTask(p, u, w, version)
    <3>1. /\ pc[p] = "idle" /\ pc' = [pc EXCEPT ![p] = "waiting"] /\ lock' = lock
          /\ \A q \in Proc \ {p} : req'[q] = req[q]
      BY <1>1, <2>3 DEF ClaimTask
    <3> QED
      BY <1>1, <1>2, <3>1 DEF Acting
  <2>4. CASE ~\E w \in Worker, version \in {0, tasks[u].version} : ClaimTask(p, u, w, version)
    <3>1. pc[p] = "idle" /\ \E r \in Request : Decide(p, r)
      BY <2>1, <2>2, <2>4, RequestType
      DEF TransitionTaskStatus, ReleaseTaskClaim, ReclaimExpiredTaskClaim, UpdateTask
    <3> QED
      BY <1>1, <3>1, DecideTakes
  <2> QED
    BY <2>3, <2>4
<1>5. ASSUME NEW p \in Proc, Step(p) \/ Crash(p) PROVE [TaskLock(t)!Next]_(TaskLock(t)!heldVars)
  <2>1. CASE ClaimUnderLock(p)
    BY <1>1, <2>1, DecideTakes DEF ClaimUnderLock
  <2>2. CASE Release(p) \/ ReleaseToMark(p) \/ Crash(p)
    BY <2>2, EndGives
  <2>3. CASE WriteTask(p) \/ Announce(p)
    <3>1. /\ pc[p] \in {"writing", "announcing"} /\ UNCHANGED <<lock, req>>
          /\ \E s \in {"announcing", "releasing"} : pc' = [pc EXCEPT ![p] = s]
      BY <2>3 DEF WriteTask, Announce
    <3> QED
      BY <1>1, <1>2, <3>1 DEF Acting
  <2>4. CASE GiveUp(p) \/ ReadSnapshot(p) \/ WriteSnapshot(p)
    <3>1. /\ pc[p] \in {"waiting", "marking", "recording"} /\ lock' = lock
          /\ \E s \in {"idle", "recording"} : pc' = [pc EXCEPT ![p] = s]
          /\ \A q \in Proc \ {p} : req'[q] = req[q]
      BY <1>1, <2>4 DEF GiveUp, ReadSnapshot, WriteSnapshot, Return
    <3> QED
      BY <1>1, <1>2, <3>1 DEF Acting
  <2> QED
    BY <1>5, <2>1, <2>2, <2>3, <2>4 DEF Step
<1>6. ASSUME NEW u \in TaskId, BreakStaleLock(u) PROVE [TaskLock(t)!Next]_(TaskLock(t)!heldVars)
  <2>1. lock[u] = "orphan" /\ lock' = [lock EXCEPT ![u] = "free"] /\ UNCHANGED <<pc, req>>
    BY <1>6 DEF BreakStaleLock
  <2>2. CASE u = t
    <3>1. lock[t] = "orphan" /\ lock'[t] = "free" /\ users' = users
      BY <1>1, <2>1, <2>2 DEF TypeOK
    <3> QED
      BY <3>1 DEF TaskLock!Next, TaskLock!Clear, Acting
  <2>3. CASE u # t
    BY <1>1, <1>2, <2>1, <2>3 DEF TypeOK
  <2> QED
    BY <2>2, <2>3
<1> QED
  BY <1>3, <1>4, <1>5, <1>6 DEF Next, CreateTask, ExpireLease, taskVars

\* Each task's lock starts free and is then used as a lock that HeldLock describes.
THEOREM LocksUsedAsPromised ==
  ASSUME LiveLocksBroken = FALSE
  PROVE  Spec => (\A t \in TaskId : TaskLock(t)!Init) /\ LocksUsedAsHeld
<1> DEFINE Use == \A t \in TaskId : [TaskLock(t)!Next]_(TaskLock(t)!heldVars)
<1>1. Init => \A t \in TaskId : TaskLock(t)!Init
  BY DEF Init, TaskLock!Init
<1>2. BoardInv /\ [Next]_taskVars => [Use]_taskVars
  BY LockUse DEF BoardInv
<1> QED
  BY <1>1, <1>2, BoardCorrect, PTL DEF Spec, LocksUsedAsHeld
=============================================================================
