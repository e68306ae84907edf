----------------------------- MODULE TeamPhase -----------------------------
(***************************************************************************)
(* The phase of a team: plan, prd, exec, verify, fix, and how it ends.     *)
(* Every poll of monitorTeam infers from the tasks it has listed where the *)
(* team should be, reads phase.json, walks the pipeline from there, and    *)
(* writes phase.json back, without a lock.  Polls of the background job    *)
(* and of "omx team status" overlap, and the stop hook writes the file too.*)
(*                                                                         *)
(* Of a task only what the phase depends on is kept; how it gets from open *)
(* to an end is TeamTasks.                                                 *)
(***************************************************************************)
EXTENDS Naturals, Sequences

CONSTANTS
  TaskId,           \* ids tasks can be created with
  Poller,           \* processes that run monitorTeam
  Job,              \* those that are the background job: they stop at a terminal phase
  Hook,             \* stop hooks that may find the transport dead
  MaxFixAttempts,   \* max_fix_attempts (3 in initTeamState)
  PromptMode        \* worker_launch_mode: prompt, or interactive panes

ASSUME JobAssumption == Job \subseteq Poller /\ Hook \cap Poller = {}
ASSUME AttemptsAssumption == MaxFixAttempts \in Nat
ASSUME ModeAssumption == PromptMode \in BOOLEAN

VARIABLES
  work,    \* work[t]: the task, as far as the phase goes
  dead,    \* are all workers dead?
  phase,   \* phase.json
  stage,   \* stage[m]: how far m's poll is
  view,    \* view[m]: the tasks as listed
  todo,    \* todo[m]: the files it has still to read
  gone,    \* gone[m]: did the poll find all workers dead?
  base,    \* base[m]: phase.json as read
  ended    \* ended[m]: how the job m ended

phaseVars == <<work, dead, phase, stage, view, todo, gone, base, ended>>

Phase == {"team-plan", "team-prd", "team-exec", "team-verify", "team-fix"}
TerminalPhase == {"complete", "failed", "cancelled"}

\* "unverified": completed, asks for a code change, and its result lacks the evidence.
Work == {"absent", "open", "failed", "unverified", "completed"}

PhaseState == [current: Phase \cup TerminalPhase, attempts: 0..MaxFixAttempts]
FirstPhase == [current |-> "team-exec", attempts |-> 0]

----------------------------------------------------------------------------
(* Where the team should be, and how to get there. *)

\* Seeded fault: a failed task counts as one that is over.
TargetIgnoringFailures(tasks) ==
  LET some(kind) == \E t \in TaskId : tasks[t] = kind
  IN IF some("open") THEN "team-exec"
     ELSE IF some("unverified") THEN "team-verify"
     ELSE "complete"

InferPhaseTarget(tasks) ==
  LET some(kind) == \E t \in TaskId : tasks[t] = kind
  IN IF some("open") THEN "team-exec"
     ELSE IF some("failed") THEN "team-fix"
     ELSE IF some("unverified") THEN "team-verify"
     ELSE "complete"

DeadWorkerStall(tasks, allDead) == PromptMode /\ allDead /\ \E t \in TaskId : tasks[t] = "open"

Target(tasks, allDead) ==
  IF DeadWorkerStall(tasks, allDead) THEN "failed" ELSE InferPhaseTarget(tasks)

ValidTransition ==
  {<<"team-plan", "team-prd">>, <<"team-prd", "team-exec">>, <<"team-exec", "team-verify">>}
    \cup ({"team-verify"} \X {"team-fix", "complete", "failed"})
    \cup ({"team-fix"} \X {"team-exec", "team-verify", "complete", "failed"})

\* Seeded fault: team-plan goes straight to team-exec.
ToExecAtOnce(from) ==
  IF from \in {"team-plan", "team-prd"} THEN <<"team-exec">> ELSE <<>>

\* From the start of the pipeline up to team-exec.
ToExec(from) ==
  CASE from = "team-plan" -> <<"team-prd", "team-exec">>
    [] from = "team-prd" -> <<"team-exec">>
    [] OTHER -> <<>>

\* Seeded fault: verified work is not taken to its end.
FromVerifyToFix(to) == IF to \in {"team-fix", "failed"} THEN <<to>> ELSE <<>>

\* No way leads back from team-verify to team-exec.
FromVerify(to) == IF to \in {"team-fix", "complete", "failed"} THEN <<to>> ELSE <<>>

FromFix(to) ==
  CASE to = "team-verify" -> <<"team-exec", to>>
    [] to \in {"team-exec", "complete", "failed"} -> <<to>>
    [] OTHER -> <<>>

FromStart(from, to) ==
  CASE to = "team-exec" -> ToExec(from)
    [] to = "team-verify" -> ToExec(from) \o <<to>>
    [] to \in {"team-fix", "complete", "failed"} -> ToExec(from) \o <<"team-verify", to>>
    [] OTHER -> <<>>

BuildTransitionPath(from, to) ==
  IF from = to THEN <<>>
  ELSE CASE from = "team-verify" -> FromVerify(to)
         [] from = "team-fix" -> FromFix(to)
         [] from \in {"team-plan", "team-prd", "team-exec"} -> FromStart(from, to)
         [] OTHER -> <<>>

\* transitionPhase throws on a transition that is not in the table.
Thrown == [current |-> "thrown", attempts |-> 0]

\* Seeded fault: one attempt too many.
TransitionBeyondLimit(s, to) ==
  IF <<s.current, to>> \notin ValidTransition THEN Thrown
  ELSE IF to # "team-fix" THEN [s EXCEPT !.current = to]
  ELSE IF s.attempts > MaxFixAttempts THEN [s EXCEPT !.current = "failed"]
  ELSE [current |-> to, attempts |-> s.attempts + 1]

TransitionPhase(s, to) ==
  IF <<s.current, to>> \notin ValidTransition THEN Thrown
  ELSE IF to # "team-fix" THEN [s EXCEPT !.current = to]
  ELSE IF s.attempts + 1 > MaxFixAttempts THEN [s EXCEPT !.current = "failed"]
  ELSE [current |-> to, attempts |-> s.attempts + 1]

\* A step that is already taken is skipped, and nothing follows a terminal phase.
Advance(at, next) ==
  IF at.current \in TerminalPhase \cup {next, "thrown"} THEN at ELSE TransitionPhase(at, next)

Walk(s, to) ==
  LET path == BuildTransitionPath(s.current, to)
      reached[n \in 0..Len(path)] == IF n = 0 THEN s ELSE Advance(reached[n - 1], path[n])
  IN reached[Len(path)]

\* reconcilePhaseStateForMonitor
Reconcile(s, to) ==
  IF s.current = to THEN s
  ELSE IF s.current \notin TerminalPhase THEN Walk(s, to)
  ELSE IF to \in TerminalPhase THEN s
  ELSE [current |-> to, attempts |-> 0]

----------------------------------------------------------------------------
Init ==
  /\ work = [t \in TaskId |-> "absent"]
  /\ dead = FALSE
  /\ phase = FirstPhase
  /\ stage = [m \in Poller \cup Hook |-> "off"]
  /\ view = [m \in Poller |-> [t \in TaskId |-> "absent"]]
  /\ todo = [m \in Poller |-> {}]
  /\ gone = [m \in Poller |-> FALSE]
  /\ base = [m \in Poller \cup Hook |-> FirstPhase]
  /\ ended = [m \in Job |-> "running"]

(* What happens to the tasks and the workers meanwhile. *)
CreateTask(t) ==
  /\ work[t] = "absent"
  /\ work' = [work EXCEPT ![t] = "open"]
  /\ UNCHANGED <<dead, phase, stage, view, todo, gone, base, ended>>

FinishTask(t, outcome) ==
  /\ work[t] = "open"
  /\ work' = [work EXCEPT ![t] = outcome]
  /\ UNCHANGED <<dead, phase, stage, view, todo, gone, base, ended>>

\* update-task may change requires_code_change of a task that is already completed.
ChangeRequirement(t) ==
  /\ work[t] \in {"completed", "unverified"}
  /\ work' = [work EXCEPT ![t] = IF @ = "completed" THEN "unverified" ELSE "completed"]
  /\ UNCHANGED <<dead, phase, stage, view, todo, gone, base, ended>>

WorkersDieOrReturn ==
  /\ dead' = ~dead
  /\ UNCHANGED <<work, phase, stage, view, todo, gone, base, ended>>

----------------------------------------------------------------------------
(* One poll. *)

\* The job starts polling when startTeam has created the first tasks.  The panes are looked at
\* before the last listing of the tasks, or, if there is only one, after it.
StartPoll(m) ==
  /\ stage[m] = "off"
  /\ m \in Job => ended[m] = "running" /\ \E t \in TaskId : work[t] # "absent"
  /\ stage' = [stage EXCEPT ![m] = "listing"]
  /\ todo' = [todo EXCEPT ![m] = TaskId]
  /\ gone' = [gone EXCEPT ![m] = dead]
  /\ UNCHANGED <<work, dead, phase, view, base, ended>>

ListTask(m, t) ==
  /\ stage[m] = "listing" /\ t \in todo[m]
  /\ view' = [view EXCEPT ![m][t] = work[t]]
  /\ todo' = [todo EXCEPT ![m] = @ \ {t}]
  /\ UNCHANGED <<work, dead, phase, stage, gone, base, ended>>

ScanWorkersLast(m) ==
  /\ stage[m] = "listing" /\ todo[m] = {}
  /\ gone' = [gone EXCEPT ![m] = dead]
  /\ UNCHANGED <<work, dead, phase, stage, view, todo, base, ended>>

ReadPhase(m) ==
  /\ stage[m] = "listing" /\ todo[m] = {}
  /\ base' = [base EXCEPT ![m] = phase]
  /\ stage' = [stage EXCEPT ![m] = "deciding"]
  /\ UNCHANGED <<work, dead, phase, view, todo, gone, ended>>

\* What the job makes of the phase its poll returns: it stops at a terminal one, and when its
\* panes are dead while work is left or in the fix phase.
OutcomeOf(m, current) ==
  IF current \in TerminalPhase THEN current
  ELSE IF /\ ~PromptMode /\ gone[m]
          /\ current = "team-fix" \/ \E t \in TaskId : view[m][t] = "open" THEN "failed"
  ELSE "running"

WritePhase(m) ==
  LET next == Reconcile(base[m], Target(view[m], gone[m]))
  IN /\ stage[m] = "deciding"
     /\ next # Thrown
     /\ phase' = next
     /\ stage' = [stage EXCEPT ![m] = "off"]
     /\ ended' = [j \in Job |-> IF j = m THEN OutcomeOf(m, next.current) ELSE ended[j]]
     /\ UNCHANGED <<work, dead, view, todo, gone, base>>

PollStep(m) ==
  \/ \E t \in TaskId : ListTask(m, t)
  \/ ReadPhase(m)
  \/ WritePhase(m)

(* markTeamTransportFailure: a stop hook finds the team's transport dead. *)
HookReads(h) ==
  /\ stage[h] = "off"
  /\ phase.current \in Phase
  /\ base' = [base EXCEPT ![h] = phase]
  /\ stage' = [stage EXCEPT ![h] = "deciding"]
  /\ UNCHANGED <<work, dead, phase, view, todo, gone, ended>>

HookWrites(h) ==
  /\ stage[h] = "deciding"
  /\ phase' = [base[h] EXCEPT !.current = "failed"]
  /\ stage' = [stage EXCEPT ![h] = "off"]
  /\ UNCHANGED <<work, dead, view, todo, gone, base, ended>>

Next ==
  \/ \E t \in TaskId : CreateTask(t) \/ ChangeRequirement(t)
  \/ \E t \in TaskId, outcome \in {"failed", "unverified", "completed"} : FinishTask(t, outcome)
  \/ WorkersDieOrReturn
  \/ \E m \in Poller : StartPoll(m) \/ PollStep(m) \/ ScanWorkersLast(m)
  \/ \E h \in Hook : HookReads(h) \/ HookWrites(h)

Spec == Init /\ [][Next]_phaseVars

\* The job's poll loop goes on until the job ends; nobody else has to poll.
FairSpec == Spec /\ \A m \in Job : WF_phaseVars(StartPoll(m)) /\ WF_phaseVars(PollStep(m))
----------------------------------------------------------------------------
(* Properties. *)

\* Every variable holds a value of its type; max_fix_attempts is never exceeded.
PhaseTypeOK ==
  /\ work \in [TaskId -> Work]
  /\ dead \in BOOLEAN
  /\ phase \in PhaseState
  /\ stage \in [Poller \cup Hook -> {"off", "listing", "deciding"}]
  /\ view \in [Poller -> [TaskId -> Work]]
  /\ todo \in [Poller -> SUBSET TaskId]
  /\ gone \in [Poller -> BOOLEAN]
  /\ base \in [Poller \cup Hook -> PhaseState]
  /\ ended \in [Job -> TerminalPhase \cup {"running"}]

\* Whatever phase.json says, whatever target the tasks of this moment call for and however many
\* fix attempts are used up, the path reconcilePhaseStateForMonitor walks has only steps
\* transitionPhase accepts: the poll does not throw before it has written its snapshot.
PathsLegal ==
  \A s \in PhaseState, allDead \in BOOLEAN : Reconcile(s, Target(work, allDead)) # Thrown

\* A team becomes complete only by a poll that found every task it listed finished, each of
\* which is finished still: not from a stale listing, a stale phase or a fix loop given up.
CompleteIsBacked ==
  [][(phase.current # "complete" /\ phase'.current = "complete") =>
       \E m \in Poller :
         /\ stage[m] = "deciding" /\ stage'[m] = "off"
         /\ \A t \in TaskId : view[m][t] # "absent" => work[t] \in {"completed", "unverified"}
    ]_phaseVars

\* The background job reports success only if no task it listed in its last poll has failed or
\* is still open.
JobSuccessBacked ==
  \A m \in Job : ended[m] = "complete" =>
    \A t \in TaskId : view[m][t] \notin {"open", "failed"}

\* With workers that stay alive, tasks that all end well end the background job, as a success,
\* whatever rounds of failing verification and new work went before.
JobEnds ==
  \A m \in Job :
    (/\ [](~dead)
     /\ <>[](/\ \E t \in TaskId : work[t] # "absent"
             /\ \A t \in TaskId : work[t] \in {"absent", "completed"}))
    => <>(ended[m] = "complete")

\* A team that has failed is taken up again only by a poll that found unfinished tasks.
ReopenedForOpenTasks ==
  [][(phase.current = "failed" /\ phase'.current # "failed") =>
       \E m \in Poller, t \in TaskId :
         stage[m] # stage'[m] /\ view[m][t] \in {"open", "unverified"}]_phaseVars
=============================================================================
