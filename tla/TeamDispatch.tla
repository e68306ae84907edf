---------------------------- MODULE TeamDispatch ----------------------------
(***************************************************************************)
(* The dispatch queue of a team: requests to type a trigger text into a    *)
(* worker's tmux pane.  A sender (the leader handing out a task, scaleUp)  *)
(* queues a request and waits for a receipt.  Hooks, short-lived processes *)
(* that run at the end of an agent's turn and on the fallback watcher's    *)
(* tick, drain the queue: they lease pending requests, type the trigger,   *)
(* look whether the worker took it, and report.  A sender whose request    *)
(* has failed or is still pending when its time is up types the trigger    *)
(* itself.  A team may also be set to have its senders type at once, with  *)
(* no hook (direct).                                                       *)
(*                                                                         *)
(* With the runtime bridge on, the engine's log (RuntimeEngine) is what    *)
(* queues and marks requests, and dispatch.json is the view everybody      *)
(* reads; but transitions that go through JSON change the view alone, and  *)
(* every later exec writes the view again from the log.  With the bridge   *)
(* off, requests.json is all there is.                                     *)
(***************************************************************************)
EXTENDS Naturals, FiniteSetsExt

CONSTANTS
  Worker,           \* names a request can be to
  Purpose,          \* what correlation keys tell apart for one worker
  Issue,            \* what extractIssueKey may find in a trigger text
  IssueKey,         \* IssueKey[w]: what it finds in the one for w
  Sender,           \* processes that send instructions
  Hook,             \* processes that drain the queue
  MaxUnconfirmed,   \* MAX_UNCONFIRMED_ATTEMPTS (3)
  MaxRequests,      \* bound: requests queued
  MaxBridged,       \* bound: requests queued with the bridge on
  MaxMishaps        \* bound: hooks that die, leases and locks held too long by live ones

ASSUME HookAssumption == IsFiniteSet(Hook) /\ Hook \cap {"free", "orphan"} = {}
ASSUME IssueKeyAssumption == IssueKey \in [Worker -> Issue]
ASSUME DispatchBoundsAssumption ==
  MaxUnconfirmed \in Nat \ {0} /\ MaxRequests \in Nat
  /\ MaxBridged \in 0..MaxRequests /\ MaxMishaps \in Nat

VARIABLES
  bridge,    \* is the runtime bridge on?
  direct,    \* does the team's policy send past the hooks?
  log,       \* log[r]: the status the engine's log gives r
  file,      \* file[r]: r as everybody reads it
  address,   \* address[r]: what it asks for
  holder,    \* who made dispatch/.lock
  at,        \* at[s]: how far sender s is
  ticket,    \* ticket[s]: its request
  seen,      \* seen[s]: the status it read last
  ok,        \* ok[s]: could it tell the worker itself?
  stage,     \* stage[h]: how far hook h is
  claims,    \* claims[h]: requests it has leased and not yet been through
  copy,      \* copy[h]: the requests as h read them under the lock
  result,    \* result[h]: what came of its last injection
  lease,     \* lease[r]: who made dispatch/.processing-<r>
  robbed,    \* robbed[h]: leases taken from h
  grounds,   \* grounds[r]: the best evidence there has been that r's trigger arrived
  tries,     \* tries[r]: how often hooks injected it, counted without a bridge
  mishaps

settingVars == <<bridge, direct>>
queueVars == <<log, file, address, holder>>
senderVars == <<at, ticket, seen, ok>>
hookVars == <<stage, claims, copy, result, lease, robbed>>
historyVars == <<grounds, tries, mishaps>>
dispatchVars == <<settingVars, queueVars, senderVars, hookVars, historyVars>>

Id == 1..MaxRequests
Status == {"pending", "notified", "delivered", "failed"}

\* The record of a request, as far as it is read back: attempts count while it is pending.  A
\* request that is not there is "none".
Entry == [status: Status \cup {"none"}, attempts: Nat]
NoEntry == [status |-> "none", attempts |-> 0]
Fresh == [status |-> "pending", attempts |-> 0]

Address == [to: Worker, purpose: Purpose]

\* No evidence, a sender's own send that went well, or a hook that saw the text gone.
Grounds == {"none", "sent", "gone"}

SenderStage == {"off", "waiting", "typing", "marking", "reading", "patching", "answered"}
HookStage == {"off", "draining", "injecting", "reporting", "finalizing", "releasing"}

Queued == DOMAIN address
NoCopy == [r \in Id |-> NoEntry]

\* TEAM_DISPATCH_REQUEST_STATUS_TRANSITIONS, and patches of the same status.
CanTransition(from, to) ==
  \/ from = to
  \/ from = "pending" /\ to \in {"notified", "failed"}
  \/ from = "notified" /\ to \in {"delivered", "failed"}

\* Seeded fault: a count that is not in the log is missing in the view.
ViewOfBare(l) == [r \in Id |-> [status |-> l[r]]]

\* What an exec leaves in dispatch.json: the log's statuses, with the metadata QueueDispatch gave.
ViewOf(l) == [r \in Id |-> [NoEntry EXCEPT !.status = l[r]]]

\* transitionDispatchRequest on the entries f: nothing unless r is in from or to already.
Transitioned(f, r, from, to) ==
  LET now == f[r].status
  IN IF now \in {from, to} /\ now # to /\ CanTransition(now, to)
     THEN [f EXCEPT ![r] = [NoEntry EXCEPT !.status = to]] ELSE f

----------------------------------------------------------------------------
DispatchInit ==
  /\ bridge \in BOOLEAN /\ direct \in BOOLEAN
  /\ log = [r \in Id |-> "none"]
  /\ file = NoCopy
  /\ address = << >>
  /\ holder = "free"
  /\ at = [s \in Sender |-> "off"]
  /\ ticket = [s \in Sender |-> 0]
  /\ seen = [s \in Sender |-> "pending"]
  /\ ok = [s \in Sender |-> FALSE]
  /\ stage = [h \in Hook |-> "off"]
  /\ claims = [h \in Hook |-> {}]
  /\ copy = [h \in Hook |-> NoCopy]
  /\ result = [h \in Hook |-> "failed"]
  /\ lease = [r \in Id |-> "free"]
  /\ robbed = [h \in Hook |-> {}]
  /\ grounds = [r \in Id |-> "none"]
  /\ tries = [r \in Id |-> 0]
  /\ mishaps = 0

----------------------------------------------------------------------------
(* Sending an instruction. *)

\* equivalentPendingDispatch
Equivalent(w, purpose) ==
  {r \in Queued : file[r].status = "pending" /\ address[r] = [to |-> w, purpose |-> purpose]}

GoOn(s, next) == at' = [at EXCEPT ![s] = next]

Instructing(s, r, next) ==
  /\ GoOn(s, next)
  /\ ticket' = [ticket EXCEPT ![s] = r]

\* enqueueDispatchRequest, under the dispatch lock.
Enqueue(s, w, purpose) ==
  LET r == Cardinality(Queued) + 1
  IN /\ at[s] = "off" /\ holder = "free"
     /\ Equivalent(w, purpose) = {}
     /\ r \in Id /\ (bridge => r <= MaxBridged)
     /\ Instructing(s, r, IF direct THEN "typing" ELSE "waiting")
     /\ address' = [q \in Queued \cup {r} |->
                      IF q = r THEN [to |-> w, purpose |-> purpose] ELSE address[q]]
     /\ log' = IF bridge THEN [log EXCEPT ![r] = "pending"] ELSE log
     /\ file' = IF bridge THEN ViewOf(log') ELSE [file EXCEPT ![r] = Fresh]
     /\ UNCHANGED <<settingVars, holder, seen, ok, hookVars, historyVars>>

\* A duplicate is not queued: its sender waits for the receipt of the request that is there, or,
\* when typing is its own business, answers that it failed.
EnqueueDuplicate(s, w, purpose) ==
  LET same == Equivalent(w, purpose)
  IN /\ at[s] = "off" /\ holder = "free" /\ same # {}
     /\ IF direct THEN GoOn(s, "answered") /\ UNCHANGED ticket
                  ELSE Instructing(s, Min(same), "waiting")
     /\ UNCHANGED <<settingVars, queueVars, seen, ok, hookVars, historyVars>>

\* waitForDispatchReceipt: told if a hook or another sender has marked it, though one that
\* starts a worker may see no sign of it; otherwise, at once if it has failed and when the time
\* is up if it is pending, the sender types itself.
Receipt(s) ==
  LET now == file[ticket[s]].status
  IN /\ at[s] = "waiting"
     /\ \/ /\ now \in {"notified", "delivered"}
           /\ GoOn(s, "answered")
           /\ ok' = [ok EXCEPT ![s] = TRUE]
           /\ UNCHANGED seen
        \/ /\ now # "delivered"
           /\ GoOn(s, "typing")
           /\ seen' = [seen EXCEPT ![s] = now]
           /\ UNCHANGED ok
     /\ UNCHANGED <<settingVars, queueVars, ticket, hookVars, historyVars>>

\* The text is sent, and the send returns.  That is no proof that the worker took it: prompt mode
\* only writes to a pipe, and sendToWorker is "Fail-open by default", returning also when the
\* pane could not be read or still shows the draft.  The sender goes by it all the same, except
\* that a worker which is starting must show some sign, and may show none.  After a failed
\* receipt the leader reads the request again before it patches it, scaleUp does not.
TypeDirectly(s) ==
  /\ at[s] = "typing"
  /\ \/ /\ ok' = [ok EXCEPT ![s] = TRUE]
        /\ grounds' = [grounds EXCEPT ![ticket[s]] = IF @ = "none" THEN "sent" ELSE @]
        /\ \E next \in IF seen[s] = "failed" THEN {"reading", "patching"} ELSE {"marking"} : GoOn(s, next)
     \/ /\ ~direct /\ UNCHANGED <<ok, grounds>>
        /\ GoOn(s, IF seen[s] = "failed" THEN "patching" ELSE "reading")
  /\ UNCHANGED <<settingVars, queueVars, ticket, seen, hookVars, tries, mishaps>>

TypingFails(s) ==
  /\ at[s] = "typing"
  /\ GoOn(s, IF seen[s] = "failed" THEN "patching" ELSE "reading")
  /\ UNCHANGED <<settingVars, queueVars, ticket, seen, ok, hookVars, historyVars>>

\* markDispatchRequestNotified: the engine marks what it has as pending; what it refuses, and
\* everything without a bridge, is a transition under the lock.  For a failed request it gives
\* null, and the sender sees to the reason of the failure, after another read or at once.
MarkNotified(s) ==
  LET r == ticket[s]
      now == file[r].status
      byEngine == bridge /\ now = "pending" /\ log[r] = "pending"
      byTransition == now = "pending" /\ ~byEngine
  IN /\ at[s] = "marking"
     /\ byTransition => holder = "free"
     /\ log' = IF byEngine THEN [log EXCEPT ![r] = "notified"] ELSE log
     /\ file' = IF byEngine THEN ViewOf(log')
                ELSE IF byTransition THEN Transitioned(file, r, "pending", "notified") ELSE file
     /\ IF now = "failed" /\ ~direct
        THEN /\ \E next \in {"reading", "patching"} : GoOn(s, next)
             /\ seen' = [seen EXCEPT ![s] = "failed"]
        ELSE GoOn(s, "answered") /\ UNCHANGED seen
     /\ UNCHANGED <<settingVars, address, holder, ticket, ok, hookVars, historyVars>>

\* The status from which the request is to be made failed.
ReadCurrent(s) ==
  LET now == file[ticket[s]].status
  IN /\ at[s] = "reading"
     /\ seen' = [seen EXCEPT ![s] = now]
     /\ GoOn(s, IF now = "failed" \/ (direct /\ now # "pending") THEN "answered" ELSE "patching")
     /\ UNCHANGED <<settingVars, queueVars, ticket, ok, hookVars, historyVars>>

\* Seeded fault: the failure is not recorded.
PatchNothing(s) ==
  /\ at[s] = "patching" /\ holder = "free"
  /\ GoOn(s, "answered")
  /\ UNCHANGED <<settingVars, queueVars, ticket, seen, ok, hookVars, historyVars>>

\* transitionDispatchRequest(seen -> failed), whatever came of the sending.
PatchFailed(s) ==
  /\ at[s] = "patching" /\ holder = "free"
  /\ file' = Transitioned(file, ticket[s], seen[s], "failed")
  /\ GoOn(s, "answered")
  /\ UNCHANGED <<settingVars, log, address, holder, ticket, seen, ok, hookVars, historyVars>>

\* Somebody holds the dispatch lock until p's time for it is up.
KeepsFrom(p) ==
  \/ holder = "orphan" /\ UNCHANGED mishaps
  \/ holder \in Hook \ {p} /\ mishaps < MaxMishaps /\ mishaps' = mishaps + 1

\* A patch is given up, a mark throws.
LockTimesOut(s) ==
  /\ KeepsFrom(s)
  /\ \/ at[s] = "patching" /\ UNCHANGED ok
     \/ at[s] = "marking" /\ ok' = [ok EXCEPT ![s] = FALSE]
  /\ GoOn(s, "answered")
  /\ UNCHANGED <<settingVars, queueVars, ticket, seen, hookVars, grounds, tries>>

SenderReturns(s) ==
  /\ at[s] = "answered"
  /\ GoOn(s, "off")
  /\ ticket' = [ticket EXCEPT ![s] = 0]
  /\ seen' = [seen EXCEPT ![s] = "pending"]
  /\ ok' = [ok EXCEPT ![s] = FALSE]
  /\ UNCHANGED <<settingVars, queueVars, hookVars, historyVars>>

\* A sender holds nothing between its steps: one that dies just takes no more of them.
SenderStep(s) ==
  \/ \E w \in Worker, purpose \in Purpose : Enqueue(s, w, purpose) \/ EnqueueDuplicate(s, w, purpose)
  \/ Receipt(s) \/ TypeDirectly(s) \/ TypingFails(s)
  \/ MarkNotified(s) \/ ReadCurrent(s) \/ PatchFailed(s) \/ LockTimesOut(s)
  \/ SenderReturns(s)

----------------------------------------------------------------------------
(* Draining the queue. *)

KeyOf(r) == IssueKey[address[r].to]

\* drainPendingTeamDispatch, from here to DrainWrites, under the dispatch lock.  (With nothing
\* pending a drain changes nothing.)
DrainReads(h) ==
  /\ stage[h] = "off" /\ holder = "free"
  /\ \E r \in Queued : file[r].status = "pending"
  /\ holder' = h
  /\ copy' = [copy EXCEPT ![h] = file]
  /\ stage' = [stage EXCEPT ![h] = "draining"]
  /\ UNCHANGED <<settingVars, log, file, address, senderVars, claims, result, lease, robbed,
                 historyVars>>

\* Pending and for the hooks, not cooling down, and not leased, or only by a hook too late.
Claimable(f, r, late, cold) ==
  /\ r \in Queued /\ ~direct /\ f[r].status = "pending"
  /\ KeyOf(r) \notin cold
  /\ lease[r] \in {"free"} \cup late

\* In the order of the queue; each claim starts the cooldown of its issue for those behind it.
Claims(f, late, cold) ==
  {r \in Id : /\ Claimable(f, r, late, cold)
              /\ \A q \in 1..(r - 1) : Claimable(f, q, late, cold) => KeyOf(q) # KeyOf(r)}

\* The issues in cold were claimed too shortly before.  The hooks in late are alive, but their
\* leases are older than DISPATCH_REQUEST_LEASE_STALE_MS: all claims of a drain are leased at
\* once and injected in turn.  The requests go back to the files as they were read if anything
\* was claimed.
DrainWrites(h, late, cold) ==
  LET taken == Claims(copy[h], late, cold)
  IN /\ stage[h] = "draining"
     /\ \A g \in late : \E r \in taken : lease[r] = g
     /\ mishaps + Cardinality(late) <= MaxMishaps
     /\ mishaps' = mishaps + Cardinality(late)
     /\ holder' = "free"
     /\ stage' = [stage EXCEPT ![h] = IF taken = {} THEN "off" ELSE "injecting"]
     /\ claims' = [claims EXCEPT ![h] = taken]
     /\ lease' = [r \in Id |-> IF r \in taken THEN h ELSE lease[r]]
     /\ robbed' = [g \in Hook |-> IF g \in late THEN robbed[g] \cup {r \in taken : lease[r] = g} ELSE robbed[g]]
     /\ file' = IF taken = {} THEN file ELSE copy[h]
     /\ copy' = [copy EXCEPT ![h] = NoCopy]
     /\ UNCHANGED <<settingVars, log, address, senderVars, result, grounds, tries>>

\* The claim it is at: they are injected one after the other.
Current(h) == Min(claims[h])

\* injectDispatchRequest: no pane, the guard refuses, or tmux fails.
InjectionFails(h) ==
  /\ stage[h] = "injecting"
  /\ result' = [result EXCEPT ![h] = "failed"]
  /\ stage' = [stage EXCEPT ![h] = "reporting"]
  /\ UNCHANGED <<settingVars, queueVars, senderVars, claims, copy, lease, robbed, historyVars>>

\* The trigger is typed, and after the last round it is still there.
InjectUnconfirmed(h) ==
  /\ stage[h] = "injecting"
  /\ tries' = IF bridge THEN tries ELSE [tries EXCEPT ![Current(h)] = @ + 1]
  /\ result' = [result EXCEPT ![h] = "unconfirmed"]
  /\ stage' = [stage EXCEPT ![h] = "reporting"]
  /\ UNCHANGED <<settingVars, queueVars, senderVars, claims, copy, lease, robbed, grounds,
                 mishaps>>

\* The trigger is typed, and it is gone.  The engine is asked to mark the request delivered,
\* which it does only for a notified one.
InjectConfirmed(h) ==
  LET r == Current(h)
      accepted == bridge /\ log[r] = "notified"
  IN /\ stage[h] = "injecting"
     /\ tries' = IF bridge THEN tries ELSE [tries EXCEPT ![r] = @ + 1]
     /\ grounds' = [grounds EXCEPT ![r] = "gone"]
     /\ log' = IF accepted THEN [log EXCEPT ![r] = "delivered"] ELSE log
     /\ file' = IF accepted THEN ViewOf(log') ELSE file
     /\ result' = [result EXCEPT ![h] = "confirmed"]
     /\ stage' = [stage EXCEPT ![h] = "reporting"]
     /\ UNCHANGED <<settingVars, address, holder, senderVars, claims, copy, lease, robbed,
                    mishaps>>

\* Seeded fault: the claim is taken for the state of the request.
FinalizeReadsNothing(h) ==
  /\ stage[h] = "reporting" /\ holder = "free"
  /\ copy' = [copy EXCEPT ![h] = file]
  /\ holder' = h
  /\ stage' = [stage EXCEPT ![h] = "finalizing"]
  /\ UNCHANGED <<settingVars, log, file, address, senderVars, claims, result, lease, robbed,
                 historyVars>>

\* finalizeClaimedDispatchRequest, to FinalizeWrites: nothing is done to a request that is not
\* pending any more.
FinalizeReads(h) ==
  /\ stage[h] = "reporting" /\ holder = "free"
  /\ IF file[Current(h)].status = "pending"
     THEN /\ holder' = h
          /\ copy' = [copy EXCEPT ![h] = file]
          /\ stage' = [stage EXCEPT ![h] = "finalizing"]
     ELSE /\ stage' = [stage EXCEPT ![h] = "releasing"]
          /\ UNCHANGED <<holder, copy>>
  /\ UNCHANGED <<settingVars, log, file, address, senderVars, claims, result, lease, robbed,
                 historyVars>>

\* Seeded faults: an unconfirmed attempt is as good as a confirmed one in the end, or not counted.
OutcomeTrusting(res, attempts) ==
  CASE res = "confirmed" -> "notified"
    [] res = "unconfirmed" -> IF attempts < MaxUnconfirmed THEN "pending" ELSE "notified"
    [] res = "failed" -> "failed"

OutcomeUncounted(res, attempts) ==
  CASE res = "confirmed" -> "notified"
    [] res = "unconfirmed" -> IF attempts <= MaxUnconfirmed THEN "pending" ELSE "failed"
    [] res = "failed" -> "failed"

Outcome(res, attempts) ==
  CASE res = "confirmed" -> "notified"
    [] res = "unconfirmed" -> IF attempts < MaxUnconfirmed THEN "pending" ELSE "failed"
    [] res = "failed" -> "failed"

\* What comes of the request h is at, going by its copy.
Verdict(h) == Outcome(result[h], copy[h][Current(h)].attempts + 1)

\* The engine is told of an end, and writes its view.
LogTold(h) ==
  LET r == Current(h)
  IN IF bridge /\ Verdict(h) \notin {"pending", log[r]} /\ CanTransition(log[r], Verdict(h))
     THEN [log EXCEPT ![r] = Verdict(h)] ELSE log

\* Afterwards the hook writes its own copy.
FinalizeWrites(h) ==
  LET r == Current(h)
  IN /\ stage[h] = "finalizing"
     /\ log' = LogTold(h)
     /\ file' = [copy[h] EXCEPT ![r] =
                   [status |-> Verdict(h), attempts |-> IF Verdict(h) = "pending" THEN @.attempts + 1 ELSE 0]]
     /\ holder' = "free"
     /\ copy' = [copy EXCEPT ![h] = NoCopy]
     /\ stage' = [stage EXCEPT ![h] = "releasing"]
     /\ UNCHANGED <<settingVars, address, senderVars, claims, result, lease, robbed, historyVars>>

\* Seeded fault: the directory goes, whoever owns it.
VacateAny(h, rs) == [r \in Id |-> IF r \in rs THEN "free" ELSE lease[r]]

\* A lease directory goes only if the owner file in it is still the hook's.
Vacate(h, rs) == [r \in Id |-> IF r \in rs /\ lease[r] = h THEN "free" ELSE lease[r]]

\* What h is no longer at.
Drop(h, rs) ==
  /\ claims' = [claims EXCEPT ![h] = @ \ rs]
  /\ robbed' = [robbed EXCEPT ![h] = @ \ rs]
  /\ result' = [result EXCEPT ![h] = "failed"]
  /\ stage' = [stage EXCEPT ![h] = IF claims[h] \subseteq rs THEN "off" ELSE "injecting"]

ReleaseLease(h) ==
  /\ stage[h] = "releasing"
  /\ lease' = Vacate(h, {Current(h)})
  /\ Drop(h, {Current(h)})
  /\ UNCHANGED <<settingVars, queueVars, senderVars, copy, historyVars>>

\* The dispatch lock cannot be had in time: every lease is released, nothing reported.
HookThrows(h) ==
  /\ stage[h] = "reporting" /\ KeepsFrom(h)
  /\ lease' = Vacate(h, claims[h])
  /\ Drop(h, claims[h])
  /\ UNCHANGED <<settingVars, queueVars, senderVars, copy, grounds, tries>>

HookStep(h) ==
  \/ \E late \in SUBSET Hook, cold \in SUBSET Issue : DrainWrites(h, late, cold)
  \/ InjectionFails(h) \/ InjectUnconfirmed(h) \/ InjectConfirmed(h)
  \/ FinalizeReads(h) \/ FinalizeWrites(h) \/ ReleaseLease(h) \/ HookThrows(h)

\* A hook dies; in the middle of its report, before or after it has told the engine.  Its leases
\* are soon too old to count, long before the cooldown of their requests is over.
HookDies(h) ==
  /\ stage[h] # "off" /\ mishaps < MaxMishaps
  /\ \/ UNCHANGED <<log, file>>
     \/ /\ stage[h] = "finalizing" /\ LogTold(h) # log
        /\ log' = LogTold(h)
        /\ file' = ViewOf(log')
  /\ Drop(h, claims[h])
  /\ holder' = IF holder = h THEN "orphan" ELSE holder
  /\ lease' = Vacate(h, Id)
  /\ copy' = [copy EXCEPT ![h] = NoCopy]
  /\ mishaps' = mishaps + 1
  /\ UNCHANGED <<settingVars, address, senderVars, grounds, tries>>

----------------------------------------------------------------------------
(* Time passes, and others act. *)

\* DISPATCH_LOCK_STALE_MS: whoever waits for the lock of a dead hook removes it.
BreakDispatchLock ==
  /\ holder = "orphan"
  /\ holder' = "free"
  /\ UNCHANGED <<settingVars, log, file, address, senderVars, hookVars, historyVars>>

\* Any other exec of the engine (a mailbox message, a snapshot) writes the view from the log.
OtherExec ==
  /\ bridge
  /\ file' = ViewOf(log)
  /\ UNCHANGED <<settingVars, log, address, holder, senderVars, hookVars, historyVars>>

DispatchNext ==
  \/ \E s \in Sender : SenderStep(s)
  \/ \E h \in Hook : DrainReads(h) \/ HookStep(h) \/ HookDies(h)
  \/ BreakDispatchLock \/ OtherExec

DispatchSpec == DispatchInit /\ [][DispatchNext]_dispatchVars
----------------------------------------------------------------------------
(* Properties. *)

\* Every variable holds a value of its type.
DispatchTypeOK ==
  /\ bridge \in BOOLEAN /\ direct \in BOOLEAN
  /\ log \in [Id -> Status \cup {"none"}]
  /\ file \in [Id -> Entry]
  /\ Queued \subseteq Id /\ address \in [Queued -> Address]
  /\ holder \in Hook \cup {"free", "orphan"}
  /\ at \in [Sender -> SenderStage]
  /\ ticket \in [Sender -> Id \cup {0}]
  /\ seen \in [Sender -> Status]
  /\ ok \in [Sender -> BOOLEAN]
  /\ stage \in [Hook -> HookStage]
  /\ claims \in [Hook -> SUBSET Id]
  /\ copy \in [Hook -> [Id -> Entry]]
  /\ result \in [Hook -> {"failed", "unconfirmed", "confirmed"}]
  /\ lease \in [Id -> Hook \cup {"free"}]
  /\ robbed \in [Hook -> SUBSET Id]
  /\ grounds \in [Id -> Grounds]
  /\ tries \in [Id -> Nat]
  /\ mishaps \in 0..MaxMishaps

\* Nobody vouches for a trigger without grounds: the log, the view and everybody's copies call a
\* request notified only after a hook saw its text gone or a sender's own send went well, and
\* delivered only after a hook saw it; and a sender that answers that its instruction has arrived
\* has sent it or goes by such a request, whatever hooks and other senders do to it meanwhile.
\* (A send that went well may still not have been taken: see TypeDirectly.)
ReportsAreTrue ==
  /\ \A r \in Id :
       LET said == {file[r].status, log[r]} \cup {copy[h][r].status : h \in Hook}
       IN /\ "notified" \in said => grounds[r] # "none"
          /\ "delivered" \in said => grounds[r] = "gone"
  /\ \A s \in Sender : at[s] = "answered" /\ ok[s] => grounds[ticket[s]] # "none"

\* A sender that is back has settled its request: no hook starts on it any more.  Without a
\* bridge and without mishaps; a lock that times out leaves the request pending.
AnsweredMeansSettled ==
  \A s \in Sender :
    at[s] = "answered" /\ ticket[s] \in Id /\ ~bridge /\ mishaps = 0 => file[ticket[s]].status # "pending"

\* A failed request stays failed, as the contract says, unless only the view has heard of it:
\* no receipt, mark or report that comes late makes it pending or notified again.
FailedIsFinal ==
  [][\A r \in Id :
       file[r].status = "failed" /\ (~bridge \/ log[r] = "failed") => file'[r].status = "failed"
    ]_dispatchVars

\* What counts as the status of r: the engine's log with a bridge, the file without.
RequestStatus(r) == IF bridge THEN log[r] ELSE file[r].status

\* The status that counts moves along TEAM_DISPATCH_REQUEST_STATUS_TRANSITIONS, from pending on,
\* although a hook writes back all requests as it read them before a report.
StatusesMoveByTable ==
  [][\A r \in Id :
       IF RequestStatus(r) = "none" THEN RequestStatus(r)' \in {"none", "pending"}
       ELSE CanTransition(RequestStatus(r), RequestStatus(r)')]_dispatchVars

\* Two hooks are at the same request only when one has lost its lease for being too slow.
OneHookAtATime ==
  \A r \in Id, g \in Hook, h \in Hook :
    r \in claims[g] \ robbed[g] /\ r \in claims[h] \ robbed[h] => g = h

\* Hooks inject a trigger that is never confirmed MAX_UNCONFIRMED_ATTEMPTS times and once more
\* for each mishap, however drains, senders and reports interleave.
TriesBounded ==
  ~bridge => \A r \in Id : tries[r] <= MaxUnconfirmed + mishaps

----------------------------------------------------------------------------
\* dispatch/.lock, as HeldLock has it.
DispatchLock == INSTANCE HeldLock WITH
  Proc <- Hook,
  lock <- holder,
  users <- {h \in Hook : stage[h] \in {"draining", "finalizing"}}

\* Hooks use the dispatch lock as it is promised, wherever they die.
DispatchLockUsed == DispatchLock!Spec
=============================================================================
