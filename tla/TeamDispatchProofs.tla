------------------------ MODULE TeamDispatchProofs ------------------------
(***************************************************************************)
(* Why the dispatch queue's reports can be believed although hooks write   *)
(* back copies of the whole queue, the engine writes its view over them,   *)
(* and leases are taken from hooks that still live; and why a trigger that *)
(* is never confirmed is typed only so often.  For any number of senders,  *)
(* hooks, requests and mishaps.                                            *)
(***************************************************************************)
EXTENDS TeamDispatch, TLAPS, FiniteSetTheorems, WellFoundedInduction

USE HookAssumption, IssueKeyAssumption, DispatchBoundsAssumption

----------------------------------------------------------------------------
(* The inductive invariant. *)

\* A hook at one of these has the dispatch lock and a copy of the queue.
Locking == {"draining", "finalizing"}

\* The requests that f speaks of are those that have been queued.
Fits(f) == \A r \in Id : f[r].status = "none" <=> r \notin Queued

\* Requests are numbered as they are queued, and are where they are looked for.
QueueKnown ==
  /\ \E n \in 0..MaxRequests : Queued = 1..n
  /\ Fits(file) /\ (bridge => Fits(ViewOf(log)))
  /\ \A h \in Hook : stage[h] \in Locking => Fits(copy[h])
  /\ \A s \in Sender : ticket[s] \in Queued \cup {0}
  /\ \A h \in Hook : claims[h] \subseteq Queued

\* A hook with a copy has the lock, and one that is past its drain has something to do.
HooksKnown ==
  \A h \in Hook :
    /\ stage[h] \in Locking => holder = h
    /\ stage[h] \in HookStage \ {"off", "draining"} => claims[h] # {}

\* A sender that is under way has a request, and one that is not has nothing.
SendersKnown ==
  \A s \in Sender :
    /\ at[s] = "off" => ticket[s] = 0 /\ seen[s] = "pending" /\ ~ok[s]
    /\ at[s] \notin {"off", "answered"} => ticket[s] # 0

\* Who has a lease has not been robbed of it.
LeasesKnown == \A h \in Hook : \A r \in claims[h] \ robbed[h] : lease[r] = h

\* The requests a hook saw gone, and those at least a sender's own send went well with.
Gone == {r \in Id : grounds[r] = "gone"}
Vouched == {r \in Id : grounds[r] # "none"}

\* Whoever will report something good has grounds to.
TruthKnown ==
  /\ ReportsAreTrue
  /\ \A s \in Sender : at[s] = "marking" \/ ok[s] => ticket[s] \in Vouched
  /\ \A h \in Hook :
       stage[h] \in {"reporting", "finalizing"} /\ result[h] = "confirmed" => Current(h) \in Gone

\* What a hook writes back over the queue: without a bridge nothing has changed since it read,
\* with one at least no failure has come into the log, and the request it reports on was pending.
CopiesKnown ==
  \A h \in Hook :
    /\ stage[h] \in Locking /\ ~bridge => copy[h] = file
    /\ stage[h] \in Locking /\ bridge => \A r \in Id : log[r] = "failed" => copy[h][r].status = "failed"
    /\ stage[h] = "finalizing" => copy[h][Current(h)].status = "pending"

\* The view knows the failures of the log.
FailuresKnown == bridge => \A r \in Id : log[r] = "failed" => file[r].status = "failed"

\* What a sender has read as settled stays settled.
SettledKnown ==
  /\ holder = "orphan" => mishaps # 0
  /\ \A s \in Sender :
       ~bridge /\ ticket[s] \in Id /\ seen[s] # "pending" => file[ticket[s]].status # "pending"
  /\ AnsweredMeansSettled

DispatchInv ==
  /\ DispatchTypeOK /\ QueueKnown /\ HooksKnown /\ SendersKnown /\ LeasesKnown
  /\ TruthKnown /\ CopiesKnown /\ FailuresKnown /\ SettledKnown

----------------------------------------------------------------------------
(* Types. *)

USE DEF settingVars, queueVars, senderVars, hookVars, historyVars, GoOn

\* A nonempty set of numbers has a least one.
LEMMA MinMember ==
  ASSUME NEW S \in SUBSET Nat, S # {}
  PROVE  Min(S) \in S
<1> DEFINE R == {ss \in Nat \X Nat : ss[1] < ss[2]}
<1>1. IsWellFoundedOn(R, Nat)
  BY NatLessThanWellFounded DEF OpToRel
<1>2. PICK x \in S : \A y \in S : ~ (<<y, x>> \in R)
  <2> HIDE DEF R
  <2> QED  BY <1>1, WFMin
<1>3. \A y \in S : x <= y
  <2> SUFFICES ASSUME NEW y \in S, ~ (x <= y) PROVE FALSE
    OBVIOUS
  <2>1. y < x /\ y \in Nat /\ x \in Nat
    OBVIOUS
  <2>2. <<y, x>> \in R
    BY <2>1
  <2> QED  BY <1>2, <2>2
<1> QED  BY <1>3 DEF Min

\* The number of the next request is one more than that of the last.
LEMMA NextNumber ==
  ASSUME QueueKnown, Cardinality(Queued) + 1 \in Id
  PROVE  \E n \in Nat : Queued = 1..n /\ Cardinality(Queued) = n /\ n + 1 \in Id \ Queued
<1>1. PICK n \in 0..MaxRequests : Queued = 1..n
  BY DEF QueueKnown
<1>2. Cardinality(1..n) = n
  BY FS_Interval
<1> QED  BY <1>1, <1>2

LEMMA IdsAreNumbers == Id \subseteq Nat /\ 0 \notin Id
  BY DEF Id

LEMMA CurrentKnown ==
  ASSUME DispatchInv, NEW h \in Hook, stage[h] \in HookStage \ {"off", "draining"}
  PROVE  Current(h) \in claims[h] /\ Current(h) \in Id
<1>1. claims[h] \in SUBSET Id /\ claims[h] # {}
  BY DEF DispatchInv, DispatchTypeOK, HooksKnown
<1>2. claims[h] \in SUBSET Nat
  BY <1>1 DEF Id
<1>3. Min(claims[h]) \in claims[h]
  BY <1>1, <1>2, MinMember
<1> QED  BY <1>1, <1>3 DEF Current

LEMMA NoEntryType == NoEntry \in Entry /\ Fresh \in Entry /\ NoCopy \in [Id -> Entry]
  BY DEF NoEntry, Fresh, Entry, NoCopy, Status

LEMMA ViewType ==
  ASSUME NEW l \in [Id -> Status \cup {"none"}]
  PROVE  /\ ViewOf(l) \in [Id -> Entry]
         /\ \A r \in Id : ViewOf(l)[r].status = l[r]
<1>1. \A r \in Id : [NoEntry EXCEPT !.status = l[r]] \in Entry /\ [NoEntry EXCEPT !.status = l[r]].status = l[r]
  BY DEF NoEntry, Entry
<1> QED  BY <1>1 DEF ViewOf

LEMMA TransitionedType ==
  ASSUME NEW f \in [Id -> Entry], NEW r \in Id, NEW from, NEW to \in Status
  PROVE  /\ Transitioned(f, r, from, to) \in [Id -> Entry]
         /\ \A q \in Id \ {r} : Transitioned(f, r, from, to)[q] = f[q]
         /\ Transitioned(f, r, from, to)[r].status \in {f[r].status, to}
         /\ f[r].status = from /\ CanTransition(from, to) => Transitioned(f, r, from, to)[r].status = to
         /\ f[r].status # from => Transitioned(f, r, from, to) = f
<1>1. [NoEntry EXCEPT !.status = to] \in Entry /\ [NoEntry EXCEPT !.status = to].status = to
  BY DEF NoEntry, Entry
<1> QED  BY <1>1 DEF Transitioned

\* The log is told of an end only, of the request the hook is at, and if that is news to it.
LEMMA VerdictType ==
  ASSUME DispatchInv, NEW h \in Hook
  PROVE  /\ Verdict(h) \in {"pending", "notified", "failed"}
         /\ Verdict(h) = "notified" => result[h] = "confirmed"
         /\ LogTold(h) \in [Id -> Status \cup {"none"}]
         /\ \A q \in Id :
              LogTold(h)[q] # log[q] => /\ bridge /\ q = Current(h) /\ LogTold(h)[q] = Verdict(h)
                                       /\ log[q] \in {"pending", "notified"}
                                       /\ CanTransition(log[q], Verdict(h))
<1>1. result[h] \in {"failed", "unconfirmed", "confirmed"} /\ log \in [Id -> Status \cup {"none"}]
  BY DEF DispatchInv, DispatchTypeOK
<1>2. /\ result[h] = "failed" => Verdict(h) = "failed"
      /\ result[h] = "unconfirmed" => Verdict(h) \in {"pending", "failed"}
      /\ result[h] = "confirmed" => Verdict(h) = "notified"
  BY DEF Verdict, Outcome
<1> QED  BY <1>1, <1>2 DEF LogTold, Status, CanTransition

LEMMA TypeStep == DispatchInv /\ [DispatchNext]_dispatchVars => DispatchTypeOK'
<1> SUFFICES ASSUME DispatchInv, [DispatchNext]_dispatchVars PROVE DispatchTypeOK'
  OBVIOUS
<1>t. DispatchTypeOK
  BY DEF DispatchInv
<1> USE NoEntryType DEF DispatchTypeOK, Queued
<1>1. ASSUME NEW s \in Sender, SenderStep(s) PROVE DispatchTypeOK'
  <2>q. /\ Queued \subseteq Id /\ ticket[s] \in Queued \cup {0}
        /\ at[s] \notin {"off", "answered"} => ticket[s] \in Id
    BY <1>t DEF DispatchInv, QueueKnown, SendersKnown
  <2> USE DEF SenderStage
  <2>1. ASSUME NEW w \in Worker, NEW purpose \in Purpose, Enqueue(s, w, purpose) PROVE DispatchTypeOK'
    <3> DEFINE r == Cardinality(Queued) + 1
    <3>1. r \in Id
      BY <2>1 DEF Enqueue
    <3>2. Queued' = Queued \cup {r} /\ address' \in [Queued' -> Address]
      <4>1. address' = [q \in Queued \cup {r} |-> IF q = r THEN [to |-> w, purpose |-> purpose] ELSE address[q]]
        BY <2>1 DEF Enqueue
      <4>2. [to |-> w, purpose |-> purpose] \in Address
        BY DEF Address
      <4> HIDE DEF r
      <4>3. \A q \in Queued : address[q] \in Address
        BY <1>t
      <4> QED  BY <4>1, <4>2, <4>3
    <3>3. log' \in [Id -> Status \cup {"none"}]
      BY <1>t, <2>1, <3>1 DEF Enqueue, Status
    <3>4. file' \in [Id -> Entry]
      BY <1>t, <2>1, <3>1, <3>3, ViewType DEF Enqueue
    <3>5. at' \in [Sender -> SenderStage] /\ ticket' \in [Sender -> Id \cup {0}]
      BY <1>t, <2>1, <3>1 DEF Enqueue, Instructing
    <3> HIDE DEF r
    <3> QED  BY <1>t, <2>1, <2>q, <3>1, <3>2, <3>3, <3>4, <3>5 DEF Enqueue
  <2>2. ASSUME NEW w \in Worker, NEW purpose \in Purpose, EnqueueDuplicate(s, w, purpose)
        PROVE  DispatchTypeOK'
    <3>1. Equivalent(w, purpose) \in SUBSET Id /\ Equivalent(w, purpose) # {}
      BY <1>t, <2>2 DEF Equivalent, EnqueueDuplicate
    <3>2. Min(Equivalent(w, purpose)) \in Id
      BY <3>1, MinMember DEF Id
    <3> QED  BY <1>t, <2>2, <3>2 DEF EnqueueDuplicate, Instructing
  <2>3. CASE Receipt(s)
    <3>1. ticket[s] \in Id
      BY <2>3, <2>q DEF Receipt
    <3>2. file[ticket[s]].status \in Status \cup {"none"}
      BY <1>t, <3>1 DEF Entry
    <3>3. file[ticket[s]].status # "none"
      BY <2>q, <3>1 DEF DispatchInv, QueueKnown, Fits, Id
    <3> QED  BY <1>t, <2>3, <3>2, <3>3 DEF Receipt, Status
  <2>4. CASE TypeDirectly(s)
    <3>1. \E next \in SenderStage : at' = [at EXCEPT ![s] = next]
      BY <2>4 DEF TypeDirectly, SenderStage
    <3>2. ok' = ok \/ ok' = [ok EXCEPT ![s] = TRUE]
      BY <2>4 DEF TypeDirectly
    <3>3. \/ grounds' = grounds
          \/ grounds' = [grounds EXCEPT ![ticket[s]] = IF @ = "none" THEN "sent" ELSE @]
      BY <2>4 DEF TypeDirectly
    <3>4. at' \in [Sender -> SenderStage] /\ ok' \in [Sender -> BOOLEAN]
      BY <1>t, <3>1, <3>2
    <3>5. grounds' \in [Id -> Grounds]
      BY <1>t, <3>3 DEF Grounds
    <3> QED  BY <1>t, <2>4, <3>4, <3>5 DEF TypeDirectly
  <2>5. CASE TypingFails(s) \/ SenderReturns(s)
    BY <1>t, <2>5 DEF TypingFails, SenderReturns, Status
  <2>9. CASE LockTimesOut(s)
    <3>1. mishaps' \in 0..MaxMishaps
      BY <1>t, <2>9 DEF LockTimesOut, KeepsFrom
    <3>2. ok' \in [Sender -> BOOLEAN] /\ at' \in [Sender -> SenderStage]
      BY <1>t, <2>9 DEF LockTimesOut
    <3> QED  BY <1>t, <2>9, <3>1, <3>2 DEF LockTimesOut
  <2>6. CASE MarkNotified(s)
    <3>1. ticket[s] \in Id
      BY <2>6, <2>q DEF MarkNotified
    <3>2. log' \in [Id -> Status \cup {"none"}]
      BY <1>t, <2>6 DEF MarkNotified, Status
    <3>3. Transitioned(file, ticket[s], "pending", "notified") \in [Id -> Entry]
      BY <1>t, <3>1, TransitionedType DEF Status
    <3>4. file' \in [Id -> Entry]
      BY <1>t, <2>6, <3>2, <3>3, ViewType DEF MarkNotified
    <3>5. at' \in [Sender -> SenderStage] /\ seen' \in [Sender -> Status]
      BY <1>t, <2>6 DEF MarkNotified, Status
    <3> QED  BY <1>t, <2>6, <3>2, <3>4, <3>5 DEF MarkNotified
  <2>7. CASE ReadCurrent(s)
    <3>1. ticket[s] \in Id /\ ticket[s] \in Queued
      BY <2>7, <2>q DEF ReadCurrent, Id
    <3>2. file[ticket[s]].status \in Status
      BY <1>t, <3>1 DEF DispatchInv, QueueKnown, Fits, Entry
    <3> QED  BY <1>t, <2>7, <3>2 DEF ReadCurrent
  <2>8. CASE PatchFailed(s)
    <3>1. Transitioned(file, ticket[s], seen[s], "failed") \in [Id -> Entry]
      BY <1>t, <2>8, <2>q, TransitionedType DEF PatchFailed, Status
    <3> QED  BY <1>t, <2>8, <3>1 DEF PatchFailed
  <2> QED  BY <1>1, <2>1, <2>2, <2>3, <2>4, <2>5, <2>6, <2>7, <2>8, <2>9 DEF SenderStep
<1>2. ASSUME NEW h \in Hook, HookDies(h) \/ HookStep(h) \/ DrainReads(h) PROVE DispatchTypeOK'
  <2>c. stage[h] \in HookStage \ {"off", "draining"} => Current(h) \in Id
    BY CurrentKnown
  <2>v. /\ Verdict(h) \in Status /\ LogTold(h) \in [Id -> Status \cup {"none"}]
        /\ ViewOf(LogTold(h)) \in [Id -> Entry]
    BY VerdictType, ViewType DEF Status
  <2> USE DEF HookStage
  <2>1. CASE DrainReads(h)
    BY <1>t, <2>1 DEF DrainReads
  <2>2. ASSUME NEW late \in SUBSET Hook, NEW cold \in SUBSET Issue, DrainWrites(h, late, cold)
        PROVE  DispatchTypeOK'
    <3> DEFINE taken == Claims(copy[h], late, cold)
    <3>1. taken \in SUBSET Id
      BY DEF Claims
    <3>2. Cardinality(late) \in Nat
      BY FS_Subset, FS_CardinalityType
    <3>3. mishaps' \in 0..MaxMishaps
      BY <1>t, <2>2, <3>2 DEF DrainWrites
    <3>4. robbed' \in [Hook -> SUBSET Id] /\ lease' \in [Id -> Hook \cup {"free"}]
      BY <1>t, <2>2, <3>1 DEF DrainWrites
    <3> HIDE DEF taken
    <3>5. /\ claims' \in [Hook -> SUBSET Id] /\ file' \in [Id -> Entry]
          /\ stage' \in [Hook -> HookStage] /\ copy' \in [Hook -> [Id -> Entry]]
      BY <1>t, <2>2, <3>1 DEF DrainWrites, taken
    <3> QED  BY <1>t, <2>2, <3>3, <3>4, <3>5 DEF DrainWrites
  <2>3. CASE InjectionFails(h) \/ InjectUnconfirmed(h)
    <3>1. tries' \in [Id -> Nat]
      <4>1. tries' = tries \/ tries' = [tries EXCEPT ![Current(h)] = @ + 1]
        BY <2>3 DEF InjectionFails, InjectUnconfirmed
      <4> QED  BY <1>t, <4>1
    <3> QED  BY <1>t, <2>3, <3>1 DEF InjectionFails, InjectUnconfirmed
  <2>4. CASE InjectConfirmed(h)
    <3>1. Current(h) \in Id
      BY <2>c, <2>4 DEF InjectConfirmed
    <3>2. tries' \in [Id -> Nat] /\ grounds' \in [Id -> Grounds]
      BY <1>t, <2>4, <3>1 DEF InjectConfirmed, Grounds
    <3>3. log' \in [Id -> Status \cup {"none"}]
      BY <1>t, <2>4, <3>1 DEF InjectConfirmed, Status
    <3>4. file' \in [Id -> Entry]
      BY <1>t, <2>4, <3>3, ViewType DEF InjectConfirmed
    <3> QED  BY <1>t, <2>4, <3>2, <3>3, <3>4 DEF InjectConfirmed
  <2>5. CASE FinalizeReads(h)
    <3>1. /\ holder' \in Hook \cup {"free", "orphan"} /\ copy' \in [Hook -> [Id -> Entry]]
          /\ stage' \in [Hook -> HookStage]
      <4>1. CASE file[Current(h)].status = "pending"
        <5>1. /\ holder' = h /\ copy' = [copy EXCEPT ![h] = file]
              /\ stage' = [stage EXCEPT ![h] = "finalizing"]
          BY <2>5, <4>1 DEF FinalizeReads
        <5>2. copy' \in [Hook -> [Id -> Entry]]
          BY <1>t, <5>1
        <5> QED  BY <1>t, <5>1, <5>2
      <4>2. CASE file[Current(h)].status # "pending"
        BY <1>t, <2>5, <4>2 DEF FinalizeReads
      <4> QED  BY <4>1, <4>2
    <3> QED  BY <1>t, <2>5, <3>1 DEF FinalizeReads
  <2>6. CASE FinalizeWrites(h)
    <3>1. Current(h) \in Id /\ copy[h] \in [Id -> Entry]
      BY <1>t, <2>c, <2>6 DEF FinalizeWrites
    <3>2. copy[h][Current(h)].attempts \in Nat
      BY <3>1 DEF Entry
    <3>3. [status |-> Verdict(h),
           attempts |-> IF Verdict(h) = "pending" THEN copy[h][Current(h)].attempts + 1 ELSE 0] \in Entry
      BY <2>v, <3>2 DEF Entry
    <3>4. file' \in [Id -> Entry]
      BY <2>6, <3>1, <3>3 DEF FinalizeWrites
    <3> QED  BY <1>t, <2>6, <2>v, <3>4 DEF FinalizeWrites
  <2>7. CASE ReleaseLease(h)
    BY <1>t, <2>7 DEF ReleaseLease, Vacate, Drop
  <2>8. CASE HookThrows(h)
    BY <1>t, <2>8 DEF HookThrows, KeepsFrom, Vacate, Drop
  <2>9. CASE HookDies(h)
    <3>1. mishaps' \in 0..MaxMishaps
      BY <1>t, <2>9 DEF HookDies
    <3>2. log' \in [Id -> Status \cup {"none"}] /\ file' \in [Id -> Entry]
      BY <1>t, <2>9, <2>v DEF HookDies
    <3>3. /\ lease' \in [Id -> Hook \cup {"free"}] /\ holder' \in Hook \cup {"free", "orphan"}
          /\ copy' \in [Hook -> [Id -> Entry]]
      BY <1>t, <2>9 DEF HookDies, Vacate
    <3>4. /\ claims' \in [Hook -> SUBSET Id] /\ robbed' \in [Hook -> SUBSET Id]
          /\ result' \in [Hook -> {"failed", "unconfirmed", "confirmed"}] /\ stage' \in [Hook -> HookStage]
      BY <1>t, <2>9 DEF HookDies, Drop
    <3> QED  BY <1>t, <2>9, <3>1, <3>2, <3>3, <3>4 DEF HookDies
  <2> QED  BY <1>2, <2>1, <2>2, <2>3, <2>4, <2>5, <2>6, <2>7, <2>8, <2>9 DEF HookStep
<1>3. CASE BreakDispatchLock
  BY <1>t, <1>3 DEF BreakDispatchLock
<1>4. CASE OtherExec
  BY <1>t, <1>4, ViewType DEF OtherExec
<1>5. CASE UNCHANGED dispatchVars
  BY <1>t, <1>5 DEF dispatchVars
<1> QED  BY <1>1, <1>2, <1>3, <1>4, <1>5 DEF DispatchNext

----------------------------------------------------------------------------
(* What a step leaves alone. *)

\* Senders hold nothing that hooks look at but the queue.
LEMMA SenderFrame ==
  ASSUME NEW s \in Sender, SenderStep(s)
  PROVE  UNCHANGED <<bridge, direct, holder, stage, claims, copy, result, lease, robbed>>
<1>1. CASE \E w \in Worker, purpose \in Purpose : Enqueue(s, w, purpose) \/ EnqueueDuplicate(s, w, purpose)
  BY <1>1 DEF Enqueue, EnqueueDuplicate
<1>2. CASE Receipt(s) \/ TypeDirectly(s) \/ TypingFails(s) \/ ReadCurrent(s)
  BY <1>2 DEF Receipt, TypeDirectly, TypingFails, ReadCurrent
<1>3. CASE MarkNotified(s)
  BY <1>3 DEF MarkNotified
<1>4. CASE PatchFailed(s) \/ LockTimesOut(s) \/ SenderReturns(s)
  BY <1>4 DEF PatchFailed, LockTimesOut, SenderReturns
<1> QED  BY <1>1, <1>2, <1>3, <1>4 DEF SenderStep

\* Their sends add to the grounds there are.
LEMMA SenderGrounds ==
  ASSUME DispatchTypeOK, NEW s \in Sender, SenderStep(s)
  PROVE  Vouched \subseteq Vouched' /\ Gone \subseteq Gone'
<1>1. grounds' = grounds \/ \E r : grounds' = [grounds EXCEPT ![r] = IF @ = "none" THEN "sent" ELSE @]
  <2>1. CASE TypeDirectly(s)
    BY <2>1 DEF TypeDirectly
  <2>2. CASE \E w \in Worker, purpose \in Purpose : Enqueue(s, w, purpose) \/ EnqueueDuplicate(s, w, purpose)
    BY <2>2 DEF Enqueue, EnqueueDuplicate
  <2>3. CASE Receipt(s) \/ TypingFails(s) \/ ReadCurrent(s) \/ MarkNotified(s) \/ PatchFailed(s)
    BY <2>3 DEF Receipt, TypingFails, ReadCurrent, MarkNotified, PatchFailed
  <2>4. CASE LockTimesOut(s) \/ SenderReturns(s)
    BY <2>4 DEF LockTimesOut, SenderReturns
  <2> QED  BY <2>1, <2>2, <2>3, <2>4 DEF SenderStep
<1> QED  BY <1>1 DEF Vouched, Gone, DispatchTypeOK

\* The steps of other senders do not move a sender.
LEMMA OtherSenders ==
  ASSUME DispatchTypeOK, NEW s \in Sender, SenderStep(s), NEW q \in Sender, q # s
  PROVE  UNCHANGED <<at[q], ticket[q], seen[q], ok[q]>>
<1> USE DEF DispatchTypeOK
<1>1. CASE \E w \in Worker, purpose \in Purpose : Enqueue(s, w, purpose) \/ EnqueueDuplicate(s, w, purpose)
  BY <1>1 DEF Enqueue, EnqueueDuplicate, Instructing
<1>2. CASE Receipt(s) \/ TypeDirectly(s) \/ TypingFails(s) \/ ReadCurrent(s)
  BY <1>2 DEF Receipt, TypeDirectly, TypingFails, ReadCurrent
<1>3. CASE MarkNotified(s)
  BY <1>3 DEF MarkNotified
<1>4. CASE PatchFailed(s) \/ LockTimesOut(s) \/ SenderReturns(s)
  BY <1>4 DEF PatchFailed, LockTimesOut, SenderReturns
<1> QED  BY <1>1, <1>2, <1>3, <1>4 DEF SenderStep

HookMoves(h) == DrainReads(h) \/ HookStep(h) \/ HookDies(h)

\* Hooks do not move senders or other hooks, but for what they rob them of.
LEMMA HookFrame ==
  ASSUME DispatchTypeOK, NEW h \in Hook, HookMoves(h)
  PROVE  /\ UNCHANGED <<bridge, direct, address, at, ticket, seen, ok>>
         /\ Vouched \subseteq Vouched' /\ Gone \subseteq Gone'
         /\ \A g \in Hook \ {h} : UNCHANGED <<stage[g], claims[g], copy[g], result[g]>>
<1> USE DEF DispatchTypeOK, Vouched, Gone
<1>1. CASE DrainReads(h)
  BY <1>1 DEF DrainReads
<1>2. ASSUME NEW late \in SUBSET Hook, NEW cold \in SUBSET Issue, DrainWrites(h, late, cold)
      PROVE  /\ UNCHANGED <<bridge, direct, address, at, ticket, seen, ok, grounds>>
             /\ \A g \in Hook \ {h} : UNCHANGED <<stage[g], claims[g], copy[g], result[g]>>
  BY <1>2 DEF DrainWrites
<1>3. CASE InjectionFails(h) \/ InjectUnconfirmed(h)
  BY <1>3 DEF InjectionFails, InjectUnconfirmed
<1>4. CASE InjectConfirmed(h)
  BY <1>4 DEF InjectConfirmed
<1>5. CASE FinalizeReads(h)
  BY <1>5 DEF FinalizeReads
<1>6. CASE FinalizeWrites(h)
  BY <1>6 DEF FinalizeWrites
<1>7. CASE ReleaseLease(h) \/ HookThrows(h) \/ HookDies(h)
  BY <1>7 DEF ReleaseLease, HookThrows, HookDies, Drop
<1> QED  BY <1>1, <1>2, <1>3, <1>4, <1>5, <1>6, <1>7 DEF HookMoves, HookStep

----------------------------------------------------------------------------
(* Locks and leases. *)

LEMMA HooksStep == DispatchInv /\ [DispatchNext]_dispatchVars => HooksKnown'
<1> DEFINE Known(g) == /\ stage[g] \in Locking => holder = g
                       /\ stage[g] \in HookStage \ {"off", "draining"} => claims[g] # {}
<1> SUFFICES ASSUME DispatchInv, [DispatchNext]_dispatchVars, NEW g \in Hook PROVE Known(g)'
  BY DEF HooksKnown
<1>t. DispatchTypeOK /\ Known(g) /\ g \notin {"free", "orphan"}
  BY DEF DispatchInv, HooksKnown
<1>1. ASSUME NEW s \in Sender, SenderStep(s) PROVE Known(g)'
  BY <1>1, <1>t, SenderFrame
<1>2. ASSUME NEW h \in Hook, HookMoves(h) PROVE Known(g)'
  <2>1. CASE g # h
    <3>1. stage'[g] = stage[g] /\ claims'[g] = claims[g]
      BY <1>2, <1>t, <2>1, HookFrame
    <3>2. stage[h] \in Locking \/ holder = "free" => stage[g] \notin Locking
      BY <1>t, <2>1 DEF DispatchInv, HooksKnown
    <3>3. holder' = holder \/ stage[h] \in Locking \/ holder \in {"free", h}
      BY <1>2 DEF HookMoves, DrainReads, HookStep, DrainWrites, InjectionFails, InjectUnconfirmed,
                  InjectConfirmed, FinalizeReads, FinalizeWrites, ReleaseLease, HookThrows, HookDies,
                  Locking
    <3> QED  BY <1>t, <2>1, <3>1, <3>2, <3>3
  <2>2. CASE g = h
    <3> USE <1>t, <2>2 DEF DispatchTypeOK, Locking, HookStage
    <3>1. CASE DrainReads(h)
      BY <3>1 DEF DrainReads
    <3>2. ASSUME NEW late \in SUBSET Hook, NEW cold \in SUBSET Issue, DrainWrites(h, late, cold)
          PROVE  Known(g)'
      BY <3>2 DEF DrainWrites
    <3>3. CASE InjectionFails(h) \/ InjectUnconfirmed(h) \/ InjectConfirmed(h)
      BY <3>3 DEF InjectionFails, InjectUnconfirmed, InjectConfirmed
    <3>4. CASE FinalizeReads(h)
      BY <3>4 DEF FinalizeReads
    <3>5. CASE FinalizeWrites(h)
      BY <3>5 DEF FinalizeWrites
    <3>6. CASE ReleaseLease(h) \/ HookThrows(h) \/ HookDies(h)
      BY <3>6 DEF ReleaseLease, HookThrows, HookDies, Drop
    <3> QED  BY <1>2, <3>1, <3>2, <3>3, <3>4, <3>5, <3>6 DEF HookMoves, HookStep
  <2> QED  BY <2>1, <2>2
<1>3. CASE BreakDispatchLock
  BY <1>3, <1>t DEF BreakDispatchLock
<1>4. CASE OtherExec \/ UNCHANGED dispatchVars
  BY <1>4, <1>t DEF OtherExec, dispatchVars
<1> QED  BY <1>1, <1>2, <1>3, <1>4 DEF DispatchNext, HookMoves

LEMMA LeasesStep == DispatchInv /\ [DispatchNext]_dispatchVars => LeasesKnown'
<1> SUFFICES ASSUME DispatchInv, [DispatchNext]_dispatchVars PROVE LeasesKnown'
  OBVIOUS
<1>t. DispatchTypeOK /\ LeasesKnown
  BY DEF DispatchInv
<1>1. CASE UNCHANGED <<claims, robbed, lease>>
  BY <1>1, <1>t DEF LeasesKnown
<1>2. ASSUME NEW s \in Sender, SenderStep(s) PROVE UNCHANGED <<claims, robbed, lease>>
  BY <1>2, SenderFrame
<1>3. ASSUME NEW h \in Hook, HookMoves(h) PROVE LeasesKnown'
  <2>1. CASE DrainReads(h) \/ InjectionFails(h) \/ InjectUnconfirmed(h) \/ InjectConfirmed(h)
    BY <1>1, <2>1 DEF DrainReads, InjectionFails, InjectUnconfirmed, InjectConfirmed
  <2>2. CASE FinalizeReads(h) \/ FinalizeWrites(h)
    BY <1>1, <2>2 DEF FinalizeReads, FinalizeWrites
  <2>3. ASSUME NEW late \in SUBSET Hook, NEW cold \in SUBSET Issue, DrainWrites(h, late, cold)
        PROVE  LeasesKnown'
    <3> DEFINE taken == Claims(copy[h], late, cold)
    <3>1. \A r \in taken : r \in Id /\ lease[r] \in {"free"} \cup late
      BY DEF Claims, Claimable
    <3> HIDE DEF taken
    <3>2. /\ claims' = [claims EXCEPT ![h] = taken]
          /\ lease' = [r \in Id |-> IF r \in taken THEN h ELSE lease[r]]
          /\ robbed' = [g \in Hook |->
                          IF g \in late THEN robbed[g] \cup {r \in taken : lease[r] = g} ELSE robbed[g]]
      BY <2>3 DEF DrainWrites, taken
    <3> SUFFICES ASSUME NEW g \in Hook, NEW r \in claims'[g] \ robbed'[g] PROVE lease'[r] = g
      BY DEF LeasesKnown
    <3>3. CASE g = h
      BY <1>t, <3>1, <3>2, <3>3 DEF DispatchTypeOK
    <3>4. CASE g # h
      <4>1. r \in claims[g] \ robbed[g] /\ r \in Id
        BY <1>t, <3>2, <3>4 DEF DispatchTypeOK
      <4>2. lease[r] = g /\ g \notin {"free", "orphan"}
        BY <1>t, <4>1 DEF LeasesKnown
      <4>3. r \notin taken
        BY <3>1, <3>2, <4>1, <4>2
      <4> QED  BY <3>2, <4>1, <4>2, <4>3
    <3> QED  BY <3>3, <3>4
  <2>4. CASE ReleaseLease(h) \/ HookThrows(h) \/ HookDies(h)
    <3>1. PICK rs : /\ claims' = [claims EXCEPT ![h] = @ \ rs] /\ robbed' = [robbed EXCEPT ![h] = @ \ rs]
                    /\ lease' = Vacate(h, rs) \/ (lease' = Vacate(h, Id) /\ rs = claims[h])
      BY <2>4 DEF ReleaseLease, HookThrows, HookDies, Drop
    <3> SUFFICES ASSUME NEW g \in Hook, NEW r \in claims'[g] \ robbed'[g] PROVE lease'[r] = g
      BY DEF LeasesKnown
    <3>2. r \in claims[g] \ robbed[g] /\ r \in Id /\ (g = h => r \notin rs)
      BY <1>t, <3>1 DEF DispatchTypeOK
    <3>3. lease[r] = g
      BY <1>t, <3>2 DEF LeasesKnown
    <3>4. CASE lease' = Vacate(h, rs)
      BY <3>2, <3>3, <3>4 DEF Vacate
    <3>5. CASE lease' = Vacate(h, Id) /\ rs = claims[h]
      BY <3>2, <3>3, <3>5 DEF Vacate
    <3> QED  BY <3>1, <3>4, <3>5
  <2> QED  BY <1>3, <2>1, <2>2, <2>3, <2>4 DEF HookMoves, HookStep
<1>4. CASE BreakDispatchLock \/ OtherExec \/ UNCHANGED dispatchVars
  BY <1>1, <1>4 DEF BreakDispatchLock, OtherExec, dispatchVars
<1> QED  BY <1>1, <1>2, <1>3, <1>4 DEF DispatchNext, HookMoves

----------------------------------------------------------------------------
(* Senders and the queue. *)

LEMMA SendersStep == DispatchInv /\ [DispatchNext]_dispatchVars => SendersKnown'
<1> DEFINE Known(q) == /\ at[q] = "off" => ticket[q] = 0 /\ seen[q] = "pending" /\ ~ok[q]
                       /\ at[q] \notin {"off", "answered"} => ticket[q] # 0
<1> SUFFICES ASSUME DispatchInv, [DispatchNext]_dispatchVars, NEW q \in Sender PROVE Known(q)'
  BY DEF SendersKnown
<1>t. DispatchTypeOK /\ Known(q)
  BY DEF DispatchInv, SendersKnown
<1>1. ASSUME NEW s \in Sender, SenderStep(s) PROVE Known(q)'
  <2>1. CASE q # s
    BY <1>1, <1>t, <2>1, OtherSenders
  <2>2. CASE q = s
    <3> USE <1>t, <2>2 DEF DispatchTypeOK
    <3>1. ASSUME NEW w \in Worker, NEW purpose \in Purpose, Enqueue(s, w, purpose) PROVE Known(q)'
      <4>1. Cardinality(Queued) + 1 # 0
        BY <3>1 DEF Enqueue, Id
      <4> QED  BY <3>1, <4>1 DEF Enqueue, Instructing
    <3>2. ASSUME NEW w \in Worker, NEW purpose \in Purpose, EnqueueDuplicate(s, w, purpose) PROVE Known(q)'
      <4>1. Equivalent(w, purpose) \in SUBSET Id /\ Equivalent(w, purpose) # {}
        BY <3>2 DEF Equivalent, EnqueueDuplicate
      <4>2. Equivalent(w, purpose) \in SUBSET Nat
        BY <4>1, IdsAreNumbers
      <4>3. Min(Equivalent(w, purpose)) \in Id
        BY <4>1, <4>2, MinMember
      <4>4. Min(Equivalent(w, purpose)) # 0
        BY <4>3, IdsAreNumbers
      <4> QED  BY <3>2, <4>4 DEF EnqueueDuplicate, Instructing
    <3>3. CASE Receipt(s) \/ TypeDirectly(s) \/ TypingFails(s) \/ ReadCurrent(s)
      BY <3>3 DEF Receipt, TypeDirectly, TypingFails, ReadCurrent
    <3>4. CASE MarkNotified(s)
      BY <3>4 DEF MarkNotified
    <3>5. CASE PatchFailed(s) \/ LockTimesOut(s) \/ SenderReturns(s)
      BY <3>5 DEF PatchFailed, LockTimesOut, SenderReturns
    <3> QED  BY <1>1, <3>1, <3>2, <3>3, <3>4, <3>5 DEF SenderStep
  <2> QED  BY <2>1, <2>2
<1>2. ASSUME NEW h \in Hook, HookMoves(h) PROVE Known(q)'
  BY <1>2, <1>t, HookFrame
<1>3. CASE BreakDispatchLock \/ OtherExec \/ UNCHANGED dispatchVars
  BY <1>3, <1>t DEF BreakDispatchLock, OtherExec, dispatchVars
<1> QED  BY <1>1, <1>2, <1>3 DEF DispatchNext, HookMoves

\* Queueing a request is what makes files speak of it, and nothing makes them forget one.
LEMMA QueueStep == DispatchInv /\ [DispatchNext]_dispatchVars => QueueKnown'
<1> SUFFICES ASSUME DispatchInv, [DispatchNext]_dispatchVars PROVE QueueKnown'
  OBVIOUS
<1>t. DispatchTypeOK /\ QueueKnown
  BY DEF DispatchInv
<1>v. \A l \in [Id -> Status \cup {"none"}], r \in Id : ViewOf(l)[r].status = l[r]
  BY ViewType
<1>l. bridge => \A r \in Id : log[r] = "none" <=> r \notin Queued
  <2>1. bridge => Fits(ViewOf(log))
    BY <1>t DEF QueueKnown
  <2>2. \A r \in Id : ViewOf(log)[r].status = log[r]
    BY <1>t, <1>v DEF DispatchTypeOK
  <2> QED  BY <2>1, <2>2 DEF Fits
<1>k. /\ \A r \in Id : file[r].status = "none" <=> r \notin Queued
      /\ \A s \in Sender : ticket[s] \in Queued \cup {0}
      /\ log \in [Id -> Status \cup {"none"}] /\ file \in [Id -> Entry]
  BY <1>t DEF QueueKnown, Fits, DispatchTypeOK
\* All but the first of its parts, if no request is queued.
<1>a. ASSUME UNCHANGED address, Fits(file)', bridge => Fits(ViewOf(log))',
             bridge' = bridge,
             \A h \in Hook : stage'[h] \in Locking => Fits(copy[h])',
             \A h \in Hook : claims'[h] \subseteq Queued,
             \A s \in Sender : ticket'[s] \in Queued \cup {0}
      PROVE  QueueKnown'
  BY <1>a, <1>t DEF QueueKnown, Queued
<1>1. ASSUME NEW s \in Sender, SenderStep(s) PROVE QueueKnown'
  <2>f. UNCHANGED <<bridge, holder, stage, claims, copy>>
    BY <1>1, SenderFrame
  <2>1. ASSUME NEW w \in Worker, NEW purpose \in Purpose, Enqueue(s, w, purpose) PROVE QueueKnown'
    <3>1. PICK n \in Nat : Queued = 1..n /\ Cardinality(Queued) = n /\ n + 1 \in Id \ Queued
      BY <1>t, <2>1, NextNumber DEF Enqueue
    <3>2. Queued' = Queued \cup {n + 1}
      BY <2>1, <3>1 DEF Enqueue, Queued
    <3>3. Queued' = 1..(n + 1) /\ n + 1 \in 0..MaxRequests
      BY <3>1, <3>2 DEF Id
    <3>4. \A h \in Hook : stage'[h] \notin Locking
      BY <2>1, <2>f DEF Enqueue, DispatchInv, HooksKnown
    <3>5. \A q \in Sender : ticket'[q] \in Queued' \cup {0}
      BY <1>t, <2>1, <3>1, <3>2 DEF Enqueue, Instructing, QueueKnown, DispatchTypeOK
    <3>6. CASE bridge
      <4>1. log' = [log EXCEPT ![n + 1] = "pending"] /\ file' = ViewOf(log')
        BY <2>1, <3>1, <3>6 DEF Enqueue
      <4>2. log' \in [Id -> Status \cup {"none"}]
        BY <1>t, <4>1 DEF DispatchTypeOK, Status
      <4>3. \A r \in Id : log'[r] = "none" <=> r \notin Queued'
        BY <1>k, <1>l, <3>1, <3>2, <3>6, <4>1
      <4>4. Fits(file)' /\ Fits(ViewOf(log))'
        BY <1>v, <4>1, <4>2, <4>3 DEF Fits
      <4> QED  BY <1>t, <2>f, <3>2, <3>3, <3>4, <3>5, <4>4 DEF QueueKnown
    <3>7. CASE ~bridge
      <4>1. file' = [file EXCEPT ![n + 1] = Fresh]
        BY <2>1, <3>1, <3>7 DEF Enqueue
      <4>2. Fits(file)'
        BY <1>t, <3>1, <3>2, <4>1 DEF Fits, QueueKnown, DispatchTypeOK, Fresh
      <4> QED  BY <1>t, <2>f, <3>2, <3>3, <3>4, <3>5, <3>7, <4>2 DEF QueueKnown
    <3> QED  BY <3>6, <3>7
  <2>2. ASSUME NEW w \in Worker, NEW purpose \in Purpose, EnqueueDuplicate(s, w, purpose) PROVE QueueKnown'
    <3>1. Equivalent(w, purpose) \in SUBSET Queued /\ Equivalent(w, purpose) # {} /\ Queued \subseteq Id
      BY <1>t, <2>2 DEF Equivalent, EnqueueDuplicate, DispatchTypeOK
    <3>2. Min(Equivalent(w, purpose)) \in Queued
      <4>1. Equivalent(w, purpose) \in SUBSET Nat
        BY <3>1, IdsAreNumbers
      <4> QED  BY <3>1, <4>1, MinMember
    <3>3. \A q \in Sender : ticket'[q] \in Queued \cup {0}
      BY <1>t, <2>2, <3>2 DEF EnqueueDuplicate, Instructing, QueueKnown, DispatchTypeOK
    <3> QED  BY <1>t, <2>2, <2>f, <3>3 DEF EnqueueDuplicate, QueueKnown, Fits, Queued
  <2>3. CASE Receipt(s) \/ TypeDirectly(s) \/ TypingFails(s) \/ ReadCurrent(s) \/ LockTimesOut(s)
    <3>1. UNCHANGED <<address, log, file, ticket>>
      BY <2>3 DEF Receipt, TypeDirectly, TypingFails, ReadCurrent, LockTimesOut
    <3> QED  BY <1>t, <2>f, <3>1 DEF QueueKnown, Fits, Queued
  <2>4. CASE MarkNotified(s)
    <3> DEFINE r == ticket[s]
    <3>1. r \in Id /\ UNCHANGED <<address, ticket>>
      BY <1>t, <2>4 DEF MarkNotified, DispatchInv, SendersKnown, DispatchTypeOK
    <3>2. CASE bridge /\ file[r].status = "pending" /\ log[r] = "pending"
      <4>1. log' = [log EXCEPT ![r] = "notified"] /\ file' = ViewOf(log')
        BY <2>4, <3>2 DEF MarkNotified
      <4>2. log' \in [Id -> Status \cup {"none"}]
        BY <1>t, <3>1, <4>1 DEF DispatchTypeOK, Status
      <4>3. \A q \in Id : log'[q] = "none" <=> q \notin Queued
        BY <1>k, <1>l, <3>1, <3>2, <4>1
      <4>4. Fits(file)' /\ Fits(ViewOf(log))'
        <5>1. Queued' = Queued
          BY <3>1 DEF Queued
        <5> QED  BY <1>v, <4>1, <4>2, <4>3, <5>1 DEF Fits
      <4> QED  BY <1>t, <1>a, <2>f, <3>1, <4>4 DEF QueueKnown, Fits, Queued
    <3>3. CASE ~(bridge /\ file[r].status = "pending" /\ log[r] = "pending")
      <4>1. log' = log /\ (file' = file \/ file' = Transitioned(file, r, "pending", "notified"))
        BY <2>4, <3>3 DEF MarkNotified
      <4>2. Fits(file)'
        <5>1. Queued' = Queued
          BY <3>1 DEF Queued
        <5>2. \A q \in Id : file'[q].status = "none" <=> file[q].status = "none"
          BY <1>k, <3>1, <4>1, TransitionedType DEF Status
        <5> QED  BY <1>k, <5>1, <5>2 DEF Fits
      <4> QED  BY <1>t, <1>a, <2>f, <3>1, <4>1, <4>2 DEF QueueKnown, Fits, Queued
    <3> QED  BY <3>2, <3>3
  <2>5. CASE PatchFailed(s)
    <3>1. ticket[s] \in Id /\ UNCHANGED <<address, ticket, log>>
      BY <1>t, <2>5 DEF PatchFailed, DispatchInv, SendersKnown, DispatchTypeOK
    <3>2. /\ file' = Transitioned(file, ticket[s], seen[s], "failed")
          /\ seen[s] # "none"
      BY <1>t, <2>5 DEF PatchFailed, DispatchTypeOK, Status
    <3>3. Fits(file)'
      <4>1. Queued' = Queued
        BY <3>1 DEF Queued
      <4>2. \A q \in Id : file'[q].status = "none" <=> file[q].status = "none"
        BY <1>k, <3>1, <3>2, TransitionedType DEF Status
      <4> QED  BY <1>k, <4>1, <4>2 DEF Fits
    <3> QED  BY <1>t, <1>a, <2>f, <3>1, <3>3 DEF QueueKnown, Fits, Queued
  <2>6. CASE SenderReturns(s)
    <3>1. UNCHANGED <<address, log, file>> /\ \A q \in Sender : ticket'[q] \in {ticket[q], 0}
      BY <1>t, <2>6 DEF SenderReturns, DispatchTypeOK
    <3> QED  BY <1>t, <2>f, <3>1 DEF QueueKnown, Fits, Queued
  <2> QED  BY <1>1, <2>1, <2>2, <2>3, <2>4, <2>5, <2>6 DEF SenderStep
<1>2. ASSUME NEW h \in Hook, HookMoves(h) PROVE QueueKnown'
  <2>f. /\ UNCHANGED <<bridge, address, ticket>> /\ Queued' = Queued
        /\ \A g \in Hook \ {h} : UNCHANGED <<stage[g], claims[g], copy[g]>>
    BY <1>2, <1>t, HookFrame DEF Queued
  <2>c. \A g \in Hook : (stage[g] \in Locking => Fits(copy[g])) /\ claims[g] \subseteq Queued
    BY <1>t DEF QueueKnown
\* It is enough to look at the files, and at the hook that moves.
  <2>a. ASSUME \A r \in Id : file'[r].status = "none" <=> r \notin Queued,
               bridge => \A r \in Id : log'[r] = "none" <=> r \notin Queued,
               log' \in [Id -> Status \cup {"none"}],
               stage'[h] \in Locking => \A r \in Id : copy'[h][r].status = "none" <=> r \notin Queued,
               claims'[h] \subseteq Queued
        PROVE  QueueKnown'
    <3>1. Fits(file)' /\ (bridge => Fits(ViewOf(log))')
      BY <1>v, <2>a, <2>f DEF Fits
    <3>2. ASSUME NEW g \in Hook PROVE (stage'[g] \in Locking => Fits(copy[g])') /\ claims'[g] \subseteq Queued
      <4>1. CASE g = h  BY <2>a, <2>f, <4>1 DEF Fits
      <4>2. CASE g # h  BY <2>c, <2>f, <4>2 DEF Fits
      <4> QED  BY <4>1, <4>2
    <3> QED  BY <1>a, <1>k, <2>f, <3>1, <3>2
  <2>1. CASE DrainReads(h)
    <3>1. /\ UNCHANGED <<log, file, claims>> /\ copy'[h] = file
      BY <1>t, <2>1 DEF DrainReads, DispatchTypeOK
    <3> QED  BY <1>k, <1>l, <2>a, <2>c, <3>1
  <2>2. ASSUME NEW late \in SUBSET Hook, NEW cold \in SUBSET Issue, DrainWrites(h, late, cold)
        PROVE  QueueKnown'
    <3>1. Claims(copy[h], late, cold) \subseteq Queued
      BY DEF Claims, Claimable
    <3>2. /\ log' = log /\ claims'[h] \subseteq Queued /\ stage'[h] \notin Locking
          /\ file' = file \/ file' = copy[h]
      BY <1>t, <2>2, <3>1 DEF DrainWrites, DispatchTypeOK, Locking
    <3>3. \A r \in Id : copy[h][r].status = "none" <=> r \notin Queued
      BY <2>2, <2>c DEF DrainWrites, Locking, Fits
    <3> QED  BY <1>k, <1>l, <2>a, <3>2, <3>3
  <2>3. CASE InjectionFails(h) \/ InjectUnconfirmed(h)
    <3>1. UNCHANGED <<log, file, claims>> /\ stage'[h] \notin Locking
      BY <1>t, <2>3 DEF InjectionFails, InjectUnconfirmed, DispatchTypeOK, Locking
    <3> QED  BY <1>k, <1>l, <2>a, <2>c, <3>1
  <2>4. CASE InjectConfirmed(h)
    <3>1. Current(h) \in Id /\ claims' = claims /\ stage'[h] \notin Locking
      BY <1>t, <2>4, CurrentKnown DEF InjectConfirmed, DispatchTypeOK, Locking, HookStage
    <3>2. CASE bridge /\ log[Current(h)] = "notified"
      <4>1. log' = [log EXCEPT ![Current(h)] = "delivered"] /\ file' = ViewOf(log')
        BY <2>4, <3>2 DEF InjectConfirmed
      <4>2. log' \in [Id -> Status \cup {"none"}] /\ \A r \in Id : log'[r] = "none" <=> r \notin Queued
        BY <1>k, <1>l, <3>1, <3>2, <4>1 DEF Status
      <4>3. \A r \in Id : file'[r].status = log'[r]
        BY <1>v, <4>1, <4>2
      <4> QED  BY <2>a, <2>c, <3>1, <4>2, <4>3
    <3>3. CASE ~(bridge /\ log[Current(h)] = "notified")
      <4>1. UNCHANGED <<log, file>>
        BY <2>4, <3>3 DEF InjectConfirmed
      <4> QED  BY <1>k, <1>l, <2>a, <2>c, <3>1, <4>1
    <3> QED  BY <3>2, <3>3
  <2>5. CASE FinalizeReads(h)
    <3>1. /\ UNCHANGED <<log, file, claims>>
          /\ stage'[h] \in Locking => copy'[h] = file
      BY <1>t, <2>5 DEF FinalizeReads, DispatchTypeOK, Locking
    <3> QED  BY <1>k, <1>l, <2>a, <2>c, <3>1
\* What the log is told says no more and no less than the log.
  <2>l. /\ LogTold(h) \in [Id -> Status \cup {"none"}]
        /\ bridge => \A r \in Id : LogTold(h)[r] = "none" <=> r \notin Queued
    <3>1. \A r \in Id : LogTold(h)[r] = log[r] \/ (LogTold(h)[r] # "none" /\ log[r] # "none")
      BY VerdictType
    <3> QED  BY <1>l, <3>1, VerdictType
  <2>6. CASE FinalizeWrites(h)
    <3>1. log' = LogTold(h) /\ claims' = claims /\ stage'[h] \notin Locking
      BY <1>t, <2>6 DEF FinalizeWrites, DispatchTypeOK, Locking
    <3>2. \A r \in Id : copy[h][r].status = "none" <=> r \notin Queued
      BY <2>6, <2>c DEF FinalizeWrites, Locking, Fits
    <3>3. Current(h) \in Id /\ Current(h) \in Queued /\ copy[h] \in [Id -> Entry]
      BY <1>t, <2>6, <2>c, CurrentKnown DEF FinalizeWrites, HookStage, DispatchTypeOK
    <3>4. /\ file'[Current(h)].status = Verdict(h)
          /\ \A r \in Id \ {Current(h)} : file'[r] = copy[h][r]
      BY <2>6, <3>3 DEF FinalizeWrites
    <3>5. Verdict(h) # "none"
      BY VerdictType
    <3> QED  BY <2>a, <2>c, <2>l, <3>1, <3>2, <3>3, <3>4, <3>5
  <2>7. CASE ReleaseLease(h) \/ HookThrows(h)
    <3>1. UNCHANGED <<log, file>> /\ claims'[h] \subseteq claims[h] /\ stage'[h] \notin Locking
      BY <1>t, <2>7 DEF ReleaseLease, HookThrows, Drop, DispatchTypeOK, Locking
    <3> QED  BY <1>k, <1>l, <2>a, <2>c, <3>1
  <2>8. CASE HookDies(h)
    <3>1. claims'[h] \subseteq claims[h] /\ stage'[h] \notin Locking
      BY <1>t, <2>8 DEF HookDies, Drop, DispatchTypeOK, Locking
    <3>2. CASE UNCHANGED <<log, file>>
      BY <1>k, <1>l, <2>a, <2>c, <3>1, <3>2
    <3>3. CASE LogTold(h) # log /\ log' = LogTold(h) /\ file' = ViewOf(log')
      <4>1. bridge
        BY <3>3 DEF LogTold
      <4>2. \A r \in Id : file'[r].status = log'[r]
        BY <1>v, <2>l, <3>3
      <4> QED  BY <2>a, <2>c, <2>l, <3>1, <3>3, <4>1, <4>2
    <3> QED  BY <2>8, <3>2, <3>3 DEF HookDies
  <2> QED  BY <1>2, <2>1, <2>2, <2>3, <2>4, <2>5, <2>6, <2>7, <2>8 DEF HookMoves, HookStep
<1>3. CASE OtherExec
  <2>1. UNCHANGED <<bridge, address, log, stage, claims, copy, ticket>> /\ bridge /\ file' = ViewOf(log)
    BY <1>3 DEF OtherExec
  <2> QED  BY <1>t, <2>1 DEF QueueKnown, Fits, Queued
<1>4. CASE BreakDispatchLock \/ UNCHANGED dispatchVars
  <2>1. UNCHANGED <<bridge, address, log, file, stage, claims, copy, ticket>>
    BY <1>4 DEF BreakDispatchLock, dispatchVars
  <2> QED  BY <1>t, <2>1 DEF QueueKnown, Fits, Queued
<1> QED  BY <1>1, <1>2, <1>3, <1>4 DEF DispatchNext, HookMoves

----------------------------------------------------------------------------
(* Who writes what into the log and the view. *)

\* A sender writes the view through the engine, or has the dispatch lock and changes one request.
LEMMA SenderWrites ==
  ASSUME DispatchInv, NEW s \in Sender, SenderStep(s)
  PROVE  \/ UNCHANGED <<log, file>>
         \/ /\ bridge /\ \A q \in Id : file'[q].status = log'[q]
            /\ \A q \in Id : log'[q] # log[q] =>
                 \/ log[q] = "none" /\ log'[q] = "pending"
                 \/ log[q] = "pending" /\ log'[q] = "notified" /\ q \in Vouched
         \/ /\ holder = "free" /\ log' = log
            /\ \A q \in Id : file'[q] # file[q] =>
                 \/ file[q].status = "none" /\ file'[q].status = "pending" /\ ~bridge
                 \/ file[q].status = "pending" /\ file'[q].status = "notified" /\ q \in Vouched
                 \/ CanTransition(file[q].status, "failed") /\ file'[q].status = "failed"
<1>t. DispatchTypeOK /\ QueueKnown
  BY DEF DispatchInv
<1>v. \A l \in [Id -> Status \cup {"none"}], r \in Id : ViewOf(l)[r].status = l[r]
  BY ViewType
<1>k. /\ log \in [Id -> Status \cup {"none"}] /\ file \in [Id -> Entry]
      /\ \A r \in Id : file[r].status = "none" <=> r \notin Queued
  BY <1>t DEF DispatchTypeOK, QueueKnown, Fits
<1>l. bridge => \A r \in Id : log[r] = "none" <=> r \notin Queued
  <2>1. bridge => Fits(ViewOf(log))
    BY <1>t DEF QueueKnown
  <2> QED  BY <1>k, <1>v, <2>1 DEF Fits
<1>1. ASSUME NEW w \in Worker, NEW purpose \in Purpose, Enqueue(s, w, purpose)
      PROVE  \/ /\ bridge /\ \A q \in Id : file'[q].status = log'[q]
                /\ \A q \in Id : log'[q] # log[q] => log[q] = "none" /\ log'[q] = "pending"
             \/ /\ holder = "free" /\ log' = log /\ ~bridge
                /\ \A q \in Id : file'[q] # file[q] => file[q].status = "none" /\ file'[q].status = "pending"
  <2>1. PICK n \in Nat : Queued = 1..n /\ Cardinality(Queued) = n /\ n + 1 \in Id \ Queued
    BY <1>t, <1>1, NextNumber DEF Enqueue
  <2>2. CASE bridge
    <3>1. log' = [log EXCEPT ![n + 1] = "pending"] /\ file' = ViewOf(log')
      BY <1>1, <2>1, <2>2 DEF Enqueue
    <3>2. log' \in [Id -> Status \cup {"none"}]
      BY <1>k, <3>1 DEF Status
    <3>3. \A q \in Id : log'[q] # log[q] => log[q] = "none" /\ log'[q] = "pending"
      BY <1>k, <1>l, <2>1, <2>2, <3>1
    <3> QED  BY <1>v, <2>2, <3>1, <3>2, <3>3
  <2>3. CASE ~bridge
    <3>1. file' = [file EXCEPT ![n + 1] = Fresh] /\ log' = log /\ holder = "free"
      BY <1>1, <2>1, <2>3 DEF Enqueue
    <3>2. \A q \in Id : file'[q] # file[q] => file[q].status = "none" /\ file'[q].status = "pending"
      BY <1>k, <2>1, <3>1 DEF Fresh
    <3> QED  BY <2>3, <3>1, <3>2
  <2> QED  BY <2>2, <2>3
<1>2. ASSUME NEW w \in Worker, NEW purpose \in Purpose, EnqueueDuplicate(s, w, purpose)
      PROVE  UNCHANGED <<log, file>>
  BY <1>2 DEF EnqueueDuplicate
<1>3. CASE Receipt(s) \/ TypeDirectly(s) \/ TypingFails(s) \/ ReadCurrent(s) \/ LockTimesOut(s)
  BY <1>3 DEF Receipt, TypeDirectly, TypingFails, ReadCurrent, LockTimesOut
<1>4. CASE MarkNotified(s)
  <2> DEFINE r == ticket[s]
  <2>1. r \in Id /\ r \in Vouched
    BY <1>t, <1>4 DEF MarkNotified, DispatchInv, SendersKnown, TruthKnown, DispatchTypeOK
  <2>2. CASE bridge /\ file[r].status = "pending" /\ log[r] = "pending"
    <3>1. log' = [log EXCEPT ![r] = "notified"] /\ file' = ViewOf(log')
      BY <1>4, <2>2 DEF MarkNotified
    <3>2. log' \in [Id -> Status \cup {"none"}]
      BY <1>k, <2>1, <3>1 DEF Status
    <3> QED  BY <1>k, <1>v, <2>1, <2>2, <3>1, <3>2
  <2>3. CASE ~(bridge /\ file[r].status = "pending" /\ log[r] = "pending") /\ file[r].status = "pending"
    <3>1. /\ log' = log /\ file' = Transitioned(file, r, "pending", "notified") /\ holder = "free"
      BY <1>4, <2>3 DEF MarkNotified
    <3>2. \A q \in Id : file'[q] # file[q] =>
            file[q].status = "pending" /\ file'[q].status = "notified" /\ q \in Vouched
      BY <1>k, <2>1, <3>1, TransitionedType DEF CanTransition, Status
    <3> QED  BY <3>1, <3>2
  <2>4. CASE file[r].status # "pending"
    BY <1>4, <2>4 DEF MarkNotified
  <2> QED  BY <2>2, <2>3, <2>4
<1>5. CASE PatchFailed(s)
  <2>1. /\ file' = Transitioned(file, ticket[s], seen[s], "failed") /\ log' = log /\ holder = "free"
        /\ ticket[s] \in Id
    BY <1>t, <1>5 DEF PatchFailed, DispatchInv, SendersKnown, DispatchTypeOK
  <2>2. \A q \in Id : file'[q] # file[q] =>
          CanTransition(file[q].status, "failed") /\ file'[q].status = "failed"
    BY <1>k, <2>1 DEF Transitioned, NoEntry
  <2> QED  BY <2>1, <2>2
<1>6. CASE SenderReturns(s)
  BY <1>6 DEF SenderReturns
<1> QED  BY <1>1, <1>2, <1>3, <1>4, <1>5, <1>6 DEF SenderStep

\* A hook writes the view through the engine, or has the dispatch lock and writes its copy, in
\* which it may change the request it is at.
LEMMA HookWrites ==
  ASSUME DispatchInv, NEW h \in Hook, HookMoves(h)
  PROVE  \/ UNCHANGED <<log, file>>
         \/ /\ bridge /\ \A q \in Id : file'[q].status = log'[q]
            /\ \A q \in Id : log'[q] # log[q] =>
                 /\ log[q] \in {"pending", "notified"}
                 /\ CanTransition(log[q], log'[q])
                 /\ \/ log'[q] = "delivered" /\ q \in Gone'
                    \/ stage[h] = "finalizing" /\ q = Current(h) /\ log'[q] = Verdict(h)
         \/ stage[h] = "draining" /\ log' = log /\ file' = copy[h]
         \/ /\ stage[h] = "finalizing" /\ Current(h) \in Id /\ file'[Current(h)].status = Verdict(h)
            /\ \A q \in Id \ {Current(h)} : file'[q] = copy[h][q]
            /\ \A q \in Id : log'[q] # log[q] =>
                 q = Current(h) /\ log'[q] = Verdict(h) /\ CanTransition(log[q], log'[q])
<1>t. DispatchTypeOK
  BY DEF DispatchInv
<1>v. \A l \in [Id -> Status \cup {"none"}], r \in Id : ViewOf(l)[r].status = l[r]
  BY ViewType
<1>k. log \in [Id -> Status \cup {"none"}] /\ copy[h] \in [Id -> Entry]
  BY <1>t DEF DispatchTypeOK
<1>1. CASE DrainReads(h)
  BY <1>1 DEF DrainReads
<1>2. ASSUME NEW late \in SUBSET Hook, NEW cold \in SUBSET Issue, DrainWrites(h, late, cold)
      PROVE  stage[h] = "draining" /\ log' = log /\ (file' = file \/ file' = copy[h])
  BY <1>2 DEF DrainWrites
<1>3. CASE InjectionFails(h) \/ InjectUnconfirmed(h)
  BY <1>3 DEF InjectionFails, InjectUnconfirmed
<1>4. CASE InjectConfirmed(h)
  <2>1. Current(h) \in Gone'
    BY <1>4, <1>t, CurrentKnown DEF InjectConfirmed, Gone, DispatchTypeOK, HookStage
  <2>2. CASE bridge /\ log[Current(h)] = "notified"
    <3>1. log' = [log EXCEPT ![Current(h)] = "delivered"] /\ file' = ViewOf(log')
      BY <1>4, <2>2 DEF InjectConfirmed
    <3>2. log' \in [Id -> Status \cup {"none"}]
      BY <1>k, <3>1 DEF Status
    <3> QED  BY <1>k, <1>v, <2>1, <2>2, <3>1, <3>2 DEF CanTransition
  <2>3. CASE ~(bridge /\ log[Current(h)] = "notified")
    BY <1>4, <2>3 DEF InjectConfirmed
  <2> QED  BY <2>2, <2>3
<1>5. CASE FinalizeReads(h)
  BY <1>5 DEF FinalizeReads
<1>6. CASE FinalizeWrites(h)
  <2>1. stage[h] = "finalizing" /\ Current(h) \in Id /\ log' = LogTold(h)
    BY <1>6, CurrentKnown DEF FinalizeWrites, HookStage
  <2>2. /\ file'[Current(h)].status = Verdict(h)
        /\ \A q \in Id \ {Current(h)} : file'[q] = copy[h][q]
    BY <1>6, <1>k, <2>1 DEF FinalizeWrites
  <2> QED  BY <2>1, <2>2, VerdictType
<1>7. CASE ReleaseLease(h) \/ HookThrows(h)
  BY <1>7 DEF ReleaseLease, HookThrows
<1>8. CASE HookDies(h)
  <2>1. CASE UNCHANGED <<log, file>>
    BY <2>1
  <2>2. CASE stage[h] = "finalizing" /\ LogTold(h) # log /\ log' = LogTold(h) /\ file' = ViewOf(log')
    <3>1. bridge
      BY <2>2 DEF LogTold
    <3> QED  BY <1>v, <2>2, <3>1, VerdictType
  <2> QED  BY <1>8, <2>1, <2>2 DEF HookDies
<1> QED  BY <1>1, <1>2, <1>3, <1>4, <1>5, <1>6, <1>7, <1>8 DEF HookMoves, HookStep

LEMMA OtherWrites ==
  ASSUME DispatchInv, OtherExec
  PROVE  bridge /\ log' = log /\ \A q \in Id : file'[q].status = log[q]
  BY ViewType DEF OtherExec, DispatchInv, DispatchTypeOK

----------------------------------------------------------------------------
(* Failures and copies. *)

LEMMA FailuresStep == DispatchInv /\ [DispatchNext]_dispatchVars => FailuresKnown'
<1> SUFFICES ASSUME DispatchInv, [DispatchNext]_dispatchVars, bridge',
                    NEW r \in Id, log'[r] = "failed"
             PROVE  file'[r].status = "failed"
  BY DEF FailuresKnown
<1>i. bridge /\ log[r] = "failed" => file[r].status = "failed"
  BY DEF DispatchInv, FailuresKnown
<1>t. DispatchTypeOK
  BY DEF DispatchInv
<1>1. ASSUME NEW s \in Sender, SenderStep(s) PROVE file'[r].status = "failed"
  BY <1>1, <1>i, SenderFrame, SenderWrites
<1>2. ASSUME NEW h \in Hook, HookMoves(h) PROVE file'[r].status = "failed"
  <2>1. bridge
    BY <1>2, <1>t, HookFrame
  <2>2. stage[h] \in Locking => (log[r] = "failed" => copy[h][r].status = "failed")
    BY <2>1 DEF DispatchInv, CopiesKnown
  <2>3. stage[h] = "finalizing" => log[Current(h)] # "failed" \/ Current(h) \notin Id
    BY <2>1 DEF DispatchInv, CopiesKnown, Locking
  <2> QED  BY <1>2, <1>i, <2>1, <2>2, <2>3, HookWrites DEF Locking
<1>3. CASE OtherExec
  BY <1>3, OtherWrites
<1>4. CASE BreakDispatchLock \/ UNCHANGED dispatchVars
  BY <1>4, <1>i DEF BreakDispatchLock, dispatchVars
<1> QED  BY <1>1, <1>2, <1>3, <1>4 DEF DispatchNext, HookMoves

LEMMA CopiesStep == DispatchInv /\ [DispatchNext]_dispatchVars => CopiesKnown'
<1> DEFINE Known(g) ==
             /\ stage[g] \in Locking /\ ~bridge => copy[g] = file
             /\ stage[g] \in Locking /\ bridge => \A r \in Id : log[r] = "failed" => copy[g][r].status = "failed"
             /\ stage[g] = "finalizing" => copy[g][Current(g)].status = "pending"
<1> SUFFICES ASSUME DispatchInv, [DispatchNext]_dispatchVars, NEW g \in Hook, stage'[g] \in Locking
             PROVE  Known(g)'
  BY DEF CopiesKnown, Locking
<1>t. DispatchTypeOK /\ Known(g)
  BY DEF DispatchInv, CopiesKnown
<1>h. /\ stage[g] \in Locking => holder = g /\ g # "free"
      /\ bridge => \A r \in Id : log[r] = "failed" => file[r].status = "failed"
  BY DEF DispatchInv, HooksKnown, FailuresKnown
\* While g has the lock, others write through the engine, and no failure.
<1>a. ASSUME UNCHANGED <<bridge, stage[g], copy[g], claims[g]>>, ~bridge => file' = file,
             bridge => \A r \in Id : log'[r] = "failed" => log[r] = "failed"
      PROVE  Known(g)'
  BY <1>a, <1>t DEF Current
<1>1. ASSUME NEW s \in Sender, SenderStep(s) PROVE Known(g)'
  <2>1. UNCHANGED <<bridge, holder, stage[g], copy[g], claims[g]>>
    BY <1>1, SenderFrame
  <2>2. ~bridge => file' = file
    BY <1>1, <1>h, <2>1, SenderWrites
  <2>3. \A r \in Id : log'[r] = "failed" => log[r] = "failed"
    BY <1>1, SenderWrites
  <2> QED  BY <1>a, <2>1, <2>2, <2>3
<1>2. ASSUME NEW h \in Hook, HookMoves(h) PROVE Known(g)'
  <2>1. CASE h # g
    <3>1. UNCHANGED <<bridge, stage[g], copy[g], claims[g]>>
      BY <1>2, <1>t, <2>1, HookFrame
    <3>2. stage[h] \notin Locking
      BY <1>h, <2>1, <3>1 DEF DispatchInv, HooksKnown
    <3>3. \/ UNCHANGED <<log, file>>
          \/ bridge /\ \A q \in Id : log'[q] # log[q] => log'[q] = "delivered"
      BY <1>2, <3>2, HookWrites DEF Locking
    <3> QED  BY <1>a, <3>1, <3>3
  <2>2. CASE h = g
    <3> USE <1>t, <2>2 DEF DispatchTypeOK, Locking
    <3>1. CASE DrainReads(h)
      <4>1. /\ UNCHANGED <<bridge, log, file>> /\ copy'[g] = file /\ stage'[g] = "draining"
        BY <3>1 DEF DrainReads
      <4> QED  BY <1>h, <4>1
    <3>2. ASSUME NEW late \in SUBSET Hook, NEW cold \in SUBSET Issue, DrainWrites(h, late, cold) PROVE FALSE
      BY <3>2 DEF DrainWrites
    <3>3. CASE InjectionFails(h) \/ InjectUnconfirmed(h) \/ InjectConfirmed(h)
      BY <3>3 DEF InjectionFails, InjectUnconfirmed, InjectConfirmed
    <3>4. CASE FinalizeReads(h)
      <4>1. CASE file[Current(h)].status = "pending"
        <5>1. /\ UNCHANGED <<bridge, log, file, claims>> /\ copy'[g] = file
          BY <3>4, <4>1 DEF FinalizeReads
        <5>2. Current(g)' = Current(g)
          BY <5>1 DEF Current
        <5> QED  BY <1>h, <4>1, <5>1, <5>2
      <4>2. CASE file[Current(h)].status # "pending"
        BY <3>4, <4>2 DEF FinalizeReads
      <4> QED  BY <4>1, <4>2
    <3>5. CASE FinalizeWrites(h)
      BY <3>5 DEF FinalizeWrites
    <3>6. CASE ReleaseLease(h) \/ HookThrows(h) \/ HookDies(h)
      BY <3>6 DEF ReleaseLease, HookThrows, HookDies, Drop
    <3> QED  BY <1>2, <3>1, <3>2, <3>3, <3>4, <3>5, <3>6 DEF HookMoves, HookStep
  <2> QED  BY <2>1, <2>2
<1>3. CASE OtherExec
  BY <1>3, <1>a, OtherWrites DEF OtherExec
<1>4. CASE BreakDispatchLock \/ UNCHANGED dispatchVars
  BY <1>4, <1>a DEF BreakDispatchLock, dispatchVars
<1> QED  BY <1>1, <1>2, <1>3, <1>4 DEF DispatchNext, HookMoves

----------------------------------------------------------------------------
(* Reports. *)

LEMMA TruthStep == DispatchInv /\ [DispatchNext]_dispatchVars => TruthKnown'
<1> DEFINE True(x, r) == /\ x = "notified" => r \in Vouched
                         /\ x = "delivered" => r \in Gone
           SaidTrue(r) == /\ True(file[r].status, r) /\ True(log[r], r)
                          /\ \A g \in Hook : True(copy[g][r].status, r)
           SenderTrue(q) == at[q] = "marking" \/ ok[q] => ticket[q] \in Vouched
           HookTrue(g) == stage[g] \in {"reporting", "finalizing"} /\ result[g] = "confirmed"
                            => Current(g) \in Gone
<1> SUFFICES ASSUME DispatchInv, [DispatchNext]_dispatchVars
             PROVE  /\ \A r \in Id : SaidTrue(r)'
                    /\ \A q \in Sender : SenderTrue(q)'
                    /\ \A g \in Hook : HookTrue(g)'
  BY DEF TruthKnown, ReportsAreTrue, Vouched, Gone
<1>t. /\ DispatchTypeOK
      /\ \A r \in Id : SaidTrue(r)
      /\ \A q \in Sender : SenderTrue(q)
      /\ \A g \in Hook : HookTrue(g)
  BY DEF DispatchInv, TruthKnown, ReportsAreTrue, Vouched, Gone
<1>1. ASSUME NEW s \in Sender, SenderStep(s)
      PROVE  /\ \A r \in Id : SaidTrue(r)'
             /\ \A q \in Sender : SenderTrue(q)'
             /\ \A g \in Hook : HookTrue(g)'
  <2>f. UNCHANGED <<copy, stage, claims, result>> /\ Vouched \subseteq Vouched' /\ Gone \subseteq Gone'
    BY <1>1, <1>t, SenderFrame, SenderGrounds
  <2>1. \A r \in Id : SaidTrue(r)'
    <3> SUFFICES ASSUME NEW r \in Id PROVE True(file[r].status, r)' /\ True(log[r], r)'
      BY <1>t, <2>f
    <3> QED  BY <1>1, <1>t, <2>f, SenderWrites
  <2>2. \A g \in Hook : HookTrue(g)'
    BY <1>t, <2>f DEF Current
  <2>3. \A q \in Sender : SenderTrue(q)'
    <3>1. ASSUME NEW q \in Sender, q # s PROVE SenderTrue(q)'
      BY <1>1, <1>t, <2>f, <3>1, OtherSenders
    <3>2. SenderTrue(s)'
      <4> USE <1>t, <2>f DEF DispatchTypeOK
      <4>0. SenderTrue(s) /\ (at[s] = "off" => ~ok[s])
        BY DEF DispatchInv, SendersKnown
      <4>1. CASE \E w \in Worker, purpose \in Purpose : Enqueue(s, w, purpose) \/ EnqueueDuplicate(s, w, purpose)
        <5>1. ok' = ok /\ at'[s] # "marking" /\ ~ok[s]
          BY <4>0, <4>1 DEF Enqueue, EnqueueDuplicate, Instructing
        <5> QED  BY <5>1
      <4>2. CASE Receipt(s)
        <5>1. ticket[s] \in Id
          BY <4>2 DEF Receipt, DispatchInv, SendersKnown
        <5>2. file[ticket[s]].status \in {"notified", "delivered"} => ticket[s] \in Vouched
          BY <5>1 DEF Vouched, Gone
        <5>3. /\ UNCHANGED <<ticket, grounds>> /\ at'[s] # "marking"
              /\ ok'[s] = ok[s] \/ file[ticket[s]].status \in {"notified", "delivered"}
          BY <4>2 DEF Receipt
        <5> QED  BY <4>0, <5>2, <5>3
      <4>3. CASE TypeDirectly(s)
        <5>1. ticket' = ticket /\ ticket[s] \in Id
          BY <4>3 DEF TypeDirectly, DispatchInv, SendersKnown
        <5>2. CASE ok' = [ok EXCEPT ![s] = TRUE]
                   /\ grounds' = [grounds EXCEPT ![ticket[s]] = IF @ = "none" THEN "sent" ELSE @]
          BY <5>1, <5>2 DEF Vouched
        <5>3. CASE ok' = ok /\ at'[s] # "marking"
          BY <4>0, <5>1, <5>3
        <5> QED  BY <4>3, <5>2, <5>3 DEF TypeDirectly
      <4>4. CASE TypingFails(s) \/ ReadCurrent(s) \/ PatchFailed(s)
        BY <4>0, <4>4 DEF TypingFails, ReadCurrent, PatchFailed
      <4>5. CASE MarkNotified(s)
        BY <4>0, <4>5 DEF MarkNotified
      <4>6. CASE LockTimesOut(s) \/ SenderReturns(s)
        BY <4>0, <4>6 DEF LockTimesOut, SenderReturns
      <4> QED  BY <1>1, <4>1, <4>2, <4>3, <4>4, <4>5, <4>6 DEF SenderStep
    <3> QED  BY <3>1, <3>2
  <2> QED  BY <2>1, <2>2, <2>3
<1>2. ASSUME NEW h \in Hook, HookMoves(h)
      PROVE  /\ \A r \in Id : SaidTrue(r)'
             /\ \A q \in Sender : SenderTrue(q)'
             /\ \A g \in Hook : HookTrue(g)'
  <2>f. /\ UNCHANGED <<at, ticket, ok>> /\ Vouched \subseteq Vouched' /\ Gone \subseteq Gone'
        /\ \A g \in Hook \ {h} : UNCHANGED <<stage[g], claims[g], copy[g], result[g]>>
    BY <1>2, <1>t, HookFrame
  <2>1. ASSUME NEW r \in Id PROVE True(file[r].status, r)' /\ True(log[r], r)'
    <3>1. SaidTrue(r) /\ (r \in Gone' => r \in Vouched')
      BY <1>t DEF Gone, Vouched
    <3>2. stage[h] = "finalizing" /\ r = Current(h) => True(Verdict(h), r)
      BY <1>t, <2>1, VerdictType DEF Gone, Vouched
    <3> QED  BY <1>2, <2>1, <2>f, <3>1, <3>2, HookWrites
  <2>2. ASSUME NEW r \in Id PROVE True(copy[h][r].status, r)'
    <3> USE <1>t DEF DispatchTypeOK
    <3>1. SaidTrue(r)
      BY <1>t, <2>2
    <3>2. CASE DrainReads(h) \/ FinalizeReads(h)
      BY <2>f, <3>1, <3>2 DEF DrainReads, FinalizeReads
    <3>3. CASE InjectionFails(h) \/ InjectUnconfirmed(h) \/ InjectConfirmed(h) \/ ReleaseLease(h) \/ HookThrows(h)
      BY <2>f, <3>1, <3>3 DEF InjectionFails, InjectUnconfirmed, InjectConfirmed, ReleaseLease, HookThrows
    <3>4. NoCopy[r].status = "none"
      BY DEF NoCopy, NoEntry
    <3>5. ASSUME NEW late \in SUBSET Hook, NEW cold \in SUBSET Issue, DrainWrites(h, late, cold)
          PROVE  copy'[h] = NoCopy
      BY <3>5 DEF DrainWrites
    <3>6. CASE FinalizeWrites(h) \/ HookDies(h)
      BY <3>4, <3>6 DEF FinalizeWrites, HookDies
    <3> QED  BY <1>2, <3>2, <3>3, <3>4, <3>5, <3>6 DEF HookMoves, HookStep
  <2>3. \A r \in Id : SaidTrue(r)'
    BY <1>t, <2>1, <2>2, <2>f
  <2>4. \A q \in Sender : SenderTrue(q)'
    BY <1>t, <2>f
  <2>5. HookTrue(h)'
    <3> USE <1>t DEF DispatchTypeOK
    <3>1. CASE DrainReads(h)
      BY <3>1 DEF DrainReads
    <3>2. ASSUME NEW late \in SUBSET Hook, NEW cold \in SUBSET Issue, DrainWrites(h, late, cold)
          PROVE  stage'[h] \notin {"reporting", "finalizing"}
      BY <3>2 DEF DrainWrites
    <3>3. CASE InjectionFails(h) \/ InjectUnconfirmed(h)
      BY <3>3 DEF InjectionFails, InjectUnconfirmed
    <3>4. CASE InjectConfirmed(h)
      <4>1. Current(h) \in Id /\ claims' = claims /\ grounds' = [grounds EXCEPT ![Current(h)] = "gone"]
        BY <3>4, CurrentKnown DEF InjectConfirmed, HookStage
      <4> QED  BY <4>1 DEF Current, Gone
    <3>5. CASE FinalizeReads(h)
      <4>1. /\ UNCHANGED <<claims, result, grounds>> /\ stage[h] = "reporting"
        BY <3>5 DEF FinalizeReads
      <4> QED  BY <4>1, <2>f, <1>t DEF Current
    <3>6. CASE FinalizeWrites(h)
      BY <3>6 DEF FinalizeWrites
    <3>7. CASE ReleaseLease(h) \/ HookThrows(h) \/ HookDies(h)
      BY <3>7 DEF ReleaseLease, HookThrows, HookDies, Drop
    <3> QED  BY <1>2, <3>1, <3>2, <3>3, <3>4, <3>5, <3>6, <3>7 DEF HookMoves, HookStep
  <2>6. ASSUME NEW g \in Hook, g # h PROVE HookTrue(g)'
    BY <1>t, <2>f, <2>6 DEF Current
  <2> QED  BY <2>3, <2>4, <2>5, <2>6
<1>3. CASE OtherExec
  <2>1. UNCHANGED <<log, copy, at, ticket, ok, stage, claims, result, grounds>>
    BY <1>3 DEF OtherExec
  <2> QED  BY <1>3, <1>t, <2>1, OtherWrites DEF Current, Vouched, Gone
<1>4. CASE BreakDispatchLock \/ UNCHANGED dispatchVars
  <2>1. UNCHANGED <<log, file, copy, at, ticket, ok, stage, claims, result, grounds>>
    BY <1>4 DEF BreakDispatchLock, dispatchVars
  <2> QED  BY <1>t, <2>1 DEF Current, Vouched, Gone
<1> QED  BY <1>1, <1>2, <1>3, <1>4 DEF DispatchNext, HookMoves

----------------------------------------------------------------------------
(* What is settled. *)

LEMMA MishapsGrow ==
  DispatchInv /\ [DispatchNext]_dispatchVars =>
    /\ mishaps \in Nat /\ mishaps' >= mishaps
    /\ holder' = "orphan" => holder = "orphan" \/ mishaps' > mishaps
<1> SUFFICES ASSUME DispatchInv, [DispatchNext]_dispatchVars
             PROVE  /\ mishaps \in Nat /\ mishaps' >= mishaps
                    /\ holder' = "orphan" => holder = "orphan" \/ mishaps' > mishaps
  OBVIOUS
<1>t. mishaps \in Nat
  BY DEF DispatchInv, DispatchTypeOK
<1>1. ASSUME NEW s \in Sender, SenderStep(s) PROVE holder' = holder /\ mishaps' >= mishaps
  <2>1. CASE \E w \in Worker, purpose \in Purpose : Enqueue(s, w, purpose) \/ EnqueueDuplicate(s, w, purpose)
    BY <1>t, <2>1 DEF Enqueue, EnqueueDuplicate
  <2>2. CASE Receipt(s) \/ TypeDirectly(s) \/ TypingFails(s) \/ ReadCurrent(s)
    BY <1>t, <2>2 DEF Receipt, TypeDirectly, TypingFails, ReadCurrent
  <2>3. CASE MarkNotified(s) \/ PatchFailed(s) \/ SenderReturns(s)
    BY <1>t, <2>3 DEF MarkNotified, PatchFailed, SenderReturns
  <2>4. CASE LockTimesOut(s)
    BY <1>t, <2>4 DEF LockTimesOut, KeepsFrom
  <2> QED  BY <1>1, <2>1, <2>2, <2>3, <2>4 DEF SenderStep
<1>2. ASSUME NEW h \in Hook, HookMoves(h)
      PROVE  mishaps' >= mishaps /\ (holder' = "orphan" => holder = "orphan" \/ mishaps' > mishaps)
  <2>1. CASE DrainReads(h) \/ InjectionFails(h) \/ InjectUnconfirmed(h) \/ InjectConfirmed(h)
    BY <1>t, <2>1 DEF DrainReads, InjectionFails, InjectUnconfirmed, InjectConfirmed
  <2>2. ASSUME NEW late \in SUBSET Hook, NEW cold \in SUBSET Issue, DrainWrites(h, late, cold)
        PROVE  mishaps' >= mishaps /\ holder' # "orphan"
    <3>1. Cardinality(late) \in Nat
      BY FS_Subset, FS_CardinalityType
    <3> QED  BY <1>t, <2>2, <3>1 DEF DrainWrites
  <2>3. CASE FinalizeReads(h) \/ FinalizeWrites(h)
    BY <1>t, <2>3 DEF FinalizeReads, FinalizeWrites
  <2>4. CASE ReleaseLease(h)
    BY <1>t, <2>4 DEF ReleaseLease
  <2>5. CASE HookThrows(h)
    BY <1>t, <2>5 DEF HookThrows, KeepsFrom
  <2>6. CASE HookDies(h)
    BY <1>t, <2>6 DEF HookDies
  <2> QED  BY <1>2, <2>1, <2>2, <2>3, <2>4, <2>5, <2>6 DEF HookMoves, HookStep
<1>3. CASE BreakDispatchLock \/ OtherExec \/ UNCHANGED dispatchVars
  BY <1>t, <1>3 DEF BreakDispatchLock, OtherExec, dispatchVars
<1> QED  BY <1>t, <1>1, <1>2, <1>3 DEF DispatchNext, HookMoves

\* Without a bridge nothing becomes pending again.
LEMMA SettledStays ==
  ASSUME DispatchInv, [DispatchNext]_dispatchVars, ~bridge,
         NEW r \in Queued, r \in Id, file[r].status # "pending"
  PROVE  file'[r].status # "pending"
<1>k. file[r].status # "none"
  BY DEF DispatchInv, QueueKnown, Fits
<1>1. ASSUME NEW s \in Sender, SenderStep(s) PROVE file'[r].status # "pending"
  BY <1>1, <1>k, SenderWrites
<1>2. ASSUME NEW h \in Hook, HookMoves(h) PROVE file'[r].status # "pending"
  <2>1. stage[h] \in Locking => copy[h] = file
    BY DEF DispatchInv, CopiesKnown
  <2>2. stage[h] = "finalizing" => r # Current(h)
    BY <2>1 DEF DispatchInv, CopiesKnown, Locking
  <2> QED  BY <1>2, <2>1, <2>2, HookWrites DEF Locking
<1>3. CASE BreakDispatchLock \/ OtherExec \/ UNCHANGED dispatchVars
  BY <1>3 DEF BreakDispatchLock, OtherExec, dispatchVars
<1> QED  BY <1>1, <1>2, <1>3 DEF DispatchNext, HookMoves

LEMMA SettledStep == DispatchInv /\ [DispatchNext]_dispatchVars => SettledKnown'
<1> DEFINE Settled(q) ==
             ticket[q] \in Id /\ ~bridge =>
               /\ seen[q] # "pending" => file[ticket[q]].status # "pending"
               /\ at[q] = "answered" /\ mishaps = 0 => file[ticket[q]].status # "pending"
<1> SUFFICES ASSUME DispatchInv, [DispatchNext]_dispatchVars
             PROVE  (holder = "orphan" => mishaps # 0)' /\ \A q \in Sender : Settled(q)'
  BY DEF SettledKnown, AnsweredMeansSettled
<1>t. DispatchTypeOK /\ (holder = "orphan" => mishaps # 0) /\ \A q \in Sender : Settled(q)
  BY DEF DispatchInv, SettledKnown, AnsweredMeansSettled
<1>m. /\ mishaps \in Nat /\ mishaps' >= mishaps
      /\ holder' = "orphan" => holder = "orphan" \/ mishaps' > mishaps
  BY MishapsGrow
<1>o. (holder = "orphan" => mishaps # 0)'
  <2>1. mishaps' \in Nat
    BY TypeStep DEF DispatchTypeOK
  <2> QED  BY <1>t, <1>m, <2>1
<1>s. ASSUME NEW q \in Sender, UNCHANGED <<bridge, at[q], ticket[q], seen[q]>> PROVE Settled(q)'
  <2>1. ticket[q] \in Id => ticket[q] \in Queued
    BY IdsAreNumbers DEF DispatchInv, QueueKnown
  <2>2. mishaps' = 0 => mishaps = 0
    BY <1>m
  <2> QED  BY <1>s, <1>t, <2>1, <2>2, SettledStays
<1>1. ASSUME NEW s \in Sender, SenderStep(s), NEW q \in Sender PROVE Settled(q)'
  <2>f. bridge' = bridge
    BY <1>1, SenderFrame
  <2>1. CASE q # s
    BY <1>1, <1>s, <1>t, <2>f, <2>1, OtherSenders
  <2>2. CASE q = s
    <3> USE <1>t, <2>2 DEF DispatchTypeOK
    <3> SUFFICES ASSUME ticket'[s] \in Id, ~bridge PROVE Settled(s)'
      BY <2>f
    <3>0. at[s] = "off" => ticket[s] = 0 /\ seen[s] = "pending"
      BY DEF DispatchInv, SendersKnown
    <3>1. CASE \E w \in Worker, purpose \in Purpose : Enqueue(s, w, purpose)
      BY <3>0, <3>1 DEF Enqueue, Instructing
    <3>2. CASE \E w \in Worker, purpose \in Purpose : EnqueueDuplicate(s, w, purpose)
      BY <3>0, <3>2, IdsAreNumbers DEF EnqueueDuplicate, Instructing
    <3>3. CASE Receipt(s)
      BY <3>3 DEF Receipt
    <3>4. CASE TypeDirectly(s) \/ TypingFails(s)
      BY <3>4 DEF TypeDirectly, TypingFails
    <3>5. CASE MarkNotified(s)
      <4>1. ticket' = ticket
        BY <3>5 DEF MarkNotified
      <4>2. file'[ticket[s]].status # "pending"
        <5>1. CASE file[ticket[s]].status = "pending"
          <6>1. file' = Transitioned(file, ticket[s], "pending", "notified")
            BY <3>5, <5>1 DEF MarkNotified
          <6> QED  BY <4>1, <5>1, <6>1, TransitionedType DEF CanTransition, Status
        <5>2. CASE file[ticket[s]].status # "pending"
          BY <3>5, <5>2 DEF MarkNotified
        <5> QED  BY <5>1, <5>2
      <4> QED  BY <4>1, <4>2
    <3>6. CASE ReadCurrent(s)
      BY <3>6 DEF ReadCurrent
    <3>7. CASE PatchFailed(s)
      <4>1. ticket' = ticket /\ seen' = seen /\ file' = Transitioned(file, ticket[s], seen[s], "failed")
        BY <3>7 DEF PatchFailed
      <4>2. file'[ticket[s]].status # "pending"
        <5>1. CASE file[ticket[s]].status = "pending"
          <6>1. seen[s] = "pending"
            BY <4>1, <5>1
          <6>2. file' = Transitioned(file, ticket[s], "pending", "failed")
            BY <4>1, <6>1
          <6>3. ticket[s] \in Id /\ "failed" \in Status /\ CanTransition("pending", "failed")
            BY <4>1 DEF Status, CanTransition
          <6>4. Transitioned(file, ticket[s], "pending", "failed")[ticket[s]].status = "failed"
            BY <5>1, <6>3, TransitionedType
          <6> QED  BY <6>2, <6>4
        <5>2. CASE file[ticket[s]].status # "pending"
          <6>1. ticket[s] \in Id /\ "failed" \in Status
            BY <4>1 DEF Status
          <6>2. file'[ticket[s]].status \in {file[ticket[s]].status, "failed"}
            BY <4>1, <6>1, TransitionedType
          <6> QED  BY <5>2, <6>2
        <5> QED  BY <5>1, <5>2
      <4> QED  BY <4>1, <4>2
    <3>8. CASE LockTimesOut(s)
      <4>1. UNCHANGED <<file, ticket, seen>> /\ mishaps' # 0
        BY <1>m, <3>8 DEF LockTimesOut, KeepsFrom
      <4> QED  BY <4>1
    <3>9. CASE SenderReturns(s)
      BY <3>9 DEF SenderReturns
    <3> QED  BY <1>1, <3>1, <3>2, <3>3, <3>4, <3>5, <3>6, <3>7, <3>8, <3>9 DEF SenderStep
  <2> QED  BY <2>1, <2>2
<1>2. ASSUME NEW h \in Hook, HookMoves(h), NEW q \in Sender PROVE Settled(q)'
  BY <1>2, <1>s, <1>t, HookFrame
<1>3. ASSUME BreakDispatchLock \/ OtherExec \/ UNCHANGED dispatchVars, NEW q \in Sender PROVE Settled(q)'
  BY <1>3, <1>s DEF BreakDispatchLock, OtherExec, dispatchVars
<1> QED  BY <1>o, <1>1, <1>2, <1>3 DEF DispatchNext, HookMoves

----------------------------------------------------------------------------
(* The theorems. *)

LEMMA InitDispatchInv == DispatchInit => DispatchInv
<1> SUFFICES ASSUME DispatchInit PROVE DispatchInv
  OBVIOUS
<1>1. Queued = {} /\ Queued = 1..0 /\ address \in [Queued -> Address]
  BY DEF DispatchInit, Queued
<1>2. NoCopy \in [Id -> Entry] /\ \A r \in Id : NoCopy[r].status = "none"
  BY NoEntryType DEF NoCopy, NoEntry
<1>3. DispatchTypeOK
  BY <1>1, <1>2 DEF DispatchInit, DispatchTypeOK, Status, SenderStage, HookStage, Grounds
<1>4. QueueKnown
  <2>1. log \in [Id -> Status \cup {"none"}] /\ \A r \in Id : log[r] = "none"
    BY DEF DispatchInit
  <2>2. Fits(file) /\ Fits(ViewOf(log))
    BY <1>1, <1>2, <2>1, ViewType DEF DispatchInit, Fits
  <2>3. \E n \in 0..MaxRequests : Queued = 1..n
    <3>1. 0 \in 0..MaxRequests
      OBVIOUS
    <3> QED  BY <1>1, <3>1
  <2>4. /\ \A h \in Hook : stage[h] \notin Locking /\ claims[h] = {}
        /\ \A s \in Sender : ticket[s] = 0
    BY DEF DispatchInit, Locking
  <2> QED  BY <2>2, <2>3, <2>4 DEF QueueKnown
<1>5. HooksKnown /\ SendersKnown /\ LeasesKnown /\ CopiesKnown /\ FailuresKnown
  BY DEF DispatchInit, HooksKnown, SendersKnown, LeasesKnown, CopiesKnown, FailuresKnown, Locking
<1>6. TruthKnown /\ SettledKnown
  BY <1>2 DEF DispatchInit, TruthKnown, ReportsAreTrue, SettledKnown, AnsweredMeansSettled
<1> QED  BY <1>3, <1>4, <1>5, <1>6 DEF DispatchInv

\* The invariant holds in every state: whatever senders, hooks and other users of the engine do,
\* in whatever order, with hooks that die or are too slow.
THEOREM DispatchCorrect == DispatchSpec => []DispatchInv
<1>1. DispatchInv /\ [DispatchNext]_dispatchVars => DispatchInv'
  BY TypeStep, QueueStep, HooksStep, SendersStep, LeasesStep, TruthStep, CopiesStep, FailuresStep,
     SettledStep DEF DispatchInv
<1> QED  BY <1>1, InitDispatchInv, PTL DEF DispatchSpec

\* Every variable keeps its type.
THEOREM DispatchTypeCorrect == DispatchSpec => []DispatchTypeOK
<1>1. DispatchInv => DispatchTypeOK
  BY DEF DispatchInv
<1> QED  BY <1>1, DispatchCorrect, PTL

\* Nobody calls a request notified, and no sender answers that it arrived, unless a hook saw its
\* text gone or a sender's own send went well; and nobody calls it delivered but after a hook
\* saw that.
THEOREM ReportsAlwaysTrue == DispatchSpec => []ReportsAreTrue
<1>1. DispatchInv => ReportsAreTrue
  BY DEF DispatchInv, TruthKnown
<1> QED  BY <1>1, DispatchCorrect, PTL

\* Without a bridge and without mishaps a sender that is back leaves nothing pending for hooks.
THEOREM AnsweredAlwaysSettled == DispatchSpec => []AnsweredMeansSettled
<1>1. DispatchInv => AnsweredMeansSettled
  BY DEF DispatchInv, SettledKnown
<1> QED  BY <1>1, DispatchCorrect, PTL

\* The leases keep two hooks from one request, until one of them is too slow.
THEOREM OneHookAlways == DispatchSpec => []OneHookAtATime
<1>1. DispatchInv => OneHookAtATime
  BY DEF DispatchInv, LeasesKnown, OneHookAtATime
<1> QED  BY <1>1, DispatchCorrect, PTL

\* A failure that is recorded everywhere is final, though hooks write back copies of the queue
\* that may be older than it and the engine writes its view over theirs.
THEOREM FailedStaysFailed == DispatchSpec => FailedIsFinal
<1> DEFINE Failed(r) == file[r].status = "failed" /\ (~bridge \/ log[r] = "failed")
           Stays == \A r \in Id : Failed(r) => file'[r].status = "failed"
<1>1. DispatchInv /\ [DispatchNext]_dispatchVars => [Stays]_dispatchVars
  <2> SUFFICES ASSUME DispatchInv, [DispatchNext]_dispatchVars, NEW r \in Id, Failed(r)
               PROVE  file'[r].status = "failed"
    OBVIOUS
  <2>1. ASSUME NEW s \in Sender, SenderStep(s) PROVE file'[r].status = "failed"
    BY <2>1, SenderWrites
  <2>2. ASSUME NEW h \in Hook, HookMoves(h) PROVE file'[r].status = "failed"
    <3>1. stage[h] \in Locking => copy[h][r].status = "failed"
      BY DEF DispatchInv, CopiesKnown
    <3>2. stage[h] = "finalizing" => r # Current(h)
      BY <3>1 DEF DispatchInv, CopiesKnown, Locking
    <3> QED  BY <2>2, <3>1, <3>2, HookWrites DEF Locking
  <2>3. CASE OtherExec
    BY <2>3, OtherWrites
  <2>4. CASE BreakDispatchLock \/ UNCHANGED dispatchVars
    BY <2>4 DEF BreakDispatchLock, dispatchVars
  <2> QED  BY <2>1, <2>2, <2>3, <2>4 DEF DispatchNext, HookMoves
<1> QED  BY <1>1, DispatchCorrect, PTL DEF DispatchSpec, FailedIsFinal

----------------------------------------------------------------------------
(* The table of transitions. *)

ByTable(r) == IF RequestStatus(r) = "none" THEN RequestStatus(r)' \in {"none", "pending"}
              ELSE CanTransition(RequestStatus(r), RequestStatus(r)')

LEMMA TableStep ==
  ASSUME DispatchInv, [DispatchNext]_dispatchVars, NEW r \in Id
  PROVE  ByTable(r)
<1> USE DEF ByTable, RequestStatus, CanTransition
<1>1. CASE UNCHANGED <<bridge, log, file>>
  BY <1>1
<1>2. ASSUME NEW s \in Sender, SenderStep(s) PROVE ByTable(r)
  <2>1. bridge' = bridge
    BY <1>2, SenderFrame DEF DispatchInv
  <2> QED
    BY <1>1, <1>2, <2>1, SenderWrites
<1>3. ASSUME NEW h \in Hook, HookMoves(h) PROVE ByTable(r)
  <2>1. bridge' = bridge
    BY <1>3, HookFrame DEF DispatchInv
  <2>2. CASE bridge
    BY <1>3, <2>1, <2>2, HookWrites
  <2>3. CASE ~bridge
    <3>1. /\ stage[h] \in {"draining", "finalizing"} => copy[h] = file
          /\ stage[h] = "finalizing" => copy[h][Current(h)].status = "pending"
      BY <2>3 DEF DispatchInv, CopiesKnown, Locking
    <3>2. Verdict(h) \in {"pending", "notified", "failed"}
      BY VerdictType
    <3>3. CASE file' = file
      BY <2>1, <2>3, <3>3
    <3>4. CASE stage[h] = "finalizing" /\ file'[Current(h)].status = Verdict(h)
               /\ \A q \in Id \ {Current(h)} : file'[q] = copy[h][q]
      BY <2>1, <2>3, <3>1, <3>2, <3>4
    <3>5. file' = file \/ (stage[h] = "finalizing" /\ file'[Current(h)].status = Verdict(h)
                           /\ \A q \in Id \ {Current(h)} : file'[q] = copy[h][q])
      BY <1>3, <2>3, <3>1, HookWrites
    <3> QED
      BY <3>3, <3>4, <3>5
  <2> QED
    BY <2>2, <2>3
<1>4. CASE OtherExec
  BY <1>4 DEF OtherExec
<1> QED
  BY <1>1, <1>2, <1>3, <1>4 DEF DispatchNext, HookMoves, BreakDispatchLock, dispatchVars

\* No request goes back along the table of transitions, or past it, in what counts as its status.
THEOREM StatusesAlwaysMoveByTable == DispatchSpec => StatusesMoveByTable
<1>1. DispatchInv /\ [DispatchNext]_dispatchVars => [\A r \in Id : ByTable(r)]_dispatchVars
  BY TableStep
<1>2. DispatchSpec => [][\A r \in Id : ByTable(r)]_dispatchVars
  BY <1>1, DispatchCorrect, PTL DEF DispatchSpec
<1> QED
  BY <1>2 DEF StatusesMoveByTable, ByTable

----------------------------------------------------------------------------
(* How often a trigger is typed. *)

\* Hooks that have claimed r and lost the lease of it since.
Robbed(r) == {h \in Hook : r \in robbed[h]}

\* Hooks that have typed the trigger of r and not yet reported it.
Unreported(r) ==
  {h \in Hook : stage[h] \in {"reporting", "finalizing"} /\ result[h] # "failed" /\ Current(h) = r}

\* Hooks that may still type it for the claims they have.
Left(r) == {h \in Hook : r \in claims[h] /\ (stage[h] = "injecting" \/ r # Current(h))}

\* A hook with the lease of r will not get to report while a dead one has the dispatch lock: the
\* mishap that pays for its try is one already.
Doomed(r) == IF holder = "orphan" /\ lease[r] # "free" THEN 1 ELSE 0

\* A hook that has not claimed has nothing, it is robbed of claims, and who has a lease is at the
\* request.
ClaimsKnown ==
  /\ \A h \in Hook : robbed[h] \subseteq claims[h] /\ (stage[h] \in {"off", "draining"} => claims[h] = {})
  /\ \A r \in Id : lease[r] # "free" => r \in claims[lease[r]] \ robbed[lease[r]]

\* Every try of a pending request is counted in the file, still to be reported, or paid for by a
\* mishap; a robbed hook's mishap is kept for it until it has reported.
PendingCounts(r) ==
  /\ file[r].attempts < MaxUnconfirmed
  /\ tries[r] + Cardinality(Robbed(r)) + Doomed(r)
       <= file[r].attempts + mishaps + Cardinality(Unreported(r))

\* The tries there have been, with those there may still be.
Enough(r) == tries[r] + Cardinality(Left(r)) <= MaxUnconfirmed + mishaps

TriesKnown ==
  ~bridge =>
    \A r \in Id : /\ file[r].status = "none" => tries[r] = 0
                  /\ file[r].status = "pending" => PendingCounts(r)
                  /\ file[r].status \notin {"none", "pending"} => Enough(r)

TriesInv == DispatchInv /\ ClaimsKnown /\ TriesKnown

LEMMA CountType ==
  ASSUME NEW S \in SUBSET Hook
  PROVE  IsFiniteSet(S) /\ Cardinality(S) \in Nat
BY FS_Subset, FS_CardinalityType

\* Sets of hooks that differ by at most one.
LEMMA CountFewer ==
  ASSUME NEW S \in SUBSET Hook, NEW T \in SUBSET S
  PROVE  Cardinality(T) <= Cardinality(S)
BY CountType, FS_Subset

LEMMA CountAdded ==
  ASSUME NEW S \in SUBSET Hook, NEW x
  PROVE  /\ IsFiniteSet(S \cup {x}) /\ Cardinality(S \cup {x}) \in Nat
         /\ Cardinality(S \cup {x}) <= Cardinality(S) + 1
<1>1. IsFiniteSet(S) /\ Cardinality(S) \in Nat
  BY CountType
<1>2. /\ IsFiniteSet(S \cup {x})
      /\ Cardinality(S \cup {x}) = IF x \in S THEN Cardinality(S) ELSE Cardinality(S) + 1
  BY <1>1, FS_AddElement, Zenon
<1>3. CASE x \in S
  BY <1>1, <1>2, <1>3
<1>4. CASE x \notin S
  BY <1>1, <1>2, <1>4
<1> QED  BY <1>3, <1>4

LEMMA CountOneMore ==
  ASSUME NEW S \in SUBSET Hook, NEW T \in SUBSET Hook, NEW x \in Hook, T \subseteq S \cup {x}
  PROVE  Cardinality(T) <= Cardinality(S) + 1
<1>1. IsFiniteSet(S) /\ Cardinality(S) \in Nat
  BY CountType
<1>2. S \cup {x} \in SUBSET Hook /\ Cardinality(S \cup {x}) <= Cardinality(S) + 1
  BY CountAdded
<1>3. Cardinality(T) <= Cardinality(S \cup {x})
  BY <1>2, CountFewer
<1> QED  BY <1>1, <1>2, <1>3, CountType

LEMMA CountOneLess ==
  ASSUME NEW S \in SUBSET Hook, NEW T \in SUBSET Hook, NEW x \in S, T \subseteq S \ {x}
  PROVE  Cardinality(T) + 1 <= Cardinality(S)
<1>1. IsFiniteSet(S) /\ Cardinality(S) \in Nat /\ Cardinality(T) \in Nat
  BY CountType
<1>2. S \ {x} \in SUBSET Hook /\ Cardinality(S \ {x}) = Cardinality(S) - 1
  BY <1>1, FS_RemoveElement
<1>3. Cardinality(T) <= Cardinality(S \ {x})
  BY <1>2, CountFewer
<1> QED  BY <1>1, <1>2, <1>3, CountType

\* Sizes of disjoint parts of the hooks with at most one hook besides.
LEMMA CountParts ==
  ASSUME NEW A \in SUBSET Hook, NEW B \in SUBSET Hook, NEW S \in SUBSET Hook, NEW x,
         A \cap B = {}, A \cup B \subseteq S \cup {x}
  PROVE  Cardinality(A) + Cardinality(B) <= Cardinality(S) + 1
<1>1. /\ IsFiniteSet(A) /\ IsFiniteSet(B) /\ IsFiniteSet(S)
      /\ Cardinality(A) \in Nat /\ Cardinality(B) \in Nat /\ Cardinality(S) \in Nat
  BY CountType
<1>2. Cardinality(A \cup B) = Cardinality(A) + Cardinality(B)
  <2>1. Cardinality(A \cup B) = Cardinality(A) + Cardinality(B) - Cardinality(A \cap B)
    BY <1>1, FS_Union, Zenon
  <2>2. Cardinality(A \cap B) = 0
    BY FS_EmptySet
  <2> QED  BY <1>1, <2>1, <2>2
<1>3. /\ IsFiniteSet(S \cup {x}) /\ Cardinality(S \cup {x}) <= Cardinality(S) + 1
      /\ Cardinality(S \cup {x}) \in Nat
  BY CountAdded
<1>4. Cardinality(A \cup B) <= Cardinality(S \cup {x})
  BY <1>3, FS_Subset
<1> QED  BY <1>1, <1>2, <1>3, <1>4

LEMMA CountsType ==
  ASSUME DispatchTypeOK, NEW r \in Id
  PROVE  /\ Robbed(r) \in SUBSET Hook /\ Unreported(r) \in SUBSET Hook /\ Left(r) \in SUBSET Hook
         /\ Cardinality(Robbed(r)) \in Nat /\ Cardinality(Unreported(r)) \in Nat
         /\ Cardinality(Left(r)) \in Nat
         /\ tries[r] \in Nat /\ file[r].attempts \in Nat /\ mishaps \in Nat /\ Doomed(r) \in {0, 1}
<1>1. Robbed(r) \in SUBSET Hook /\ Unreported(r) \in SUBSET Hook /\ Left(r) \in SUBSET Hook
  BY DEF Robbed, Unreported, Left
<1>2. tries[r] \in Nat /\ file[r].attempts \in Nat /\ mishaps \in Nat /\ Doomed(r) \in {0, 1}
  BY DEF DispatchTypeOK, Entry, Doomed
<1> QED  BY <1>1, <1>2, CountType

\* Only one hook has the lease of a request, and it settles at the last attempt that counts: so
\* what is enough for a settled request is enough for a pending one.
LEMMA PendingEnough ==
  ASSUME DispatchInv, ClaimsKnown, NEW r \in Id, PendingCounts(r)
  PROVE  Enough(r)
<1>t. DispatchTypeOK
  BY DEF DispatchInv
<1>1. Left(r) \cap Unreported(r) = {}
  BY DEF Left, Unreported
<1>2. Left(r) \cup Unreported(r) \subseteq Robbed(r) \cup {lease[r]}
  <2> SUFFICES ASSUME NEW h \in Hook, h \in Left(r) \cup Unreported(r), r \notin robbed[h] PROVE lease[r] = h
    BY CountsType, <1>t DEF Robbed
  <2>1. h \in Unreported(r) => Current(h) \in claims[h]
    BY CurrentKnown DEF Unreported, HookStage
  <2>2. r \in claims[h]
    BY <2>1 DEF Left, Unreported
  <2> QED  BY <2>2 DEF DispatchInv, LeasesKnown
<1>3. Cardinality(Left(r)) + Cardinality(Unreported(r)) <= Cardinality(Robbed(r)) + 1
  BY <1>1, <1>2, <1>t, CountsType, CountParts
<1> QED  BY <1>3, <1>t, CountsType DEF PendingCounts, Enough

----------------------------------------------------------------------------
(* What the claims of a hook are. *)

LEMMA ClaimsStep == DispatchInv /\ ClaimsKnown /\ [DispatchNext]_dispatchVars => ClaimsKnown'
<1> SUFFICES ASSUME DispatchInv, ClaimsKnown, [DispatchNext]_dispatchVars PROVE ClaimsKnown'
  OBVIOUS
<1>t. DispatchTypeOK
  BY DEF DispatchInv
<1>1. CASE UNCHANGED <<stage, claims, robbed, lease>>
  BY <1>1 DEF ClaimsKnown
<1>2. ASSUME NEW s \in Sender, SenderStep(s) PROVE UNCHANGED <<stage, claims, robbed, lease>>
  BY <1>2, SenderFrame
<1>3. ASSUME NEW h \in Hook, HookMoves(h) PROVE ClaimsKnown'
  <2>o. \A g \in Hook \ {h} : stage'[g] = stage[g] /\ claims'[g] = claims[g]
    BY <1>3, <1>t, HookFrame
  <2>1. CASE DrainReads(h)
    <3>1. UNCHANGED <<claims, robbed, lease>> /\ stage' = [stage EXCEPT ![h] = "draining"] /\ stage[h] = "off"
      BY <2>1 DEF DrainReads
    <3> QED  BY <1>t, <3>1 DEF ClaimsKnown, DispatchTypeOK
  <2>2. CASE InjectionFails(h) \/ InjectUnconfirmed(h) \/ InjectConfirmed(h)
    <3>1. UNCHANGED <<claims, robbed, lease>> /\ stage' = [stage EXCEPT ![h] = "reporting"]
      BY <2>2 DEF InjectionFails, InjectUnconfirmed, InjectConfirmed
    <3> QED  BY <1>t, <3>1 DEF ClaimsKnown, DispatchTypeOK
  <2>3. CASE FinalizeReads(h) \/ FinalizeWrites(h)
    <3>1. UNCHANGED <<claims, robbed, lease>> /\ \E now \in {"finalizing", "releasing"} : stage' = [stage EXCEPT ![h] = now]
      BY <2>3 DEF FinalizeReads, FinalizeWrites
    <3> QED  BY <1>t, <3>1 DEF ClaimsKnown, DispatchTypeOK
  <2>4. ASSUME NEW late \in SUBSET Hook, NEW cold \in SUBSET Issue, DrainWrites(h, late, cold)
        PROVE  ClaimsKnown'
    <3> DEFINE taken == Claims(copy[h], late, cold)
    <3>1. \A r \in taken : r \in Id /\ lease[r] \in {"free"} \cup late
      BY DEF Claims, Claimable
    <3>h. claims[h] = {} /\ robbed[h] = {} /\ \A r \in Id : lease[r] # h
      BY <2>4 DEF DrainWrites, ClaimsKnown
    <3> HIDE DEF taken
    <3>2. /\ claims' = [claims EXCEPT ![h] = taken]
          /\ lease' = [r \in Id |-> IF r \in taken THEN h ELSE lease[r]]
          /\ robbed' = [g \in Hook |->
                          IF g \in late THEN robbed[g] \cup {r \in taken : lease[r] = g} ELSE robbed[g]]
          /\ stage'[h] = IF taken = {} THEN "off" ELSE "injecting"
      BY <2>4, <1>t DEF DrainWrites, taken, DispatchTypeOK
    <3>3. robbed'[h] = {}
      BY <3>1, <3>2, <3>h
    <3>4. ASSUME NEW g \in Hook \ {h}
          PROVE  robbed'[g] \subseteq claims'[g] /\ (stage'[g] \in {"off", "draining"} => claims'[g] = {})
      <4>1. \A r \in taken : lease[r] = g => r \in claims[g]
        BY <3>1 DEF ClaimsKnown
      <4>2. /\ robbed[g] \subseteq claims[g] /\ claims'[g] = claims[g]
            /\ stage[g] \in {"off", "draining"} => claims[g] = {}
        BY <2>o DEF ClaimsKnown
      <4> QED  BY <2>o, <3>2, <4>1, <4>2
    <3>5. ASSUME NEW r \in Id, lease'[r] # "free" PROVE r \in claims'[lease'[r]] \ robbed'[lease'[r]]
      <4>1. CASE r \in taken
        BY <1>t, <3>2, <3>3, <4>1 DEF DispatchTypeOK
      <4>2. CASE r \notin taken
        <5>1. lease'[r] = lease[r] /\ lease[r] \in Hook \ {h} /\ r \in claims[lease[r]] \ robbed[lease[r]]
          BY <1>t, <3>2, <3>5, <3>h, <4>2 DEF ClaimsKnown, DispatchTypeOK
        <5> QED  BY <2>o, <3>2, <4>2, <5>1
      <4> QED  BY <4>1, <4>2
    <3>6. stage'[h] \in {"off", "draining"} => claims'[h] = {}
      BY <1>t, <3>2 DEF DispatchTypeOK
    <3> QED  BY <3>3, <3>4, <3>5, <3>6 DEF ClaimsKnown
  <2>5. CASE ReleaseLease(h) \/ HookThrows(h) \/ HookDies(h)
    <3>1. PICK rs : /\ claims' = [claims EXCEPT ![h] = @ \ rs] /\ robbed' = [robbed EXCEPT ![h] = @ \ rs]
                    /\ stage' = [stage EXCEPT ![h] = IF claims[h] \subseteq rs THEN "off" ELSE "injecting"]
                    /\ lease' = Vacate(h, rs) \/ (lease' = Vacate(h, Id) /\ rs = claims[h])
      BY <2>5 DEF ReleaseLease, HookThrows, HookDies, Drop
    <3>2. ASSUME NEW g \in Hook
          PROVE  robbed'[g] \subseteq claims'[g] /\ (stage'[g] \in {"off", "draining"} => claims'[g] = {})
      BY <1>t, <3>1 DEF ClaimsKnown, DispatchTypeOK
    <3>3. ASSUME NEW r \in Id, lease'[r] # "free" PROVE r \in claims'[lease'[r]] \ robbed'[lease'[r]]
      <4>1. /\ lease'[r] = lease[r] /\ lease[r] \in Hook /\ r \in claims[lease[r]] \ robbed[lease[r]]
            /\ lease[r] = h => r \notin rs
        BY <1>t, <3>1, <3>3 DEF Vacate, ClaimsKnown, DispatchTypeOK
      <4> QED  BY <1>t, <3>1, <4>1 DEF DispatchTypeOK
    <3> QED  BY <3>2, <3>3 DEF ClaimsKnown
  <2> QED  BY <1>3, <2>1, <2>2, <2>3, <2>4, <2>5 DEF HookMoves, HookStep
<1>4. CASE BreakDispatchLock \/ OtherExec \/ UNCHANGED dispatchVars
  BY <1>1, <1>4 DEF BreakDispatchLock, OtherExec, dispatchVars
<1> QED  BY <1>1, <1>2, <1>3, <1>4 DEF DispatchNext, HookMoves

----------------------------------------------------------------------------
(* Tries are paid for. *)

\* A hook's step counts no other hook in or out.
LEMMA OthersCount ==
  ASSUME DispatchTypeOK, NEW h \in Hook, HookMoves(h), NEW r \in Id
  PROVE  /\ Left(r)' \in SUBSET Hook /\ Unreported(r)' \in SUBSET Hook
         /\ Left(r)' \subseteq Left(r) \cup {h}
         /\ Unreported(r)' \subseteq Unreported(r) \cup {h} /\ Unreported(r) \subseteq Unreported(r)' \cup {h}
<1>1. \A g \in Hook \ {h} : UNCHANGED <<stage[g], claims[g], result[g]>>
  BY HookFrame
<1>2. \A g \in Hook \ {h} : (g \in Left(r)' <=> g \in Left(r)) /\ (g \in Unreported(r)' <=> g \in Unreported(r))
  BY <1>1 DEF Left, Unreported, Current
<1>3. Left(r)' \in SUBSET Hook /\ Unreported(r)' \in SUBSET Hook /\ Unreported(r) \in SUBSET Hook
  BY DEF Left, Unreported
<1> QED  BY <1>2, <1>3

LEMMA CountsTypeNext ==
  ASSUME DispatchTypeOK', NEW r \in Id
  PROVE  /\ Robbed(r)' \in SUBSET Hook /\ Unreported(r)' \in SUBSET Hook /\ Left(r)' \in SUBSET Hook
         /\ Cardinality(Robbed(r)') \in Nat /\ Cardinality(Unreported(r)') \in Nat
         /\ Cardinality(Left(r)') \in Nat
         /\ tries'[r] \in Nat /\ file'[r].attempts \in Nat /\ mishaps' \in Nat /\ Doomed(r)' \in {0, 1}
<1>1. Robbed(r)' \in SUBSET Hook /\ Unreported(r)' \in SUBSET Hook /\ Left(r)' \in SUBSET Hook
  BY DEF Robbed, Unreported, Left
<1>2. tries'[r] \in Nat /\ file'[r].attempts \in Nat /\ mishaps' \in Nat /\ Doomed(r)' \in {0, 1}
  BY DEF DispatchTypeOK, Entry, Doomed
<1> QED  BY <1>1, <1>2, CountType

\* A pending request stays accounted for if a step takes nothing from the balance of it.
LEMMA CountsBalance ==
  ASSUME DispatchTypeOK, DispatchTypeOK', NEW r \in Id, PendingCounts(r),
         file'[r].attempts < MaxUnconfirmed,
         tries'[r] + Cardinality(Robbed(r)') + Doomed(r)'
             + file[r].attempts + mishaps + Cardinality(Unreported(r))
           <= tries[r] + Cardinality(Robbed(r)) + Doomed(r)
             + file'[r].attempts + mishaps' + Cardinality(Unreported(r)')
  PROVE  PendingCounts(r)'
BY CountsType, CountsTypeNext DEF PendingCounts

\* Nobody is at a request that is not there.
LEMMA NobodyAtNone ==
  ASSUME DispatchInv, ClaimsKnown, NEW r \in Id, file[r].status = "none"
  PROVE  /\ r \notin Queued /\ lease[r] = "free" /\ Robbed(r) = {}
         /\ \A h \in Hook : r \notin claims[h]
<1>1. r \notin Queued
  BY DEF DispatchInv, QueueKnown, Fits
<1>2. \A h \in Hook : r \notin claims[h]
  BY <1>1 DEF DispatchInv, QueueKnown
<1>3. Robbed(r) = {}
  BY <1>2 DEF ClaimsKnown, Robbed
<1>4. lease[r] = "free"
  BY <1>2 DEF ClaimsKnown, DispatchInv, DispatchTypeOK
<1> QED  BY <1>1, <1>2, <1>3, <1>4

\* Once a request is not pending no hook claims it: a try is one of those that were left.
LEMMA EnoughStays ==
  ASSUME DispatchInv, DispatchTypeOK', ClaimsKnown, NEW h \in Hook, HookMoves(h), NEW r \in Id, Enough(r),
         ~bridge, file[r].status # "pending" \/ FinalizeWrites(h)
  PROVE  Enough(r)'
<1>t. DispatchTypeOK /\ mishaps' >= mishaps
  BY MishapsGrow DEF DispatchInv, DispatchNext, HookMoves
<1>a. ASSUME h \in Left(r)' => h \in Left(r), tries'[r] = tries[r] PROVE Enough(r)'
  <2>1. Left(r)' \in SUBSET Left(r)
    BY <1>a, <1>t, OthersCount
  <2>2. Cardinality(Left(r)') <= Cardinality(Left(r))
    BY <1>t, <2>1, CountsType, CountFewer
  <2> QED  BY <1>a, <1>t, <2>2, CountsType, CountsTypeNext DEF Enough
<1>c. stage[h] \in HookStage \ {"off", "draining"} => Current(h) \in claims[h] /\ Current(h) \in Id
  BY CurrentKnown
<1>1. CASE DrainReads(h)
  <2>1. claims'[h] = {} /\ tries' = tries
    BY <1>1 DEF DrainReads, ClaimsKnown
  <2> QED  BY <1>a, <2>1 DEF Left
<1>2. ASSUME NEW late \in SUBSET Hook, NEW cold \in SUBSET Issue, DrainWrites(h, late, cold) PROVE Enough(r)'
  <2>1. r \notin Claims(copy[h], late, cold)
    <3>1. copy[h] = file /\ file[r].status # "pending"
      BY <1>2 DEF DrainWrites, FinalizeWrites, DispatchInv, CopiesKnown, Locking
    <3> QED  BY <3>1 DEF Claims, Claimable
  <2>2. r \notin claims'[h] /\ tries' = tries
    BY <1>2, <1>t, <2>1 DEF DrainWrites, DispatchTypeOK
  <2> QED  BY <1>a, <2>2 DEF Left
<1>3. CASE InjectionFails(h)
  <2>1. claims' = claims /\ tries' = tries /\ stage[h] = "injecting"
    BY <1>3 DEF InjectionFails
  <2> QED  BY <1>a, <2>1 DEF Left
<1>4. CASE InjectUnconfirmed(h) \/ InjectConfirmed(h)
  <2>1. /\ claims' = claims /\ stage[h] = "injecting" /\ stage'[h] = "reporting"
        /\ tries' = [tries EXCEPT ![Current(h)] = @ + 1]
    BY <1>4, <1>t DEF InjectUnconfirmed, InjectConfirmed, DispatchTypeOK
  <2>c. Current(h) \in claims[h] /\ Current(h) \in Id /\ Current(h)' = Current(h)
    BY <1>c, <2>1 DEF HookStage, Current
  <2>2. CASE r # Current(h)
    BY <1>a, <1>t, <2>1, <2>2 DEF Left, DispatchTypeOK
  <2>3. CASE r = Current(h)
    <3>1. h \in Left(r) /\ h \notin Left(r)'
      BY <2>1, <2>c, <2>3 DEF Left
    <3>2. Left(r)' \subseteq Left(r) \ {h}
      BY <1>t, <3>1, OthersCount
    <3>3. Cardinality(Left(r)') + 1 <= Cardinality(Left(r))
      BY <1>t, <3>1, <3>2, CountsType, CountsTypeNext, CountOneLess
    <3>4. tries'[r] = tries[r] + 1
      BY <1>t, <2>1, <2>3 DEF DispatchTypeOK
    <3> QED  BY <1>t, <3>3, <3>4, CountsType, CountsTypeNext DEF Enough
  <2> QED  BY <2>2, <2>3
<1>5. CASE FinalizeReads(h) \/ FinalizeWrites(h)
  <2>1. /\ claims' = claims /\ tries' = tries /\ stage[h] \in {"reporting", "finalizing"}
        /\ stage'[h] \in {"finalizing", "releasing"}
    BY <1>5, <1>t DEF FinalizeReads, FinalizeWrites, DispatchTypeOK
  <2> QED  BY <1>a, <2>1 DEF Left, Current
<1>6. CASE ReleaseLease(h)
  <2>1. claims' = [claims EXCEPT ![h] = @ \ {Current(h)}] /\ tries' = tries
    BY <1>6 DEF ReleaseLease, Drop
  <2> QED  BY <1>a, <1>t, <2>1 DEF Left, DispatchTypeOK
<1>7. CASE HookThrows(h) \/ HookDies(h)
  <2>1. claims'[h] = {} /\ tries' = tries
    BY <1>7, <1>t DEF HookThrows, HookDies, Drop, DispatchTypeOK
  <2> QED  BY <1>a, <2>1 DEF Left
<1> QED  BY <1>1, <1>2, <1>3, <1>4, <1>5, <1>6, <1>7 DEF HookMoves, HookStep

\* While a request is pending every step of a hook that adds a try, takes a try from those to be
\* reported, or takes a lease, also adds what pays for it.
LEMMA PendingStays ==
  ASSUME DispatchInv, DispatchTypeOK', ClaimsKnown, NEW h \in Hook, HookMoves(h), NEW r \in Id,
         PendingCounts(r), ~bridge, file[r].status = "pending", file'[r].status = "pending"
  PROVE  PendingCounts(r)'
<1>t. DispatchTypeOK
  BY DEF DispatchInv
<1>n. /\ Robbed(r) \in SUBSET Hook /\ Unreported(r) \in SUBSET Hook
      /\ Robbed(r)' \in SUBSET Hook /\ Unreported(r)' \in SUBSET Hook
  BY <1>t, CountsType, CountsTypeNext
<1>m. /\ file[r].attempts < MaxUnconfirmed
      /\ \A S \in {Robbed(r), Unreported(r), Robbed(r)', Unreported(r)'} : Cardinality(S) \in Nat
      /\ tries[r] \in Nat /\ file[r].attempts \in Nat /\ mishaps \in Nat /\ Doomed(r) \in {0, 1}
      /\ tries'[r] \in Nat /\ file'[r].attempts \in Nat /\ mishaps' \in Nat /\ Doomed(r)' \in {0, 1}
  BY <1>t, CountsType, CountsTypeNext DEF PendingCounts
<1>c. stage[h] \in HookStage \ {"off", "draining"} => Current(h) \in claims[h] /\ Current(h) \in Id
  BY CurrentKnown
<1>u. ASSUME h \in Unreported(r) <=> h \in Unreported(r)' PROVE Unreported(r)' = Unreported(r)
  <2> HIDE DEF Unreported
  <2> QED  BY <1>t, <1>u, OthersCount
\* A step that changes neither the file nor who is robbed.
<1>a. ASSUME file'[r] = file[r], tries'[r] = tries[r], Robbed(r)' \subseteq Robbed(r), mishaps' >= mishaps,
             Doomed(r)' <= Doomed(r), h \in Unreported(r) <=> h \in Unreported(r)'
      PROVE  PendingCounts(r)'
  <2>1. Unreported(r)' = Unreported(r)
    BY <1>a, <1>u
  <2>2. Cardinality(Robbed(r)') <= Cardinality(Robbed(r))
    BY <1>a, <1>n, CountFewer
  <2>3. file'[r].attempts = file[r].attempts
    BY <1>a
  <2> QED  BY <1>a, <1>m, <1>t, <2>1, <2>2, <2>3, CountsBalance
<1>1. CASE DrainReads(h)
  <2>1. /\ UNCHANGED <<file, tries, robbed, mishaps>> /\ holder' = h /\ stage[h] = "off"
        /\ stage'[h] = "draining"
    BY <1>1, <1>t DEF DrainReads, DispatchTypeOK
  <2>2. Doomed(r)' <= Doomed(r)
    BY <1>m, <2>1 DEF Doomed
  <2> QED  BY <1>a, <1>m, <2>1, <2>2 DEF Robbed, Unreported
<1>2. ASSUME NEW late \in SUBSET Hook, NEW cold \in SUBSET Issue, DrainWrites(h, late, cold)
      PROVE  PendingCounts(r)'
  <2> DEFINE taken == Claims(copy[h], late, cold)
  <2>0. copy[h] = file
    BY <1>2 DEF DrainWrites, DispatchInv, CopiesKnown, Locking
  <2>1. /\ lease[r] \in {"free"} \cup late \/ r \notin taken
        /\ \A q \in taken : q \in Id
    BY DEF Claims, Claimable
  <2> HIDE DEF taken
  <2>2. /\ file' = file /\ tries' = tries /\ holder' = "free" /\ mishaps' = mishaps + Cardinality(late)
        /\ robbed' = [g \in Hook |->
                        IF g \in late THEN robbed[g] \cup {q \in taken : lease[q] = g} ELSE robbed[g]]
    BY <1>2, <2>0 DEF DrainWrites, taken
  <2>3. stage[h] = "draining" /\ stage'[h] \in {"off", "injecting"}
    BY <1>2, <1>t DEF DrainWrites, DispatchTypeOK
  <2>4. Doomed(r)' = 0 /\ (h \in Unreported(r) <=> h \in Unreported(r)')
    BY <2>2, <2>3 DEF Doomed, Unreported
  <2>5. Unreported(r)' = Unreported(r)
    BY <1>u, <2>4
  <2>6. Cardinality(late) \in Nat
    BY CountType
  <2>7. CASE r \in taken /\ lease[r] \in late
    <3>1. lease[r] \in Hook /\ Robbed(r)' \subseteq Robbed(r) \cup {lease[r]}
      BY <2>2, <2>7 DEF Robbed
    <3>2. Cardinality(Robbed(r)') <= Cardinality(Robbed(r)) + 1
      BY <1>n, <3>1, CountOneMore
    <3>3. Cardinality(late) >= 1
      <4>1. Cardinality(late \ {lease[r]}) + 1 <= Cardinality(late)
        BY <2>7, CountOneLess
      <4>2. Cardinality(late \ {lease[r]}) \in Nat
        BY CountType
      <4> QED  BY <2>6, <4>1, <4>2
    <3> QED  BY <1>m, <1>t, <2>2, <2>4, <2>5, <2>6, <3>2, <3>3, CountsBalance
  <2>8. CASE ~(r \in taken /\ lease[r] \in late)
    <3>1. Robbed(r)' \subseteq Robbed(r)
      <4>1. lease[r] = "free" \/ r \notin taken
        BY <2>1, <2>8
      <4>2. ASSUME NEW g \in Hook, r \in robbed'[g] PROVE r \in robbed[g]
        BY <2>2, <4>1, <4>2
      <4> QED  BY <4>2 DEF Robbed
    <3>2. mishaps' >= mishaps
      BY <1>m, <2>2, <2>6
    <3> QED  BY <1>a, <1>m, <2>2, <2>4, <3>1, <3>2
  <2> QED  BY <2>7, <2>8
<1>3. CASE InjectionFails(h)
  <2>1. /\ UNCHANGED <<file, tries, robbed, mishaps, holder, lease>> /\ stage[h] = "injecting"
        /\ result'[h] = "failed"
    BY <1>3, <1>t DEF InjectionFails, DispatchTypeOK
  <2> QED  BY <1>a, <1>m, <2>1 DEF Robbed, Unreported, Doomed
<1>4. CASE InjectUnconfirmed(h) \/ InjectConfirmed(h)
  <2>1. /\ UNCHANGED <<file, robbed, mishaps, holder, lease, claims>> /\ stage[h] = "injecting"
        /\ result'[h] # "failed" /\ stage'[h] = "reporting"
        /\ tries' = [tries EXCEPT ![Current(h)] = @ + 1]
    BY <1>4, <1>t DEF InjectUnconfirmed, InjectConfirmed, DispatchTypeOK
  <2>2. Robbed(r)' = Robbed(r) /\ Doomed(r)' = Doomed(r)
    BY <2>1 DEF Robbed, Doomed
  <2>3. CASE r # Current(h)
    <3>1. h \notin Unreported(r) /\ h \notin Unreported(r)'
      BY <2>1, <2>3 DEF Unreported, Current
    <3>2. tries'[r] = tries[r]
      BY <1>t, <2>1, <2>3 DEF DispatchTypeOK
    <3> QED  BY <1>a, <1>m, <2>1, <2>2, <3>1, <3>2
  <2>4. CASE r = Current(h)
    <3>1. h \notin Unreported(r) /\ h \in Unreported(r)'
      BY <2>1, <2>4 DEF Unreported, Current
    <3>2. Unreported(r) \subseteq Unreported(r)' \ {h}
      <4> HIDE DEF Unreported
      <4> QED  BY <1>t, <3>1, OthersCount
    <3>3. Cardinality(Unreported(r)) + 1 <= Cardinality(Unreported(r)')
      BY <1>n, <3>1, <3>2, CountOneLess
    <3>4. tries'[r] = tries[r] + 1
      BY <1>t, <2>1, <2>4 DEF DispatchTypeOK
    <3>5. file'[r].attempts = file[r].attempts /\ mishaps' = mishaps
      BY <2>1
    <3> HIDE DEF Unreported, Robbed, Doomed
    <3> QED  BY <1>m, <1>t, <2>2, <3>3, <3>4, <3>5, CountsBalance
  <2> QED  BY <2>3, <2>4
<1>5. CASE FinalizeReads(h)
  <2>1. /\ UNCHANGED <<file, tries, robbed, mishaps, lease, claims, result>> /\ stage[h] = "reporting"
        /\ holder = "free" /\ holder' \in {"free", h}
    BY <1>5 DEF FinalizeReads
  <2>2. stage'[h] = "finalizing" \/ r # Current(h)
    BY <1>5, <1>t DEF FinalizeReads, DispatchTypeOK
  <2>3. stage'[h] \in {"finalizing", "releasing"}
    BY <1>5, <1>t DEF FinalizeReads, DispatchTypeOK
  <2>4. h \in Unreported(r) <=> h \in Unreported(r)'
    BY <2>1, <2>2, <2>3 DEF Unreported, Current
  <2>5. Robbed(r)' = Robbed(r) /\ Doomed(r)' <= Doomed(r)
    BY <2>1, <1>m DEF Robbed, Doomed
  <2> QED  BY <1>a, <1>m, <2>1, <2>4, <2>5
<1>6. CASE FinalizeWrites(h)
  <2>0. stage[h] = "finalizing" /\ copy[h] = file /\ Current(h) \in Id
    BY <1>6, <1>c DEF FinalizeWrites, DispatchInv, CopiesKnown, Locking, HookStage
  <2>1. /\ UNCHANGED <<tries, robbed, mishaps, lease, claims, result>> /\ holder' = "free"
        /\ stage'[h] = "releasing"
    BY <1>6, <1>t DEF FinalizeWrites, DispatchTypeOK
  <2>2. Robbed(r)' = Robbed(r) /\ Doomed(r)' = 0
    BY <2>1 DEF Robbed, Doomed
  <2>3. file' = [file EXCEPT ![Current(h)] =
                   [status |-> Verdict(h), attempts |-> IF Verdict(h) = "pending" THEN @.attempts + 1 ELSE 0]]
    BY <1>6, <2>0 DEF FinalizeWrites
  <2>4. CASE r # Current(h)
    <3>1. h \notin Unreported(r) /\ h \notin Unreported(r)'
      BY <2>1, <2>4 DEF Unreported, Current
    <3>2. file'[r] = file[r]
      BY <1>t, <2>3, <2>4 DEF DispatchTypeOK
    <3> QED  BY <1>a, <1>m, <2>1, <2>2, <3>1, <3>2
  <2>5. CASE r = Current(h)
    <3>1. file'[r] = [status |-> Verdict(h),
                      attempts |-> IF Verdict(h) = "pending" THEN file[r].attempts + 1 ELSE 0]
      BY <1>t, <2>0, <2>3, <2>5 DEF DispatchTypeOK
    <3>2. Verdict(h) = "pending" /\ file'[r].attempts = file[r].attempts + 1
      BY <3>1
    <3>3. file[r].attempts + 1 < MaxUnconfirmed
      <4>1. result[h] \in {"failed", "unconfirmed", "confirmed"}
        BY <1>t DEF DispatchTypeOK
      <4> QED  BY <2>0, <2>5, <3>2, <4>1 DEF Verdict, Outcome
    <3>4. Unreported(r) \subseteq Unreported(r)' \cup {h}
      BY <1>t, OthersCount
    <3>5. Cardinality(Unreported(r)) <= Cardinality(Unreported(r)') + 1
      BY <1>n, <3>4, CountOneMore
    <3> HIDE DEF Unreported, Robbed, Doomed
    <3> QED  BY <1>m, <1>t, <2>1, <2>2, <3>2, <3>3, <3>5, CountsBalance
  <2> QED  BY <2>4, <2>5
<1>7. CASE ReleaseLease(h)
  <2>1. /\ UNCHANGED <<file, tries, mishaps, holder>> /\ stage[h] = "releasing"
        /\ result'[h] = "failed" /\ lease' = Vacate(h, {Current(h)})
        /\ robbed' = [robbed EXCEPT ![h] = @ \ {Current(h)}]
    BY <1>7, <1>t DEF ReleaseLease, Drop, DispatchTypeOK
  <2>2. Robbed(r)' \subseteq Robbed(r)
    BY <1>t, <2>1 DEF Robbed, DispatchTypeOK
  <2>3. Doomed(r)' <= Doomed(r)
    BY <2>1 DEF Doomed, Vacate
  <2>4. h \notin Unreported(r) /\ h \notin Unreported(r)'
    BY <2>1 DEF Unreported
  <2> QED  BY <1>a, <1>m, <2>1, <2>2, <2>3, <2>4
\* A hook that gives everything up.
<1>g. ASSUME UNCHANGED <<file, tries>>, claims'[h] = {}, robbed'[h] = {}, result'[h] = "failed",
             \A g \in Hook \ {h} : robbed'[g] = robbed[g],
             lease[r] = h => lease'[r] = "free",
             \/ /\ mishaps' = mishaps + 1
                /\ Doomed(r)' <= Doomed(r) + (IF lease'[r] = "free" THEN 0 ELSE 1)
             \/ mishaps' = mishaps /\ holder = "orphan" /\ Doomed(r)' <= Doomed(r)
      PROVE  PendingCounts(r)'
  <2>0. Doomed(r)' + mishaps <= Doomed(r) + mishaps'
    <3> HIDE DEF Doomed
    <3>1. CASE mishaps' = mishaps + 1 /\ Doomed(r)' <= Doomed(r) + (IF lease'[r] = "free" THEN 0 ELSE 1)
      <4>1. Doomed(r)' <= Doomed(r) + 1
        BY <1>m, <3>1
      <4> QED  BY <1>m, <3>1, <4>1
    <3>2. CASE mishaps' = mishaps /\ holder = "orphan" /\ Doomed(r)' <= Doomed(r)
      BY <1>m, <3>2
    <3> QED  BY <1>g, <3>1, <3>2
  <2>1. h \notin Robbed(r)' /\ h \notin Unreported(r)' /\ Robbed(r)' \subseteq Robbed(r)
    BY <1>g DEF Robbed, Unreported
  <2>2. file'[r].attempts = file[r].attempts /\ tries'[r] = tries[r]
    BY <1>g
  <2>3. Cardinality(Robbed(r)') <= Cardinality(Robbed(r))
    BY <1>n, <2>1, CountFewer
  <2>4. CASE h \notin Unreported(r)
    <3>1. Unreported(r)' = Unreported(r)
      BY <1>u, <2>1, <2>4
    <3> HIDE DEF Unreported, Robbed, Doomed
    <3> QED  BY <1>m, <1>t, <2>0, <2>2, <2>3, <3>1, CountsBalance
  <2>5. CASE h \in Unreported(r)
    <3>1. r \in claims[h]
      BY <1>c, <2>5 DEF Unreported, HookStage
    <3>2. Cardinality(Unreported(r)) <= Cardinality(Unreported(r)') + 1
      <4>1. Unreported(r) \subseteq Unreported(r)' \cup {h}
        BY <1>t, OthersCount
      <4> QED  BY <1>n, <4>1, CountOneMore
    <3>3. CASE r \in robbed[h]
      <4>1. h \in Robbed(r) /\ Robbed(r)' \subseteq Robbed(r) \ {h}
        BY <2>1, <3>3 DEF Robbed
      <4>2. Cardinality(Robbed(r)') + 1 <= Cardinality(Robbed(r))
        BY <1>n, <4>1, CountOneLess
      <4> HIDE DEF Unreported, Robbed, Doomed
      <4> QED  BY <1>m, <1>t, <2>0, <2>2, <3>2, <4>2, CountsBalance
    <3>4. CASE r \notin robbed[h]
      <4>1. lease[r] = h /\ h # "free"
        BY <3>1, <3>4 DEF DispatchInv, LeasesKnown
      <4>2. Doomed(r)' = 0
        BY <1>g, <4>1 DEF Doomed
      <4>3. holder = "orphan" => Doomed(r) = 1
        BY <4>1 DEF Doomed
      <4>4. mishaps' = mishaps + 1 \/ (mishaps' = mishaps /\ holder = "orphan")
        BY <1>g
      <4>5. Doomed(r)' + mishaps + 1 <= Doomed(r) + mishaps'
        <5> HIDE DEF Doomed
        <5> QED  BY <1>m, <4>2, <4>3, <4>4
      <4> HIDE DEF Unreported, Robbed, Doomed
      <4> QED  BY <1>m, <1>t, <2>2, <2>3, <3>2, <4>5, CountsBalance
    <3> QED  BY <3>3, <3>4
  <2> QED  BY <2>4, <2>5
<1>8. CASE HookThrows(h)
  <2>1. /\ UNCHANGED <<file, tries, holder>> /\ KeepsFrom(h)
        /\ claims' = [claims EXCEPT ![h] = @ \ claims[h]] /\ robbed' = [robbed EXCEPT ![h] = @ \ claims[h]]
        /\ result'[h] = "failed" /\ lease' = Vacate(h, claims[h])
    BY <1>8, <1>t DEF HookThrows, Drop, DispatchTypeOK
  <2>2. claims'[h] = {} /\ robbed'[h] = {} /\ \A g \in Hook \ {h} : robbed'[g] = robbed[g]
    BY <1>t, <2>1 DEF DispatchTypeOK, ClaimsKnown
  <2>3. /\ lease[r] = h => lease'[r] = "free"
        /\ lease'[r] \in {"free", lease[r]}
    BY <2>1 DEF Vacate, ClaimsKnown
  <2>4. Doomed(r)' <= Doomed(r)
    BY <2>1, <2>3 DEF Doomed
  <2>5. mishaps' = mishaps + 1 \/ (mishaps' = mishaps /\ holder = "orphan")
    BY <2>1 DEF KeepsFrom
  <2>6. Doomed(r)' <= Doomed(r) + (IF lease'[r] = "free" THEN 0 ELSE 1)
    BY <2>4, <1>m
  <2> QED  BY <1>g, <2>1, <2>2, <2>3, <2>4, <2>5, <2>6
<1>9. CASE HookDies(h)
  <2>0. LogTold(h) = log
    BY DEF LogTold
  <2>1. /\ UNCHANGED <<file, tries>> /\ mishaps' = mishaps + 1
        /\ claims' = [claims EXCEPT ![h] = @ \ claims[h]] /\ robbed' = [robbed EXCEPT ![h] = @ \ claims[h]]
        /\ result'[h] = "failed" /\ lease' = Vacate(h, Id)
    BY <1>9, <1>t, <2>0 DEF HookDies, Drop, DispatchTypeOK
  <2>2. claims'[h] = {} /\ robbed'[h] = {} /\ \A g \in Hook \ {h} : robbed'[g] = robbed[g]
    BY <1>t, <2>1 DEF DispatchTypeOK, ClaimsKnown
  <2>3. lease[r] = h => lease'[r] = "free"
    BY <2>1 DEF Vacate
  <2>4. Doomed(r)' <= Doomed(r) + (IF lease'[r] = "free" THEN 0 ELSE 1)
    BY <1>m DEF Doomed
  <2> QED  BY <1>g, <2>1, <2>2, <2>3, <2>4
<1> QED  BY <1>1, <1>2, <1>3, <1>4, <1>5, <1>6, <1>7, <1>8, <1>9 DEF HookMoves, HookStep

LEMMA TriesStep == TriesInv /\ [DispatchNext]_dispatchVars => TriesInv'
<1> SUFFICES ASSUME DispatchInv, ClaimsKnown, TriesKnown, [DispatchNext]_dispatchVars
             PROVE  DispatchInv' /\ ClaimsKnown' /\ TriesKnown'
  BY DEF TriesInv
<1>t. DispatchTypeOK /\ DispatchTypeOK'
  BY TypeStep DEF DispatchInv
<1>i. DispatchInv' /\ ClaimsKnown'
  BY TypeStep, QueueStep, HooksStep, SendersStep, LeasesStep, TruthStep, CopiesStep, FailuresStep,
     SettledStep, ClaimsStep DEF DispatchInv
<1>m. mishaps \in Nat /\ mishaps' >= mishaps
  BY MishapsGrow
<1> SUFFICES ASSUME ~bridge', NEW r \in Id
             PROVE  /\ file'[r].status = "none" => tries'[r] = 0
                    /\ file'[r].status = "pending" => PendingCounts(r)'
                    /\ file'[r].status \notin {"none", "pending"} => Enough(r)'
  BY <1>i DEF TriesKnown
<1>q. /\ file[r].status = "none" <=> r \notin Queued
      /\ file'[r].status = "none" <=> r \notin Queued'
  BY <1>i DEF DispatchInv, QueueKnown, Fits
\* A step that leaves the hooks' counts alone.
<1>a. ASSUME UNCHANGED <<bridge, holder, stage, claims, result, lease, robbed, tries>>
      PROVE  /\ Robbed(r)' = Robbed(r) /\ Unreported(r)' = Unreported(r) /\ Left(r)' = Left(r)
             /\ Doomed(r)' = Doomed(r) /\ tries'[r] = tries[r]
             /\ (Enough(r) => Enough(r)')
             /\ (PendingCounts(r) /\ file'[r].attempts = file[r].attempts => PendingCounts(r)')
  <2>1. /\ Robbed(r)' = Robbed(r) /\ Unreported(r)' = Unreported(r) /\ Left(r)' = Left(r)
        /\ Doomed(r)' = Doomed(r) /\ tries'[r] = tries[r]
    BY <1>a DEF Robbed, Unreported, Left, Doomed, Current
  <2>2. Enough(r) => Enough(r)'
    BY <1>m, <1>t, <2>1, CountsType, CountsTypeNext DEF Enough
  <2>3. PendingCounts(r) /\ file'[r].attempts = file[r].attempts => PendingCounts(r)'
    BY <1>m, <1>t, <2>1, CountsType, CountsTypeNext DEF PendingCounts
  <2> QED  BY <2>1, <2>2, <2>3
<1>e. ~bridge /\ file[r].status # "none" => Enough(r)
  BY PendingEnough DEF TriesKnown
<1>1. ASSUME NEW s \in Sender, SenderStep(s)
      PROVE  /\ file'[r].status = "none" => tries'[r] = 0
             /\ file'[r].status = "pending" => PendingCounts(r)'
             /\ file'[r].status \notin {"none", "pending"} => Enough(r)'
  <2>f. UNCHANGED <<bridge, holder, stage, claims, result, lease, robbed>>
    BY <1>1, SenderFrame
  <2>g. tries' = tries
    <3>1. CASE \E w \in Worker, purpose \in Purpose : Enqueue(s, w, purpose) \/ EnqueueDuplicate(s, w, purpose)
      BY <3>1 DEF Enqueue, EnqueueDuplicate
    <3>2. CASE Receipt(s) \/ TypeDirectly(s) \/ TypingFails(s) \/ ReadCurrent(s)
      BY <3>2 DEF Receipt, TypeDirectly, TypingFails, ReadCurrent
    <3>3. CASE MarkNotified(s)
      BY <3>3 DEF MarkNotified
    <3>4. CASE PatchFailed(s) \/ LockTimesOut(s) \/ SenderReturns(s)
      BY <3>4 DEF PatchFailed, LockTimesOut, SenderReturns
    <3> QED  BY <1>1, <3>1, <3>2, <3>3, <3>4 DEF SenderStep
  <2>a. /\ Robbed(r)' = Robbed(r) /\ Unreported(r)' = Unreported(r) /\ Left(r)' = Left(r)
        /\ Doomed(r)' = Doomed(r) /\ tries'[r] = tries[r]
        /\ (Enough(r) => Enough(r)')
        /\ (PendingCounts(r) /\ file'[r].attempts = file[r].attempts => PendingCounts(r)')
    BY <1>a, <2>f, <2>g
  <2>1. CASE file[r].status = "none" /\ file'[r].status = "none"
    BY <2>1, <2>a, <2>f DEF TriesKnown
  <2>2. CASE file[r].status = "none" /\ file'[r].status # "none"
    <3>1. PICK w \in Worker, purpose \in Purpose : Enqueue(s, w, purpose)
      <4>1. CASE \E w \in Worker, purpose \in Purpose : EnqueueDuplicate(s, w, purpose)
        BY <1>q, <2>2, <4>1 DEF EnqueueDuplicate, Queued
      <4>2. CASE Receipt(s) \/ TypeDirectly(s) \/ TypingFails(s) \/ ReadCurrent(s)
        BY <1>q, <2>2, <4>2 DEF Receipt, TypeDirectly, TypingFails, ReadCurrent, Queued
      <4>3. CASE MarkNotified(s)
        BY <1>q, <2>2, <4>3 DEF MarkNotified, Queued
      <4>4. CASE PatchFailed(s) \/ LockTimesOut(s) \/ SenderReturns(s)
        BY <1>q, <2>2, <4>4 DEF PatchFailed, LockTimesOut, SenderReturns, Queued
      <4> QED  BY <1>1, <4>1, <4>2, <4>3, <4>4 DEF SenderStep
    <3>2. PICK n \in Nat : Queued = 1..n /\ Cardinality(Queued) = n /\ n + 1 \in Id \ Queued
      BY <3>1, NextNumber DEF Enqueue, DispatchInv
    <3>3. file' = [file EXCEPT ![n + 1] = Fresh]
      <4>1. ~bridge
        BY <2>f
      <4> QED  BY <3>1, <3>2, <4>1 DEF Enqueue
    <3>4. file'[r] = Fresh
      BY <1>t, <2>2, <3>2, <3>3 DEF DispatchTypeOK
    <3>5. file'[r].status = "pending" /\ file'[r].attempts = 0
      BY <3>4 DEF Fresh
    <3>6. Robbed(r) = {} /\ lease[r] = "free" /\ tries[r] = 0
      BY <2>2, <2>f, NobodyAtNone DEF TriesKnown
    <3>7. Cardinality(Robbed(r)') = 0 /\ Doomed(r)' = 0 /\ tries'[r] = 0
      BY <2>a, <3>6, FS_EmptySet DEF Doomed
    <3>8. PendingCounts(r)'
      BY <1>t, <3>5, <3>7, CountsTypeNext DEF PendingCounts
    <3> QED  BY <3>5, <3>8
  <2>3. CASE file[r].status # "none"
    <3>1. file'[r].status # "none" /\ Enough(r)'
      BY <1>e, <1>q, <2>3, <2>a, <2>f, <1>1, SenderWrites
    <3>2. ASSUME file'[r].status = "pending" PROVE PendingCounts(r)'
      <4>1. file[r].status = "pending"
        BY <1>q, <2>3, <2>f, <3>2, SettledStays
      <4>2. file'[r] = file[r]
        BY <1>1, <2>f, <3>2, <4>1, SenderWrites
      <4> QED  BY <2>a, <2>f, <4>1, <4>2 DEF TriesKnown
    <3> QED  BY <3>1, <3>2
  <2> QED  BY <2>1, <2>2, <2>3
<1>2. ASSUME NEW h \in Hook, HookMoves(h)
      PROVE  /\ file'[r].status = "none" => tries'[r] = 0
             /\ file'[r].status = "pending" => PendingCounts(r)'
             /\ file'[r].status \notin {"none", "pending"} => Enough(r)'
  <2>f. ~bridge /\ Queued' = Queued
    BY <1>2, <1>t, HookFrame DEF Queued
  <2>1. CASE file[r].status = "none"
    <3>1. ~ (InjectUnconfirmed(h) \/ InjectConfirmed(h)) => tries' = tries
      BY <1>2 DEF HookMoves, DrainReads, HookStep, DrainWrites, InjectionFails, FinalizeReads,
                  FinalizeWrites, ReleaseLease, HookThrows, HookDies
    <3>2. InjectUnconfirmed(h) \/ InjectConfirmed(h) =>
            /\ r # Current(h)
            /\ tries' = [tries EXCEPT ![Current(h)] = @ + 1]
      <4>1. r \notin claims[h]
        BY <2>1, NobodyAtNone
      <4>2. InjectUnconfirmed(h) \/ InjectConfirmed(h) => Current(h) \in claims[h]
        BY CurrentKnown DEF InjectUnconfirmed, InjectConfirmed, HookStage
      <4> QED  BY <2>f, <4>1, <4>2 DEF InjectUnconfirmed, InjectConfirmed
    <3>3. tries'[r] = tries[r] /\ tries[r] = 0
      BY <1>t, <2>1, <2>f, <3>1, <3>2 DEF DispatchTypeOK, TriesKnown
    <3> QED  BY <1>q, <2>1, <2>f, <3>3
  <2>2. CASE file[r].status = "pending" /\ file'[r].status = "pending"
    BY <1>2, <1>t, <2>2, <2>f, PendingStays DEF TriesKnown
  <2>3. CASE file[r].status = "pending" /\ file'[r].status # "pending"
    <3>1. FinalizeWrites(h)
      <4>1. stage[h] = "draining" => copy[h] = file
        BY <2>f DEF DispatchInv, CopiesKnown, Locking
      <4>2. LogTold(h) = log
        BY <2>f DEF LogTold
      <4> QED  BY <1>2, <2>3, <2>f, <4>1, <4>2
               DEF HookMoves, DrainReads, HookStep, DrainWrites, InjectionFails, InjectUnconfirmed,
                   InjectConfirmed, FinalizeReads, ReleaseLease, HookThrows, HookDies
    <3>2. Enough(r)'
      BY <1>2, <1>e, <1>t, <2>3, <2>f, <3>1, EnoughStays
    <3> QED  BY <1>q, <2>3, <2>f, <3>2
  <2>4. CASE file[r].status \notin {"none", "pending"}
    <3>1. Enough(r)'
      BY <1>2, <1>e, <1>t, <2>4, <2>f, EnoughStays
    <3>2. file'[r].status \notin {"none", "pending"}
      BY <1>q, <2>4, <2>f, SettledStays
    <3> QED  BY <3>1, <3>2
  <2> QED  BY <2>1, <2>2, <2>3, <2>4
<1>3. ASSUME BreakDispatchLock \/ UNCHANGED dispatchVars
      PROVE  /\ file'[r].status = "none" => tries'[r] = 0
             /\ file'[r].status = "pending" => PendingCounts(r)'
             /\ file'[r].status \notin {"none", "pending"} => Enough(r)'
  <2>1. /\ UNCHANGED <<bridge, file, stage, claims, result, lease, robbed, tries, mishaps>>
        /\ holder' \in {holder, "free"}
    BY <1>3 DEF BreakDispatchLock, dispatchVars
  <2>2. /\ Robbed(r)' = Robbed(r) /\ Unreported(r)' = Unreported(r) /\ Left(r)' = Left(r)
        /\ tries'[r] = tries[r]
    BY <2>1 DEF Robbed, Unreported, Left, Current
  <2>3. Doomed(r)' <= Doomed(r)
    <3>1. Doomed(r)' \in {Doomed(r), 0} /\ Doomed(r) \in {0, 1}
      BY <2>1 DEF Doomed
    <3> QED  BY <3>1
  <2>4. PendingCounts(r) => PendingCounts(r)'
    BY <1>t, <2>1, <2>2, <2>3, CountsType, CountsTypeNext DEF PendingCounts
  <2>5. Enough(r) => Enough(r)'
    BY <2>1, <2>2 DEF Enough
  <2> QED  BY <2>1, <2>2, <2>4, <2>5 DEF TriesKnown
<1>4. ~ OtherExec
  BY <1>t DEF OtherExec, settingVars
<1> QED  BY <1>1, <1>2, <1>3, <1>4 DEF DispatchNext, HookMoves

\* However drains, senders and reports interleave, a trigger that is never confirmed is typed
\* MAX_UNCONFIRMED_ATTEMPTS times, and at most once more for each mishap.
THEOREM TriesAlwaysBounded == DispatchSpec => []TriesBounded
<1>1. DispatchInit => TriesInv
  <2> SUFFICES ASSUME DispatchInit PROVE TriesInv
    OBVIOUS
  <2>1. ClaimsKnown
    BY DEF DispatchInit, ClaimsKnown
  <2>2. \A r \in Id : file[r].status = "none" /\ tries[r] = 0
    BY DEF DispatchInit, NoCopy, NoEntry
  <2>3. TriesKnown
    BY <2>2 DEF TriesKnown
  <2> QED  BY <2>1, <2>3, InitDispatchInv DEF TriesInv
<1>2. TriesInv => TriesBounded
  <2> SUFFICES ASSUME TriesInv, ~bridge, NEW r \in Id PROVE tries[r] <= MaxUnconfirmed + mishaps
    BY DEF TriesBounded
  <2>t. DispatchTypeOK
    BY DEF TriesInv, DispatchInv
  <2>1. CASE file[r].status = "none"
    BY <2>1, <2>t, CountsType DEF TriesInv, TriesKnown
  <2>2. CASE file[r].status # "none"
    <3>1. Enough(r)
      BY <2>2, PendingEnough DEF TriesInv, TriesKnown
    <3> QED  BY <2>t, <3>1, CountsType DEF Enough
  <2> QED  BY <2>1, <2>2
<1> QED  BY <1>1, <1>2, TriesStep, PTL DEF DispatchSpec

----------------------------------------------------------------------------
(* The dispatch lock. *)

LEMMA DispatchLockStep ==
  DispatchInv /\ [DispatchNext]_dispatchVars => [DispatchLock!Next]_(DispatchLock!heldVars)
<1> SUFFICES ASSUME DispatchInv, [DispatchNext]_dispatchVars
             PROVE  [DispatchLock!Next]_(DispatchLock!heldVars)
  OBVIOUS
<1> DEFINE users == {h \in Hook : stage[h] \in Locking}
<1>t. /\ DispatchTypeOK /\ stage \in [Hook -> HookStage]
      /\ \A h \in Hook : stage[h] \in Locking => holder = h
  BY DEF DispatchInv, DispatchTypeOK, HooksKnown
<1>s. ASSUME holder' = holder, users' = users PROVE [DispatchLock!Next]_(DispatchLock!heldVars)
  BY <1>s DEF DispatchLock!heldVars, Locking
<1>g. ASSUME NEW h \in Hook, holder = h, holder' = "free", users' = users \ {h}
      PROVE  [DispatchLock!Next]_(DispatchLock!heldVars)
  BY <1>g DEF DispatchLock!Next, DispatchLock!Give, Locking
<1>1. ASSUME NEW s \in Sender, SenderStep(s) PROVE [DispatchLock!Next]_(DispatchLock!heldVars)
  BY <1>1, <1>t, <1>s, SenderFrame
<1>2. ASSUME NEW h \in Hook, HookMoves(h) PROVE [DispatchLock!Next]_(DispatchLock!heldVars)
  <2>1. CASE DrainReads(h) \/ (FinalizeReads(h) /\ file[Current(h)].status = "pending")
    <3>1. /\ holder = "free" /\ holder' = h
          /\ \E next \in Locking : stage' = [stage EXCEPT ![h] = next]
      BY <2>1 DEF DrainReads, FinalizeReads, Locking
    <3>2. users' = users \cup {h}
      BY <1>t, <3>1
    <3> QED  BY <3>1, <3>2 DEF DispatchLock!Next, DispatchLock!Take, Locking
  <2>2. ASSUME NEW late \in SUBSET Hook, NEW cold \in SUBSET Issue, DrainWrites(h, late, cold)
        PROVE  [DispatchLock!Next]_(DispatchLock!heldVars)
    <3>1. /\ stage[h] = "draining" /\ holder' = "free"
          /\ \E next \in {"off", "injecting"} : stage' = [stage EXCEPT ![h] = next]
      BY <2>2 DEF DrainWrites
    <3>2. holder = h /\ users' = users \ {h}
      BY <1>t, <3>1 DEF Locking
    <3> QED  BY <1>g, <3>1, <3>2
  <2>3. CASE InjectionFails(h) \/ InjectUnconfirmed(h) \/ InjectConfirmed(h) \/ ReleaseLease(h)
             \/ HookThrows(h) \/ (FinalizeReads(h) /\ file[Current(h)].status # "pending")
    <3>1. /\ stage[h] \notin Locking /\ holder' = holder
          /\ \E next \in HookStage \ Locking : stage' = [stage EXCEPT ![h] = next]
      BY <2>3 DEF InjectionFails, InjectUnconfirmed, InjectConfirmed, ReleaseLease, HookThrows, Drop,
                  FinalizeReads, HookStage, Locking
    <3>2. users' = users
      BY <1>t, <3>1
    <3> QED  BY <1>s, <3>1, <3>2
  <2>4. CASE FinalizeWrites(h)
    <3>1. stage[h] = "finalizing" /\ holder' = "free" /\ stage' = [stage EXCEPT ![h] = "releasing"]
      BY <2>4 DEF FinalizeWrites
    <3>2. holder = h /\ users' = users \ {h}
      BY <1>t, <3>1 DEF Locking
    <3> QED  BY <1>g, <3>1, <3>2
  <2>5. CASE HookDies(h)
    <3>1. /\ holder' = IF holder = h THEN "orphan" ELSE holder
          /\ \E next \in {"off", "injecting"} : stage' = [stage EXCEPT ![h] = next]
      BY <2>5 DEF HookDies, Drop
    <3>2. users' = users \ {h}
      BY <1>t, <3>1 DEF Locking
    <3>3. CASE holder = h
      BY <3>1, <3>2, <3>3 DEF DispatchLock!Next, DispatchLock!Abandon, Locking
    <3>4. CASE holder # h
      <4>1. h \notin users
        BY <1>t, <3>4
      <4> QED  BY <1>s, <3>1, <3>2, <3>4, <4>1
    <3> QED  BY <3>3, <3>4
  <2> QED
    BY <1>2, <2>1, <2>2, <2>3, <2>4, <2>5 DEF HookMoves, HookStep
<1>3. CASE BreakDispatchLock
  BY <1>3 DEF BreakDispatchLock, hookVars, DispatchLock!Next, DispatchLock!Clear
<1>4. CASE OtherExec \/ UNCHANGED dispatchVars
  BY <1>4, <1>s DEF OtherExec, dispatchVars, queueVars, hookVars
<1> QED  BY <1>1, <1>2, <1>3, <1>4 DEF DispatchNext, HookMoves

\* Between hooks that drain and report the dispatch lock is the lock HeldLock describes.
THEOREM DispatchLockUsedAsPromised == DispatchSpec => DispatchLockUsed
<1>1. DispatchInit => DispatchLock!Init
  BY DEF DispatchInit, DispatchLock!Init
<1> QED  BY <1>1, DispatchLockStep, DispatchCorrect, PTL DEF DispatchSpec, DispatchLockUsed, DispatchLock!Spec
=============================================================================
