------------------------------ MODULE DirLock ------------------------------
(***************************************************************************)
(* The lock every file of a team is changed under: a directory that mkdir  *)
(* creates for one process only, with the holder's token in a file inside. *)
(* withTaskClaimLock, withTeamLock, withScalingLock, withMailboxLock and   *)
(* withDispatchLock are five copies of this protocol.  A waiter removes a  *)
(* directory that has grown older than LOCK_STALE_MS; the look at its age  *)
(* and the removal are two system calls, as are the look at the owner file *)
(* and the removal when the lock is given back.                            *)
(*                                                                         *)
(* One lock; every process asks for it once.  TeamTasks uses what is shown *)
(* here: its lock is this directory, its "orphan" a directory whose maker  *)
(* is dead, and its LiveLocksBroken says whether anybody can be robbed.    *)
(***************************************************************************)
EXTENDS Naturals

CONSTANTS
  Proc,          \* processes, each with a token of its own
  SlowHolders    \* may a live holder keep the lock for longer than LOCK_STALE_MS?

ASSUME NoneAssumption == "none" \notin Proc
ASSUME SlowAssumption == SlowHolders \in BOOLEAN

VARIABLES
  dir,      \* the lock directory
  stage,    \* stage[p]: how far p is
  robbed    \* history: robbed[p] is how far p was when a waiter removed its directory,
            \* taking it for one left behind; "no" if that has not happened

lockVars == <<dir, stage, robbed>>

Stage == {"trying", "looking", "breaking", "waiting", "made", "inside", "leaving", "removing",
          "done", "gaveUp", "failed", "dead"}
Ended == {"done", "gaveUp", "failed", "dead"}
Using == {"made", "inside", "leaving", "removing"}

Name == Proc \cup {"none"}
Dir == [maker: Name, owner: Name, old: BOOLEAN]
NoDir == [maker |-> "none", owner |-> "none", old |-> FALSE]

Init ==
  /\ dir = NoDir
  /\ stage = [p \in Proc |-> "trying"]
  /\ robbed = [p \in Proc |-> "no"]

----------------------------------------------------------------------------
Go(p, next) == stage' = [stage EXCEPT ![p] = next]

\* rm with force: whatever directory has the name now.
Remove == dir' = NoDir

\* Seeded fault: a directory that exists already is as good as one's own.
MkdirAnyway(p) ==
  /\ stage[p] = "trying"
  /\ dir' = [NoDir EXCEPT !.maker = p]
  /\ Go(p, "made")
  /\ UNCHANGED robbed

Mkdir(p) ==
  /\ stage[p] = "trying"
  /\ \/ dir = NoDir /\ dir' = [NoDir EXCEPT !.maker = p] /\ Go(p, "made")
     \/ dir # NoDir /\ dir' = dir /\ Go(p, "looking")
  /\ UNCHANGED robbed

\* Seeded fault: the file ends up with half a token in it.
WriteOwnerTorn(p) ==
  /\ stage[p] = "made"
  /\ dir # NoDir
  /\ dir' = [dir EXCEPT !.owner = "torn"]
  /\ Go(p, "inside")
  /\ UNCHANGED robbed

\* The file is written into whatever directory has the name by now; a new file makes that
\* directory young again.  Without a directory the write fails.
WriteOwner(p) ==
  /\ stage[p] = "made"
  /\ dir # NoDir
  /\ dir' = [dir EXCEPT !.owner = p, !.old = @ /\ dir.owner # "none"]
  /\ Go(p, "inside")
  /\ UNCHANGED robbed

\* Seeded fault: the directory stays when the file could not be written.
WriteFailsLeavingDir(p) == stage[p] = "made" /\ Go(p, "failed") /\ UNCHANGED <<dir, robbed>>

\* It may fail for other reasons too (disk, permissions).
WriteOwnerFails(p) == stage[p] = "made" /\ Remove /\ Go(p, "failed") /\ UNCHANGED robbed

\* Seeded faults: the age is compared the wrong way round; the deadline is not looked at.
LookForYoung(p) ==
  /\ stage[p] = "looking"
  /\ Go(p, IF dir # NoDir /\ ~dir.old THEN "breaking" ELSE "waiting")
  /\ UNCHANGED <<dir, robbed>>

LookAndRetry(p) ==
  /\ stage[p] = "looking"
  /\ Go(p, IF dir # NoDir /\ dir.old THEN "breaking" ELSE "trying")
  /\ UNCHANGED <<dir, robbed>>

\* maybeRecoverStaleLock: stat, and if the directory is too old, rm.
Look(p) ==
  /\ stage[p] = "looking"
  /\ Go(p, IF dir # NoDir /\ dir.old THEN "breaking" ELSE "waiting")
  /\ UNCHANGED <<dir, robbed>>

Break(p) ==
  /\ stage[p] = "breaking"
  /\ Remove
  /\ robbed' = [q \in Proc |-> IF q = dir.maker /\ stage[q] \in Using THEN stage[q] ELSE robbed[q]]
  /\ Go(p, "trying")

Sleep(p) == stage[p] = "waiting" /\ Go(p, "trying") /\ UNCHANGED <<dir, robbed>>

\* The deadline is over: an error for the caller.
GiveUp(p) == stage[p] = "waiting" /\ Go(p, "gaveUp") /\ UNCHANGED <<dir, robbed>>

\* The critical section is over, with a result or an exception.
Leave(p) == stage[p] = "inside" /\ Go(p, "leaving") /\ UNCHANGED <<dir, robbed>>

\* Seeded fault: the owner file is not looked at.
ReadNoOwner(p) == stage[p] = "leaving" /\ Go(p, "removing") /\ UNCHANGED <<dir, robbed>>

ReadOwner(p) ==
  /\ stage[p] = "leaving"
  /\ Go(p, IF dir.owner = p THEN "removing" ELSE "done")
  /\ UNCHANGED <<dir, robbed>>

GiveBack(p) == stage[p] = "removing" /\ Remove /\ Go(p, "done") /\ UNCHANGED robbed

Die(p) == stage[p] \notin Ended /\ Go(p, "dead") /\ UNCHANGED <<dir, robbed>>

\* Five minutes pass over a directory nobody removes.
GrowOld ==
  /\ dir # NoDir
  /\ SlowHolders \/ stage[dir.maker] \notin Using
  /\ dir' = [dir EXCEPT !.old = TRUE]
  /\ UNCHANGED <<stage, robbed>>

Step(p) ==
  \/ Mkdir(p) \/ WriteOwner(p) \/ WriteOwnerFails(p)
  \/ Look(p) \/ Break(p) \/ Sleep(p) \/ GiveUp(p)
  \/ Leave(p) \/ ReadOwner(p) \/ GiveBack(p)

Next == GrowOld \/ \E p \in Proc : Step(p) \/ Die(p)

Spec == Init /\ [][Next]_lockVars

\* A process that has not died goes on; a waiter's deadline comes.
Fairness == \A p \in Proc : WF_lockVars(Step(p)) /\ SF_lockVars(GiveUp(p))
FairSpec == Spec /\ Fairness
----------------------------------------------------------------------------
(* Properties. *)

\* Every variable holds a value of its type.
LockTypeOK ==
  /\ dir \in Dir
  /\ stage \in [Proc -> Stage]
  /\ robbed \in [Proc -> Using \cup {"no"}]

\* At most one process is in the critical section.
MutualExclusion == \A p, q \in Proc : stage[p] = "inside" /\ stage[q] = "inside" => p = q

NobodyRobbed == \A p \in Proc : robbed[p] = "no"

\* The protocol itself, with all its deaths, failed writes and races for the name, never lets
\* two processes in: that takes a waiter which removes the directory of a live holder.
OnlyRecoveryLetsTwoIn == NobodyRobbed => MutualExclusion

\* A holder whose directory was taken away while it was inside leaves the directory alone that
\* it finds when it is through: one wrong recovery does not unlock the next holder as well.
RobbedHolderKeepsOff == \A p \in Proc : robbed[p] = "inside" => stage[p] # "removing"

\* When everybody is through, the directory is gone, unless somebody died on the way: neither
\* late owner files nor the owner check at the end leave a lock behind that nobody holds.
NothingLeftBehind ==
  (\A p \in Proc : stage[p] \in Ended \ {"dead"}) => dir = NoDir

\* The directory, to those who ask for it.
Held == INSTANCE HeldLock WITH
  lock <- IF dir = NoDir THEN "free" ELSE IF stage[dir.maker] \in Using THEN dir.maker ELSE "orphan",
  users <- {p \in Proc : stage[p] \in Using}

\* Until a live holder is robbed, the system calls of the protocol, with its waiters, failed
\* writes and deaths, are the steps of one lock: taken when it is free, given back by its holder
\* only, left behind only by a death, cleared only then.
LocksLikeHeld == [][NobodyRobbed' => [Held!Next]_(Held!heldVars)]_lockVars

\* A directory whose maker is dead does not outlive the next process that meets it and sees its
\* age, unless that one dies as well.
OrphanRecovered ==
  \A m, p \in Proc :
    (dir.maker = m /\ stage[m] = "dead" /\ dir.old /\ stage[p] \in {"trying", "looking"})
      ~> (dir.maker # m \/ ~dir.old \/ stage[p] = "dead")

\* Everybody who asks for the lock gets it, an error, or dies: nobody waits for ever.
EverybodyEnds == \A p \in Proc : <>(stage[p] \in Ended)
=============================================================================
