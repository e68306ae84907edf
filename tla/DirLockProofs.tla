--------------------------- MODULE DirLockProofs ---------------------------
(***************************************************************************)
(* What DirLock's safety properties rest on, for any number of processes   *)
(* and whether or not a live holder can be slow.                           *)
(***************************************************************************)
EXTENDS DirLock, TLAPS

USE NoneAssumption, SlowAssumption

\* Until somebody is robbed, whoever uses the lock made the directory that is there.
MakersHoldIt == NobodyRobbed => \A p \in Proc : stage[p] \in Using => dir.maker = p

\* The directory is there on behalf of somebody who will still remove it, or has died: its
\* maker until there is an owner file, then the owner.
SomebodyAnswers ==
  dir # NoDir =>
    /\ dir.maker \in Proc
    /\ dir.owner = "none" => stage[dir.maker] \in {"made", "dead"}
    /\ dir.owner # "none" => stage[dir.owner] \in {"inside", "leaving", "removing", "dead"}

\* A holder that was robbed inside has no owner file and will not write another.
NoTokenLeft ==
  \A p \in Proc :
    robbed[p] = "inside" =>
      /\ stage[p] \in {"inside", "leaving", "done", "dead"}
      /\ dir.owner # p

LockInv == LockTypeOK /\ MakersHoldIt /\ SomebodyAnswers /\ NoTokenLeft

LEMMA InitLockInv == Init => LockInv
  BY DEF Init, LockInv, LockTypeOK, MakersHoldIt, SomebodyAnswers, NoTokenLeft, NobodyRobbed,
         Dir, Name, NoDir, Stage, Using

LEMMA TypeStep == LockTypeOK /\ [Next]_lockVars => LockTypeOK'
<1> SUFFICES ASSUME LockTypeOK, [Next]_lockVars PROVE LockTypeOK'
  OBVIOUS
<1> USE DEF LockTypeOK, Dir, Name, NoDir, Stage, Using, Go, Remove
<1>1. CASE GrowOld
  BY <1>1 DEF GrowOld
<1>2. ASSUME NEW p \in Proc, Step(p) \/ Die(p) PROVE LockTypeOK'
  <2>1. CASE Mkdir(p)  BY <2>1 DEF Mkdir
  <2>2. CASE WriteOwner(p)  BY <2>2 DEF WriteOwner
  <2>3. CASE WriteOwnerFails(p)  BY <2>3 DEF WriteOwnerFails
  <2>4. CASE Look(p)  BY <2>4 DEF Look
  <2>5. CASE Break(p)  BY <2>5 DEF Break
  <2>6. CASE Sleep(p) \/ GiveUp(p) \/ Leave(p)  BY <2>6 DEF Sleep, GiveUp, Leave
  <2>7. CASE ReadOwner(p)  BY <2>7 DEF ReadOwner
  <2>8. CASE GiveBack(p)  BY <2>8 DEF GiveBack
  <2>9. CASE Die(p)  BY <2>9 DEF Die
  <2> QED  BY <1>2, <2>1, <2>2, <2>3, <2>4, <2>5, <2>6, <2>7, <2>8, <2>9 DEF Step
<1>3. CASE UNCHANGED lockVars
  BY <1>3 DEF lockVars
<1> QED  BY <1>1, <1>2, <1>3 DEF Next

LEMMA MakersStep ==
  LockTypeOK /\ MakersHoldIt /\ [Next]_lockVars => MakersHoldIt'
<1> SUFFICES ASSUME LockTypeOK, MakersHoldIt, [Next]_lockVars, NobodyRobbed',
                    NEW q \in Proc, stage'[q] \in Using
             PROVE  dir'.maker = q
  BY DEF MakersHoldIt
<1> USE DEF LockTypeOK, MakersHoldIt, NobodyRobbed, Dir, Name, NoDir, Stage, Using, Go, Remove
<1>1. CASE GrowOld
  BY <1>1 DEF GrowOld
<1>2. ASSUME NEW p \in Proc, Step(p) \/ Die(p) PROVE dir'.maker = q
  <2>1. CASE Mkdir(p)  BY <2>1 DEF Mkdir
  <2>2. CASE WriteOwner(p)  BY <2>2 DEF WriteOwner
  <2>3. CASE WriteOwnerFails(p)  BY <2>3 DEF WriteOwnerFails
  <2>4. CASE Look(p)  BY <2>4 DEF Look
  <2>5. CASE Break(p)
    <3>1. q # p /\ stage[q] \in Using  BY <2>5 DEF Break
    <3>2. robbed'[q] = "no"  OBVIOUS
    <3>3. q # dir.maker  BY <2>5, <3>1, <3>2 DEF Break
    <3>4. NobodyRobbed
      <4> SUFFICES ASSUME NEW r \in Proc PROVE robbed[r] = "no"
        OBVIOUS
      <4>1. robbed'[r] = "no"  OBVIOUS
      <4> QED  BY <2>5, <4>1 DEF Break
    <3> QED  BY <3>1, <3>3, <3>4
  <2>6. CASE Sleep(p) \/ GiveUp(p) \/ Leave(p)  BY <2>6 DEF Sleep, GiveUp, Leave
  <2>7. CASE ReadOwner(p)  BY <2>7 DEF ReadOwner
  <2>8. CASE GiveBack(p)  BY <2>8 DEF GiveBack
  <2>9. CASE Die(p)  BY <2>9 DEF Die
  <2> QED  BY <1>2, <2>1, <2>2, <2>3, <2>4, <2>5, <2>6, <2>7, <2>8, <2>9 DEF Step
<1>3. CASE UNCHANGED lockVars
  BY <1>3 DEF lockVars
<1> QED  BY <1>1, <1>2, <1>3 DEF Next

LEMMA AnswersStep ==
  LockTypeOK /\ SomebodyAnswers /\ [Next]_lockVars => SomebodyAnswers'
<1> SUFFICES ASSUME LockTypeOK, SomebodyAnswers, [Next]_lockVars PROVE SomebodyAnswers'
  OBVIOUS
<1> USE DEF LockTypeOK, SomebodyAnswers, Dir, Name, NoDir, Stage, Using, Go, Remove
<1>1. CASE GrowOld
  BY <1>1 DEF GrowOld
<1>2. ASSUME NEW p \in Proc, Step(p) \/ Die(p) PROVE SomebodyAnswers'
  <2>1. CASE Mkdir(p)  BY <2>1 DEF Mkdir
  <2>2. CASE WriteOwner(p)  BY <2>2 DEF WriteOwner
  <2>3. CASE WriteOwnerFails(p)  BY <2>3 DEF WriteOwnerFails
  <2>4. CASE Look(p)  BY <2>4 DEF Look
  <2>5. CASE Break(p)  BY <2>5 DEF Break
  <2>6. CASE Sleep(p) \/ GiveUp(p) \/ Leave(p)  BY <2>6 DEF Sleep, GiveUp, Leave
  <2>7. CASE ReadOwner(p)  BY <2>7 DEF ReadOwner
  <2>8. CASE GiveBack(p)  BY <2>8 DEF GiveBack
  <2>9. CASE Die(p)  BY <2>9 DEF Die
  <2> QED  BY <1>2, <2>1, <2>2, <2>3, <2>4, <2>5, <2>6, <2>7, <2>8, <2>9 DEF Step
<1>3. CASE UNCHANGED lockVars
  BY <1>3 DEF lockVars
<1> QED  BY <1>1, <1>2, <1>3 DEF Next

LEMMA TokenStep ==
  LockTypeOK /\ NoTokenLeft /\ [Next]_lockVars => NoTokenLeft'
<1> SUFFICES ASSUME LockTypeOK, NoTokenLeft, [Next]_lockVars PROVE NoTokenLeft'
  OBVIOUS
<1> USE DEF LockTypeOK, NoTokenLeft, Dir, Name, NoDir, Stage, Using, Go, Remove
<1>1. CASE GrowOld
  BY <1>1 DEF GrowOld
<1>2. ASSUME NEW p \in Proc, Step(p) \/ Die(p) PROVE NoTokenLeft'
  <2>1. CASE Mkdir(p)  BY <2>1 DEF Mkdir
  <2>2. CASE WriteOwner(p)  BY <2>2 DEF WriteOwner
  <2>3. CASE WriteOwnerFails(p)  BY <2>3 DEF WriteOwnerFails
  <2>4. CASE Look(p)  BY <2>4 DEF Look
  <2>5. CASE Break(p)  BY <2>5 DEF Break
  <2>6. CASE Sleep(p) \/ GiveUp(p) \/ Leave(p)  BY <2>6 DEF Sleep, GiveUp, Leave
  <2>7. CASE ReadOwner(p)  BY <2>7 DEF ReadOwner
  <2>8. CASE GiveBack(p)  BY <2>8 DEF GiveBack
  <2>9. CASE Die(p)  BY <2>9 DEF Die
  <2> QED  BY <1>2, <2>1, <2>2, <2>3, <2>4, <2>5, <2>6, <2>7, <2>8, <2>9 DEF Step
<1>3. CASE UNCHANGED lockVars
  BY <1>3 DEF lockVars
<1> QED  BY <1>1, <1>2, <1>3 DEF Next

\* The inductive invariant holds in every state the lock can be in.
THEOREM LockCorrect == Spec => []LockInv
<1>1. LockInv /\ [Next]_lockVars => LockInv'
  BY TypeStep, MakersStep, AnswersStep, TokenStep DEF LockInv
<1> QED  BY InitLockInv, <1>1, PTL DEF Spec

\* Every variable keeps its type.
THEOREM LockTypeCorrect == Spec => []LockTypeOK
<1>1. LockInv => LockTypeOK
  BY DEF LockInv
<1> QED  BY LockCorrect, <1>1, PTL

\* mkdir, the owner file and the check before rm are enough to keep two processes apart for as
\* long as no waiter takes a live holder's directory for one left behind.
THEOREM RecoveryIsTheOnlyRisk == Spec => []OnlyRecoveryLetsTwoIn
<1>1. LockInv => OnlyRecoveryLetsTwoIn
  BY DEF LockInv, MakersHoldIt, OnlyRecoveryLetsTwoIn, MutualExclusion, Using
<1> QED  BY LockCorrect, <1>1, PTL

\* A holder robbed inside does not remove the next holder's directory.
THEOREM RobbedKeepsOff == Spec => []RobbedHolderKeepsOff
<1>1. LockInv => RobbedHolderKeepsOff
  BY DEF LockInv, NoTokenLeft, RobbedHolderKeepsOff
<1> QED  BY LockCorrect, <1>1, PTL

\* A directory that stays is one whose maker or owner died.
THEOREM NoneLeftBehind == Spec => []NothingLeftBehind
<1>1. LockInv => NothingLeftBehind
  <2> SUFFICES ASSUME LockInv, \A p \in Proc : stage[p] \in Ended \ {"dead"}, dir # NoDir
               PROVE  FALSE
    BY DEF NothingLeftBehind
  <2>1. dir.maker \in Proc /\ dir.owner \in Name
    BY DEF LockInv, LockTypeOK, SomebodyAnswers, Dir
  <2> QED  BY <2>1 DEF LockInv, SomebodyAnswers, Ended, Name
<1> QED  BY LockCorrect, <1>1, PTL

----------------------------------------------------------------------------
(* The lock the callers of withTaskClaimLock and its siblings believe in. *)

\* Until somebody is robbed, an owner file names the maker of the directory it is in.
OwnersAreMakers == NobodyRobbed => dir.owner \in {"none", dir.maker}

LEMMA RobbedStaysRobbed == LockTypeOK /\ [Next]_lockVars /\ NobodyRobbed' => NobodyRobbed
<1> SUFFICES ASSUME LockTypeOK, [Next]_lockVars, NobodyRobbed', NEW q \in Proc
             PROVE  robbed[q] = "no"
  BY DEF NobodyRobbed
<1>1. robbed'[q] = "no"
  BY DEF NobodyRobbed
<1>2. CASE \E p \in Proc : Break(p)
  BY <1>1, <1>2 DEF Break, Using
<1>3. CASE robbed' = robbed
  BY <1>1, <1>3
<1> QED
  BY <1>2, <1>3 DEF Next, Step, GrowOld, Die, Mkdir, WriteOwner, WriteOwnerFails, Look, Sleep, GiveUp,
                    Leave, ReadOwner, GiveBack, lockVars

LEMMA OwnersStep ==
  LockTypeOK /\ MakersHoldIt /\ OwnersAreMakers /\ [Next]_lockVars => OwnersAreMakers'
<1> SUFFICES ASSUME LockTypeOK, MakersHoldIt, OwnersAreMakers, [Next]_lockVars, NobodyRobbed'
             PROVE  dir'.owner \in {"none", dir'.maker}
  BY DEF OwnersAreMakers
<1>1. dir \in Dir /\ dir.owner \in {"none", dir.maker}
  BY RobbedStaysRobbed DEF OwnersAreMakers, LockTypeOK
<1>2. CASE \E p \in Proc : WriteOwner(p)
  <2>1. PICK p \in Proc : WriteOwner(p)
    BY <1>2
  <2>2. dir.maker = p
    BY <2>1, RobbedStaysRobbed DEF WriteOwner, MakersHoldIt, Using
  <2> QED
    BY <1>1, <2>1, <2>2 DEF WriteOwner, Dir
<1>3. CASE dir' = NoDir \/ dir' = dir \/ \E p \in Proc : dir' = [NoDir EXCEPT !.maker = p]
  BY <1>1, <1>3 DEF NoDir
<1>4. CASE GrowOld
  BY <1>1, <1>4 DEF GrowOld, Dir
<1> QED
  BY <1>2, <1>3, <1>4 DEF Next, Step, Die, Mkdir, WriteOwnerFails, Break, Look, Sleep, GiveUp,
                          Leave, ReadOwner, GiveBack, Remove, lockVars

\* The directory as its callers see it starts free, and every system call of the protocol is a
\* step of that lock or none, until a waiter robs a live holder.
THEOREM ImplementsHeldLock == Spec => Held!Init /\ LocksLikeHeld
<1> DEFINE Inv == LockInv /\ OwnersAreMakers
<1>1. Init => Inv /\ Held!Init
  BY InitLockInv DEF Init, OwnersAreMakers, NoDir, Using, Held!Init
<1>2. Inv /\ [Next]_lockVars => Inv'
  BY TypeStep, MakersStep, AnswersStep, TokenStep, OwnersStep DEF LockInv
<1>3. Inv /\ [Next]_lockVars => [NobodyRobbed' => [Held!Next]_(Held!heldVars)]_lockVars
  <2> SUFFICES ASSUME Inv, [Next]_lockVars, NobodyRobbed' PROVE [Held!Next]_(Held!heldVars)
    OBVIOUS
  <2> DEFINE lock == IF dir = NoDir THEN "free"
                     ELSE IF stage[dir.maker] \in Using THEN dir.maker ELSE "orphan"
             users == {p \in Proc : stage[p] \in Using}
  <2>1. NobodyRobbed
    BY RobbedStaysRobbed DEF LockInv
  <2>2. /\ dir \in Dir /\ stage \in [Proc -> Stage]
        /\ \A p \in Proc : stage[p] \in Using => dir.maker = p
        /\ dir # NoDir => dir.maker \in Proc
        /\ dir.owner \in {"none", dir.maker}
        /\ dir # NoDir /\ dir.owner = "none" => stage[dir.maker] \in {"made", "dead"}
    BY <2>1 DEF LockInv, LockTypeOK, MakersHoldIt, SomebodyAnswers, OwnersAreMakers
  <2>3. \A p \in Proc : stage[p] \in Using => dir # NoDir /\ dir.maker = p /\ lock = p
    BY <2>2 DEF NoDir
  <2> HIDE DEF Inv
  <2>4. CASE GrowOld
    <3>1. dir # NoDir /\ dir' # NoDir /\ dir'.maker = dir.maker /\ stage' = stage
      BY <2>2, <2>4 DEF GrowOld, Dir, NoDir
    <3> QED
      BY <3>1 DEF Held!heldVars
  <2>5. ASSUME NEW p \in Proc, Step(p) \/ Die(p) PROVE [Held!Next]_(Held!heldVars)
    <3>1. CASE Mkdir(p) /\ dir = NoDir
      <4>1. dir' = [NoDir EXCEPT !.maker = p] /\ stage' = [stage EXCEPT ![p] = "made"]
        BY <3>1 DEF Mkdir, Go
      <4>2. lock = "free" /\ lock' = p /\ users' = users \cup {p}
        BY <2>2, <3>1, <4>1 DEF NoDir, Using
      <4> QED
        BY <4>2 DEF Held!Next, Held!Take
    <3>2. CASE WriteOwner(p)
      <4>1. stage[p] = "made" /\ dir # NoDir /\ stage' = [stage EXCEPT ![p] = "inside"]
        BY <3>2 DEF WriteOwner, Go
      <4>2. dir'.maker = dir.maker /\ dir' # NoDir
        BY <2>2, <3>2 DEF WriteOwner, Dir, NoDir
      <4>3. lock' = lock /\ users' = users
        BY <2>2, <4>1, <4>2 DEF Using
      <4> QED
        BY <4>3 DEF Held!heldVars
    <3>3. CASE WriteOwnerFails(p) \/ GiveBack(p)
      <4>1. stage[p] \in {"made", "removing"} /\ dir' = NoDir
            /\ \E s \in {"failed", "done"} : stage' = [stage EXCEPT ![p] = s]
        BY <3>3 DEF WriteOwnerFails, GiveBack, Go, Remove
      <4>2. lock = p /\ lock' = "free" /\ users' = users \ {p}
        BY <2>2, <2>3, <4>1 DEF Using
      <4> QED
        BY <4>2 DEF Held!Next, Held!Give
    <3>4. CASE (Mkdir(p) /\ dir # NoDir) \/ Look(p) \/ Sleep(p) \/ GiveUp(p)
      <4>1. stage[p] \in {"trying", "looking", "waiting"} /\ dir' = dir
            /\ \E s \in Stage \ Using : stage' = [stage EXCEPT ![p] = s]
        BY <3>4 DEF Mkdir, Look, Sleep, GiveUp, Go, Stage, Using
      <4>2. lock' = lock /\ users' = users
        BY <2>2, <4>1 DEF Using
      <4> QED
        BY <4>2 DEF Held!heldVars
    <3>5. CASE Break(p)
      <4>1. stage[p] = "breaking" /\ dir' = NoDir /\ stage' = [stage EXCEPT ![p] = "trying"]
        BY <3>5 DEF Break, Go, Remove
      <4>2. lock' = "free" /\ users' = users
        BY <2>2, <4>1 DEF Using
      <4>3. CASE dir = NoDir
        BY <4>2, <4>3 DEF Held!heldVars
      <4>4. CASE dir # NoDir
        <5>1. dir.maker \in Proc
          BY <2>2, <4>4
        <5>2. robbed'[dir.maker] = "no"
          BY <5>1 DEF NobodyRobbed
        <5>3. stage[dir.maker] \notin Using
          BY <3>5, <5>1, <5>2 DEF Break, Using
        <5>4. lock = "orphan"
          BY <4>4, <5>3
        <5> QED
          BY <4>2, <5>4 DEF Held!Next, Held!Clear
      <4> QED  BY <4>3, <4>4
    <3>6. CASE Leave(p) \/ ReadOwner(p)
      <4>1. stage[p] \in {"inside", "leaving"} /\ dir' = dir
        BY <3>6 DEF Leave, ReadOwner
      <4>2. dir.owner = p
        BY <2>2, <2>3, <4>1 DEF Using
      <4>3. \E s \in Using : stage' = [stage EXCEPT ![p] = s]
        BY <3>6, <4>2 DEF Leave, ReadOwner, Go, Using
      <4>4. lock' = lock /\ users' = users
        BY <2>2, <4>1, <4>3 DEF Using
      <4> QED
        BY <4>4 DEF Held!heldVars
    <3>7. CASE Die(p)
      <4>1. dir' = dir /\ stage' = [stage EXCEPT ![p] = "dead"]
        BY <3>7 DEF Die, Go
      <4>2. users' = users \ {p}
        BY <2>2, <4>1 DEF Using
      <4>3. CASE stage[p] \in Using
        <5>1. dir # NoDir /\ lock = p /\ dir.maker = p
          BY <2>3, <4>3
        <5>2. lock' = "orphan"
          BY <2>2, <4>1, <5>1 DEF Using
        <5> QED
          BY <4>2, <5>1, <5>2 DEF Held!Next, Held!Abandon
      <4>4. CASE stage[p] \notin Using
        <5>1. lock' = lock /\ users' = users
          BY <2>2, <4>1, <4>2, <4>4 DEF Using
        <5> QED
          BY <5>1 DEF Held!heldVars
      <4> QED  BY <4>3, <4>4
    <3> QED
      BY <2>5, <3>1, <3>2, <3>3, <3>4, <3>5, <3>6, <3>7 DEF Step
  <2>6. CASE UNCHANGED lockVars
    BY <2>6 DEF lockVars, Held!heldVars
  <2> QED
    BY <2>4, <2>5, <2>6 DEF Next
<1> QED
  BY <1>1, <1>2, <1>3, PTL DEF Spec, LocksLikeHeld

\* If nobody is ever robbed, the directory is that lock.
THEOREM UnrobbedIsHeldLock == Spec /\ []NobodyRobbed => Held!Spec
<1>1. [NobodyRobbed' => [Held!Next]_(Held!heldVars)]_lockVars /\ NobodyRobbed'
        => [Held!Next]_(Held!heldVars)
  BY DEF lockVars, Held!heldVars
<1> QED
  BY <1>1, ImplementsHeldLock, PTL DEF LocksLikeHeld, Held!Spec
=============================================================================
