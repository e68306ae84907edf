------------------------- MODULE TeamScalingProofs -------------------------
(***************************************************************************)
(* What keeps the names of workers and the files of tasks apart although   *)
(* scalers and creators of tasks write each other's counters back, for any *)
(* number of processes, workers and tasks, with deaths and lost locks; and *)
(* what keeps the roster true as long as there are none.                   *)
(***************************************************************************)
EXTENDS TeamScaling, TLAPS, WellFoundedInduction

USE ScalingProcessAssumption, ScalingBoundsAssumption

----------------------------------------------------------------------------
(* The inductive invariant. *)

\* While a process creates a task nobody else does, and until it has written the file its id is
\* that of no other task.
CreationKnown ==
  \A p \in ScalingProc :
    /\ creating[p] # "off" => locked.team = p /\ read[p].nextTask \in TaskId
    /\ creating[p] = "writing" => tasks[read[p].nextTask] = 0
    /\ p \in Scaler /\ creating[p] # "off" => step[p] = "opening"

\* Names differ, the next one is not taken, and there are no more names than panes were opened.
Sound(m, n) ==
  /\ \A v \in m.workers, w \in m.workers : v.index = w.index => v = w
  /\ \A w \in m.workers : w.index < m.nextIndex
  /\ m.nextIndex <= n + 1

\* So it is with the manifest and with everything that may be written back as the manifest.
ManifestsSound ==
  /\ Sound(manifest, opened)
  /\ \A p \in ScalingProc : Sound(read[p], opened)
  /\ \A s \in Scaler : Sound(mine[s], opened)

Upscaling == {"opening", "telling", "undoing", "restoring"}

\* The names a scaleUp gives are those from first on, those before it are what it has found.
JobsSound ==
  \A s \in Scaler :
    /\ step[s] = "off" => job[s] = NoJob
    /\ step[s] \in {"opening", "telling"} => job[s].adding # 0
    /\ step[s] \in Upscaling =>
         /\ job[s].first <= mine[s].nextIndex
         /\ \A w \in job[s].added : w.index \in job[s].first..(mine[s].nextIndex - 1)
         /\ \A v \in job[s].added, w \in job[s].added : v.index = w.index => v = w
         /\ \A w \in mine[s].workers \ job[s].added : w.index < job[s].first

\* As long as nothing has gone wrong a scaler at work has the scaling lock, ...
ScalersExclude ==
  setbacks = 0 =>
    /\ locked.scaling # "orphan"
    /\ \A s \in Scaler : step[s] # "off" => locked.scaling = s

\* ... the panes are what it believes they are, and of the workers it found there is one it will leave.
PanesKnown(s) ==
  /\ step[s] \in {"opening", "telling"} => panes = mine[s].workers \cup job[s].added
  /\ step[s] = "undoing" => /\ panes \subseteq mine[s].workers \cup job[s].added
                           /\ mine[s].workers \ job[s].added \subseteq panes
  /\ step[s] = "restoring" => panes = mine[s].workers \ job[s].added
  /\ step[s] \in Upscaling => mine[s].workers \ job[s].added # {}
  /\ step[s] = "killing" => panes = mine[s].workers
  /\ step[s] = "dropping" => panes = mine[s].workers \ job[s].removing
  /\ step[s] \in {"killing", "dropping"} => mine[s].workers \ job[s].removing # {}

\* When none is at work the roster is what runs, and a creation of a task will not change it.
RosterKnown ==
  ~raced /\ setbacks = 0 =>
    /\ \A p \in ScalingProc : creating[p] # "off" => read[p].workers = manifest.workers
    /\ \A s \in Scaler : PanesKnown(s)
    /\ locked.scaling = "free" => manifest.workers = panes /\ panes # {}

ScalingInv ==
  /\ ScalingTypeOK /\ CreationKnown /\ ManifestsSound /\ JobsSound
  /\ ScalersExclude /\ RosterKnown

----------------------------------------------------------------------------
(* Types. *)

\* A nonempty set of numbers up to n has a maximum.
LEMMA MaxBound ==
  ASSUME NEW n \in Nat, NEW S \in SUBSET (1..n), S # {}
  PROVE  Max(S) \in S /\ \A y \in S : y <= Max(S)
<1> DEFINE R == {ss \in Nat \X Nat : ss[1] < ss[2]}
           T == {n - x : x \in S}
<1>1. IsWellFoundedOn(R, Nat)
  BY NatLessThanWellFounded DEF OpToRel
<1>2. T \subseteq Nat /\ T # {}
  <2>1. \A x \in S : n - x \in Nat
    OBVIOUS
  <2>2. PICK x \in S : TRUE
    OBVIOUS
  <2>3. n - x \in T
    OBVIOUS
  <2> QED  BY <2>1, <2>3
<1>3. PICK d \in T : \A e \in T : ~ (<<e, d>> \in R)
  <2> HIDE DEF R, T
  <2> QED  BY <1>1, <1>2, WFMin
<1>4. PICK x \in S : d = n - x
  BY <1>3
<1>5. \A y \in S : x >= y
  <2> SUFFICES ASSUME NEW y \in S, ~(x >= y) PROVE FALSE
    OBVIOUS
  <2>1. n - y \in T /\ n - y < n - x /\ n - y \in Nat /\ n - x \in Nat
    OBVIOUS
  <2>2. <<n - y, d>> \in R
    BY <2>1, <1>4
  <2> QED  BY <2>1, <2>2, <1>3
<1>6. \A y \in S : Max(S) >= y /\ Max(S) \in S
  BY <1>5 DEF Max
<1> QED  BY <1>6

\* The id for the next task is one, and no task has it.
LEMMA NextTaskFresh ==
  ASSUME NEW m \in Manifests, tasks \in [TaskId -> Nat]
  PROVE  /\ NextTask(m) \in 1..(MaxTask + 1)
         /\ NextTask(m) \in TaskId => tasks[NextTask(m)] = 0
<1> DEFINE S == {m.nextTask} \cup {t + 1 : t \in {u \in TaskId : tasks[u] # 0}}
<1>1. S \in SUBSET (1..(MaxTask + 1)) /\ S # {} /\ MaxTask + 1 \in Nat
  BY DEF Manifests, TaskId
<1>2. Max(S) \in S /\ \A y \in S : y <= Max(S)
  <2> HIDE DEF S
  <2> QED  BY <1>1, MaxBound
<1>3. Max(S) \in TaskId => tasks[Max(S)] = 0
  <2> SUFFICES ASSUME Max(S) \in TaskId, tasks[Max(S)] # 0 PROVE FALSE
    OBVIOUS
  <2>1. Max(S) + 1 \in S
    OBVIOUS
  <2>2. Max(S) + 1 <= Max(S) /\ Max(S) \in Nat
    BY <1>2, <2>1 DEF TaskId
  <2> QED  BY <2>2
<1> QED  BY <1>1, <1>2, <1>3 DEF NextTask

LEMMA NewTeamType == NewTeam \in Manifests /\ NoJob \in Jobs /\ First \in Entries
  BY DEF NewTeam, Manifests, First, Entries, Index, PaneId, NoJob, Jobs

LEMMA InitType == ScalingInit => ScalingTypeOK
<1> SUFFICES ASSUME ScalingInit PROVE ScalingTypeOK
  OBVIOUS
<1>1. /\ manifest \in Manifests /\ tasks \in [TaskId -> Nat] /\ panes \subseteq Entries
      /\ read \in [ScalingProc -> Manifests] /\ mine \in [Scaler -> Manifests]
      /\ job \in [Scaler -> Jobs]
  BY NewTeamType DEF ScalingInit
<1>2. locked \in [{"scaling", "team"} -> ScalingProc \cup {"free", "orphan"}]
  BY DEF ScalingInit
<1>3. opened \in PaneId /\ step \in [Scaler -> ScalingSteps] /\ setbacks \in 0..MaxSetbacks
  BY DEF ScalingInit, ScalingSteps, PaneId
<1> QED  BY <1>1, <1>2, <1>3 DEF ScalingInit, ScalingTypeOK

\* The inductive invariant but for what depends on setbacks and races.
Safe == ScalingTypeOK /\ CreationKnown /\ ManifestsSound /\ JobsSound

LEMMA TypeStep == Safe /\ [ScalingNext]_scalingVars => ScalingTypeOK'
<1> SUFFICES ASSUME Safe, [ScalingNext]_scalingVars PROVE ScalingTypeOK'
  OBVIOUS
<1> USE DEF Safe, ScalingTypeOK
<1>1. ASSUME NEW p \in ScalingProc, CreateReads(p) PROVE ScalingTypeOK'
  <2>1. [manifest EXCEPT !.nextTask = NextTask(manifest)] \in Manifests
    BY NextTaskFresh DEF Manifests
  <2> QED  BY <1>1, <2>1 DEF CreateReads
<1>2. ASSUME NEW p \in ScalingProc, CreateWrites(p) PROVE ScalingTypeOK'
  <2> DEFINE t == read[p].nextTask
  <2>1. t \in TaskId
    BY <1>2 DEF CreateWrites, CreationKnown
  <2>2. tasks' \in [TaskId -> Nat]
    BY <1>2, <2>1 DEF CreateWrites
  <2>3. job' \in [Scaler -> Jobs]
    <3>1. ASSUME p \in Scaler PROVE [job[p] EXCEPT !.made = @ \cup {t}] \in Jobs
      BY <2>1, <3>1 DEF Jobs
    <3> QED  BY <1>2, <3>1 DEF CreateWrites
  <2> QED  BY <1>2, <2>2, <2>3 DEF CreateWrites
<1>3. ASSUME NEW p \in ScalingProc, CreateSaves(p) PROVE ScalingTypeOK'
  <2>1. read[p] \in Manifests /\ read[p].nextTask \in 1..MaxTask
    BY <1>3 DEF CreateSaves, CreationKnown, TaskId
  <2>2. read[p].nextTask + 1 \in 1..(MaxTask + 1)
    BY <2>1
  <2>3. [read[p] EXCEPT !.nextTask = @ + 1] \in Manifests
    BY <2>1, <2>2 DEF Manifests
  <2> QED  BY <1>3, <2>3, NewTeamType DEF CreateSaves
<1>4. ASSUME NEW p \in ScalingProc, NEW left \in {"free", "orphan"}, Stops(p, left) PROVE ScalingTypeOK'
  <2>1. locked' \in [{"scaling", "team"} -> ScalingProc \cup {"free", "orphan"}]
    BY <1>4 DEF Stops
  <2>2. setbacks' \in 0..MaxSetbacks
    BY <1>4 DEF Stops
  <2> QED  BY <1>4, <2>1, <2>2, NewTeamType DEF Stops, ScalingSteps
<1>5. ASSUME NEW s \in Scaler, NEW count \in 1..MaxWorkers, UpReads(s, count) PROVE ScalingTypeOK'
  <2>1. count \in Nat /\ manifest.nextIndex \in Index /\ job[s] \in Jobs
    BY DEF Manifests
  <2>2. [job[s] EXCEPT !.adding = count, !.first = manifest.nextIndex] \in Jobs
    BY <2>1 DEF Jobs
  <2> QED  BY <1>5, <2>2 DEF UpReads, EnterScaling, ScalerGoesOn, ScalingSteps, ScalingProc
<1>6. ASSUME NEW s \in Scaler, UpOpens(s) PROVE ScalingTypeOK'
  <2>1. mine[s].nextIndex + 1 \in Index /\ opened + 1 \in PaneId
    BY <1>6 DEF UpOpens, ManifestsSound, Sound, Manifests, Index, PaneId
  <2>2. Newcomer(s) \in Entries
    BY <2>1 DEF Newcomer, Entries, Manifests
  <2>3. [mine[s] EXCEPT !.nextIndex = @ + 1] \in Manifests
    BY <2>1 DEF Manifests
  <2>4. [job[s] EXCEPT !.added = @ \cup {Newcomer(s)}] \in Jobs
    BY <2>2 DEF Jobs
  <2> QED  BY <1>6, <2>1, <2>2, <2>3, <2>4 DEF UpOpens, ScalerGoesOn, ScalingSteps
<1>7. ASSUME NEW s \in Scaler, UpFails(s) PROVE ScalingTypeOK'
  BY <1>7 DEF UpFails, ScalerGoesOn, ScalingSteps
<1>8. ASSUME NEW s \in Scaler, UpSaves(s) PROVE ScalingTypeOK'
  <2>1. [mine[s] EXCEPT !.workers = @ \cup job[s].added] \in Manifests
    BY DEF Manifests, Jobs
  <2>2. job[s] \in Jobs /\ job[s].adding \in Nat /\ job[s].adding # 0
    BY <1>8 DEF UpSaves, JobsSound, Jobs
  <2>3. job[s].adding - 1 \in Nat
    BY <2>2
  <2>4. [job[s] EXCEPT !.adding = @ - 1] \in Jobs
    BY <2>2, <2>3 DEF Jobs
  <2>5. manifest' \in Manifests /\ raced' \in BOOLEAN
    BY <1>8, <2>1 DEF UpSaves, Save
  <2>6. /\ mine' \in [Scaler -> Manifests] /\ job' \in [Scaler -> Jobs]
        /\ step' \in [Scaler -> ScalingSteps]
        /\ locked' \in [{"scaling", "team"} -> ScalingProc \cup {"free", "orphan"}]
    <3>1. CASE job[s].adding = 1
      BY <1>8, <3>1, NewTeamType DEF UpSaves, LeaveScaling, ScalerGoesOn, ScalingSteps
    <3>2. CASE job[s].adding # 1
      <4>1. /\ mine' = [mine EXCEPT ![s] = [mine[s] EXCEPT !.workers = @ \cup job[s].added]]
            /\ job' = [job EXCEPT ![s].adding = @ - 1]
            /\ step' = [step EXCEPT ![s] = "opening"] /\ locked' = locked
        BY <1>8, <3>2 DEF UpSaves, ScalerGoesOn
      <4>2. job' = [job EXCEPT ![s] = [job[s] EXCEPT !.adding = @ - 1]]
        BY <4>1
      <4> QED  BY <4>1, <4>2, <2>1, <2>4 DEF ScalingSteps
    <3> QED  BY <3>1, <3>2
  <2> QED  BY <1>8, <2>5, <2>6 DEF UpSaves
<1>9. ASSUME NEW s \in Scaler, UpUndoes(s) PROVE ScalingTypeOK'
  <2>1. panes' \subseteq Entries /\ tasks' \in [TaskId -> Nat] /\ step' \in [Scaler -> ScalingSteps]
    BY <1>9 DEF UpUndoes, ScalerGoesOn, ScalingSteps
  <2>2. job' \in [Scaler -> Jobs]
    BY <1>9 DEF UpUndoes, Jobs
  <2> QED  BY <1>9, <2>1, <2>2 DEF UpUndoes
<1>10. ASSUME NEW s \in Scaler, UpRestores(s) PROVE ScalingTypeOK'
  <2>1. Without(s) \in Manifests
    BY DEF Without, Manifests, Jobs
  <2> QED  BY <1>10, <2>1, NewTeamType DEF UpRestores, Save, LeaveScaling, ScalerGoesOn, ScalingSteps
<1>11. ASSUME NEW s \in Scaler, NEW targets \in SUBSET manifest.workers, DownReads(s, targets) PROVE ScalingTypeOK'
  <2>1. targets \in SUBSET Entries /\ job[s] \in Jobs
    BY DEF Manifests
  <2>2. [job[s] EXCEPT !.removing = targets] \in Jobs
    BY <2>1 DEF Jobs
  <2> QED  BY <1>11, <2>2 DEF DownReads, EnterScaling, ScalerGoesOn, ScalingSteps, ScalingProc
<1>12. ASSUME NEW s \in Scaler, DownKills(s) PROVE ScalingTypeOK'
  BY <1>12 DEF DownKills, ScalerGoesOn, ScalingSteps
<1>13. ASSUME NEW s \in Scaler, DownSaves(s) PROVE ScalingTypeOK'
  <2>1. [mine[s] EXCEPT !.workers = @ \ job[s].removing] \in Manifests
    BY DEF Manifests
  <2> QED  BY <1>13, <2>1, NewTeamType DEF DownSaves, Save, LeaveScaling, ScalerGoesOn, ScalingSteps
<1>14. ASSUME NEW l \in {"scaling", "team"}, BreakOldLock(l) PROVE ScalingTypeOK'
  <2>1. setbacks' \in 0..MaxSetbacks
    BY <1>14 DEF BreakOldLock, Outlasts
  <2> QED  BY <1>14, <2>1 DEF BreakOldLock
<1>15. CASE UNCHANGED scalingVars
  BY <1>15 DEF scalingVars
<1> QED  BY <1>1, <1>2, <1>3, <1>4, <1>5, <1>6, <1>7, <1>8, <1>9, <1>10, <1>11, <1>12, <1>13, <1>14,
            <1>15 DEF ScalingNext

----------------------------------------------------------------------------
(* Creating a task. *)

LEMMA CreationStep == Safe /\ [ScalingNext]_scalingVars => CreationKnown'
<1> SUFFICES ASSUME Safe, [ScalingNext]_scalingVars, NEW q \in ScalingProc
             PROVE  /\ creating'[q] # "off" => locked'.team = q /\ read'[q].nextTask \in TaskId
                    /\ creating'[q] = "writing" => tasks'[read'[q].nextTask] = 0
                    /\ q \in Scaler /\ creating'[q] # "off" => step'[q] = "opening"
  BY DEF CreationKnown
<1> DEFINE Goal == /\ creating'[q] # "off" => locked'.team = q /\ read'[q].nextTask \in TaskId
                   /\ creating'[q] = "writing" => tasks'[read'[q].nextTask] = 0
                   /\ q \in Scaler /\ creating'[q] # "off" => step'[q] = "opening"
<1> USE DEF Safe, ScalingTypeOK, CreationKnown
<1>0. q \notin {"free", "orphan"}
  BY DEF ScalingProc
<1>1. ASSUME NEW p \in ScalingProc, CreateReads(p) PROVE Goal
  <2>1. tasks[NextTask(manifest)] = 0 /\ NextTask(manifest) \in TaskId
    BY <1>1, NextTaskFresh DEF CreateReads
  <2>2. read'[p].nextTask = NextTask(manifest)
    BY <1>1 DEF CreateReads, Manifests
  <2>3. q # p => creating[q] = "off"
    BY <1>0, <1>1 DEF CreateReads
  <2> QED  BY <1>1, <2>1, <2>2, <2>3 DEF CreateReads
<1>2. ASSUME NEW p \in ScalingProc, CreateWrites(p) PROVE Goal
  BY <1>2 DEF CreateWrites
<1>3. ASSUME NEW p \in ScalingProc, CreateSaves(p) PROVE Goal
  BY <1>3 DEF CreateSaves
<1>4. ASSUME NEW p \in ScalingProc, NEW left \in {"free", "orphan"}, Stops(p, left) PROVE Goal
  BY <1>4 DEF Stops
<1>5. ASSUME NEW s \in Scaler, NEW count \in 1..MaxWorkers, UpReads(s, count) PROVE Goal
  BY <1>5 DEF UpReads, EnterScaling, ScalerGoesOn
<1>6. ASSUME NEW s \in Scaler, UpOpens(s) \/ UpFails(s) \/ DownKills(s) PROVE Goal
  BY <1>6 DEF UpOpens, UpFails, DownKills, ScalerGoesOn
<1>7. ASSUME NEW s \in Scaler, UpSaves(s) PROVE Goal
  BY <1>7 DEF UpSaves, LeaveScaling, ScalerGoesOn
<1>8. ASSUME NEW s \in Scaler, UpUndoes(s) PROVE Goal
  BY <1>8 DEF UpUndoes, ScalerGoesOn
<1>9. ASSUME NEW s \in Scaler, UpRestores(s) \/ DownSaves(s) PROVE Goal
  BY <1>9 DEF UpRestores, DownSaves, LeaveScaling, ScalerGoesOn
<1>10. ASSUME NEW s \in Scaler, NEW targets \in SUBSET manifest.workers, DownReads(s, targets) PROVE Goal
  BY <1>10 DEF DownReads, EnterScaling, ScalerGoesOn
<1>11. ASSUME NEW l \in {"scaling", "team"}, BreakOldLock(l) PROVE Goal
  BY <1>0, <1>11 DEF BreakOldLock, Outlasts
<1>12. CASE UNCHANGED scalingVars
  BY <1>12 DEF scalingVars
<1> QED  BY <1>1, <1>2, <1>3, <1>4, <1>5, <1>6, <1>7, <1>8, <1>9, <1>10, <1>11, <1>12 DEF ScalingNext

----------------------------------------------------------------------------
(* The manifest and what may be written back as it. *)

LEMMA NewTeamSound == ASSUME NEW n \in Nat \ {0} PROVE Sound(NewTeam, n)
  BY DEF Sound, NewTeam, First

LEMMA SoundStays ==
  ASSUME NEW m \in Manifests, NEW n \in Nat, NEW k \in Nat, n <= k, Sound(m, n)
  PROVE  Sound(m, k)
<1>1. m.nextIndex \in Nat
  BY DEF Manifests, Index
<1> QED  BY <1>1 DEF Sound

\* The name of a worker that scaleUp has found is none of those it gives.
LEMMA GrownSound ==
  ASSUME Safe, NEW s \in Scaler, step[s] \in Upscaling
  PROVE  Sound([mine[s] EXCEPT !.workers = @ \cup job[s].added], opened)
<1>1. Sound(mine[s], opened) /\ mine[s] \in Manifests /\ job[s] \in Jobs
  BY DEF Safe, ScalingTypeOK, ManifestsSound
<1> DEFINE W == mine[s].workers
           A == job[s].added
           m == [mine[s] EXCEPT !.workers = W \cup A]
<1>2. m.workers = W \cup A /\ m.nextIndex = mine[s].nextIndex
  BY <1>1 DEF Manifests
<1>3. \A w \in W \cup A : w.index \in Nat
  BY <1>1 DEF Manifests, Jobs, Entries, Index
<1>4. job[s].first \in Nat /\ mine[s].nextIndex \in Nat
  BY <1>1 DEF Manifests, Jobs, Index
<1>5. \A w \in W \cup A : w.index < m.nextIndex
  BY <1>1, <1>2, <1>3, <1>4 DEF Safe, JobsSound, Sound
<1>6. ASSUME NEW v \in W \cup A, NEW w \in W \cup A, v.index = w.index PROVE v = w
  <2>1. CASE v \in W /\ w \in W
    BY <1>1, <1>6, <2>1 DEF Sound
  <2>2. CASE v \in A /\ w \in A
    BY <1>6, <2>2 DEF Safe, JobsSound
  <2>3. CASE (v \in A /\ w \in W \ A) \/ (v \in W \ A /\ w \in A)
    BY <1>3, <1>4, <1>6, <2>3 DEF Safe, JobsSound
  <2> QED  BY <2>1, <2>2, <2>3
<1> QED  BY <1>1, <1>2, <1>5, <1>6 DEF Sound

\* A roll-back takes back exactly the names it gave.
LEMMA RestoredSound ==
  ASSUME Safe, NEW s \in Scaler, step[s] \in Upscaling
  PROVE  Sound(Without(s), opened)
<1>1. Sound(mine[s], opened) /\ mine[s] \in Manifests /\ job[s] \in Jobs
  BY DEF Safe, ScalingTypeOK, ManifestsSound
<1>2. Without(s).workers = mine[s].workers \ job[s].added /\ Without(s).nextIndex = job[s].first
  BY <1>1 DEF Manifests, Without
<1>3. job[s].first \in Nat /\ mine[s].nextIndex \in Nat /\ opened \in Nat
  BY <1>1 DEF Manifests, Jobs, Index, Safe, ScalingTypeOK, PaneId
<1>4. job[s].first <= opened + 1
  BY <1>1, <1>3 DEF Safe, JobsSound, Sound
<1> QED  BY <1>1, <1>2, <1>4 DEF Safe, JobsSound, Sound

LEMMA ManifestsStep == Safe /\ [ScalingNext]_scalingVars => ManifestsSound'
<1> SUFFICES ASSUME Safe, [ScalingNext]_scalingVars PROVE ManifestsSound'
  OBVIOUS
<1>0. /\ manifest \in Manifests /\ Sound(manifest, opened)
      /\ \A p \in ScalingProc : read[p] \in Manifests /\ Sound(read[p], opened)
      /\ \A s \in Scaler : mine[s] \in Manifests /\ Sound(mine[s], opened)
      /\ opened \in Nat \ {0} /\ Sound(NewTeam, opened)
  BY NewTeamSound DEF Safe, ScalingTypeOK, ManifestsSound, PaneId
<1> USE DEF ManifestsSound
<1>f. read \in [ScalingProc -> Manifests] /\ mine \in [Scaler -> Manifests]
  BY DEF Safe, ScalingTypeOK
<1>1. ASSUME NEW p \in ScalingProc, CreateReads(p) PROVE ManifestsSound'
  <2>1. Sound([manifest EXCEPT !.nextTask = NextTask(manifest)], opened)
    BY <1>0 DEF Sound, Manifests
  <2> QED  BY <1>0, <1>f, <1>1, <2>1 DEF CreateReads
<1>2. ASSUME NEW p \in ScalingProc, CreateSaves(p) PROVE ManifestsSound'
  <2>1. Sound([read[p] EXCEPT !.nextTask = @ + 1], opened)
    BY <1>0 DEF Sound, Manifests
  <2> QED  BY <1>0, <1>f, <1>2, <2>1 DEF CreateSaves
<1>3. ASSUME NEW p \in ScalingProc, NEW left \in {"free", "orphan"}, Stops(p, left) PROVE ManifestsSound'
  BY <1>0, <1>f, <1>3 DEF Stops
<1>4. ASSUME NEW s \in Scaler, NEW count \in 1..MaxWorkers, UpReads(s, count) PROVE ManifestsSound'
  BY <1>0, <1>f, <1>4 DEF UpReads
<1>5. ASSUME NEW s \in Scaler, UpOpens(s) PROVE ManifestsSound'
  <2>1. opened' = opened + 1 /\ opened <= opened' /\ opened' \in Nat
    BY <1>0, <1>5 DEF UpOpens
  <2>2. Sound(manifest, opened') /\ \A p \in ScalingProc : Sound(read[p], opened')
    BY <1>0, <2>1, SoundStays
  <2>3. Sound([mine[s] EXCEPT !.nextIndex = @ + 1], opened')
    <3>1. mine[s].nextIndex \in Nat /\ \A w \in mine[s].workers : w.index \in Nat
      BY <1>0 DEF Manifests, Index, Entries
    <3>2. mine[s].nextIndex <= opened + 1
      BY <1>0 DEF Sound
    <3>3. mine[s].nextIndex + 1 <= opened' + 1
      BY <1>0, <2>1, <3>1, <3>2
    <3> QED  BY <1>0, <3>1, <3>3 DEF Sound, Manifests
  <2>4. \A r \in Scaler : Sound(mine[r], opened')
    BY <1>0, <2>1, SoundStays
  <2> QED  BY <1>f, <1>5, <2>2, <2>3, <2>4 DEF UpOpens
<1>6. ASSUME NEW s \in Scaler, UpSaves(s) PROVE ManifestsSound'
  <2> DEFINE now == [mine[s] EXCEPT !.workers = @ \cup job[s].added]
  <2>1. Sound(now, opened)
    BY <1>6, GrownSound DEF UpSaves, Upscaling
  <2>2. manifest' = now /\ UNCHANGED <<read, opened>>
    BY <1>6 DEF UpSaves, Save
  <2>3. mine' = [mine EXCEPT ![s] = NewTeam] \/ mine' = [mine EXCEPT ![s] = now]
    BY <1>6 DEF UpSaves, LeaveScaling
  <2> HIDE DEF now
  <2> QED  BY <1>0, <1>f, <2>1, <2>2, <2>3
<1>7. ASSUME NEW s \in Scaler, UpRestores(s) PROVE ManifestsSound'
  <2>1. Sound(Without(s), opened)
    BY <1>7, RestoredSound DEF UpRestores, Upscaling
  <2> QED  BY <1>0, <1>f, <1>7, <2>1 DEF UpRestores, Save, LeaveScaling
<1>8. ASSUME NEW s \in Scaler, NEW targets \in SUBSET manifest.workers, DownReads(s, targets)
      PROVE  ManifestsSound'
  BY <1>0, <1>f, <1>8 DEF DownReads
<1>9. ASSUME NEW s \in Scaler, DownSaves(s) PROVE ManifestsSound'
  <2>1. Sound([mine[s] EXCEPT !.workers = @ \ job[s].removing], opened)
    BY <1>0 DEF Sound, Manifests
  <2> QED  BY <1>0, <1>f, <1>9, <2>1 DEF DownSaves, Save, LeaveScaling
<1>10. CASE UNCHANGED <<manifest, read, mine, opened>>
  BY <1>0, <1>10
<1>11. ASSUME NEW p \in ScalingProc, CreateWrites(p) PROVE UNCHANGED <<manifest, read, mine, opened>>
  BY <1>11 DEF CreateWrites
<1>12. ASSUME NEW s \in Scaler, UpFails(s) \/ UpUndoes(s) \/ DownKills(s)
       PROVE  UNCHANGED <<manifest, read, mine, opened>>
  BY <1>12 DEF UpFails, UpUndoes, DownKills
<1>13. ASSUME NEW l \in {"scaling", "team"}, BreakOldLock(l) PROVE UNCHANGED <<manifest, read, mine, opened>>
  BY <1>13 DEF BreakOldLock
<1>14. CASE UNCHANGED scalingVars
  BY <1>10, <1>14 DEF scalingVars
<1> HIDE DEF ManifestsSound
<1> QED  BY <1>1, <1>2, <1>3, <1>4, <1>5, <1>6, <1>7, <1>8, <1>9, <1>10, <1>11, <1>12, <1>13, <1>14
         DEF ScalingNext

----------------------------------------------------------------------------
(* The names a scaleUp gives. *)

LEMMA JobsStep == Safe /\ [ScalingNext]_scalingVars => JobsSound'
<1> SUFFICES ASSUME Safe, [ScalingNext]_scalingVars PROVE JobsSound'
  OBVIOUS
<1> DEFINE JobSound(r) ==
             /\ step[r] = "off" => job[r] = NoJob
             /\ step[r] \in {"opening", "telling"} => job[r].adding # 0
             /\ step[r] \in Upscaling =>
                  /\ job[r].first <= mine[r].nextIndex
                  /\ \A w \in job[r].added : w.index \in job[r].first..(mine[r].nextIndex - 1)
                  /\ \A v \in job[r].added, w \in job[r].added : v.index = w.index => v = w
                  /\ \A w \in mine[r].workers \ job[r].added : w.index < job[r].first
<1>t. /\ step \in [Scaler -> ScalingSteps] /\ job \in [Scaler -> Jobs] /\ mine \in [Scaler -> Manifests]
      /\ manifest \in Manifests
  BY DEF Safe, ScalingTypeOK
<1>i. \A r \in Scaler : JobSound(r)
  BY DEF Safe, JobsSound
\* A step of one scaler, and what it must establish for it.
<1>o. ASSUME NEW s \in Scaler,
             \A r \in Scaler \ {s} : UNCHANGED <<step[r], job[r], mine[r]>>,
             JobSound(s)'
      PROVE  JobsSound'
  <2> SUFFICES ASSUME NEW r \in Scaler PROVE JobSound(r)'
    BY DEF JobsSound
  <2>1. CASE r = s  BY <1>o, <2>1
  <2>2. CASE r # s
    <3>1. UNCHANGED <<step[r], job[r], mine[r]>>  BY <1>o, <2>2
    <3> QED  BY <1>i, <3>1
  <2> QED  BY <2>1, <2>2
<1>1. ASSUME NEW s \in Scaler, NEW count \in 1..MaxWorkers, UpReads(s, count) PROVE JobsSound'
  <2>1. job[s] = NoJob
    BY <1>1, <1>i DEF UpReads
  <2>2. /\ step'[s] = "opening" /\ mine'[s] = manifest
        /\ job'[s].added = {} /\ job'[s].adding = count /\ job'[s].first = manifest.nextIndex
    BY <1>1, <1>t, <2>1 DEF UpReads, ScalerGoesOn, NoJob
  <2>3. \A w \in manifest.workers : w.index < manifest.nextIndex
    BY DEF Safe, ManifestsSound, Sound
  <2>4. manifest.nextIndex \in Nat
    BY <1>t DEF Manifests, Index
  <2>5. JobSound(s)'
    BY <2>2, <2>3, <2>4 DEF Upscaling
  <2>6. \A r \in Scaler \ {s} : UNCHANGED <<step[r], job[r], mine[r]>>
    BY <1>1, <1>t DEF UpReads, ScalerGoesOn
  <2> QED  BY <1>o, <2>5, <2>6
<1>2. ASSUME NEW s \in Scaler, UpOpens(s) PROVE JobsSound'
  <2> DEFINE n == mine[s].nextIndex
             new == Newcomer(s)
  <2>1. /\ step[s] = "opening" /\ step'[s] = "telling"
        /\ mine'[s].workers = mine[s].workers /\ mine'[s].nextIndex = n + 1
        /\ job'[s].added = job[s].added \cup {new}
        /\ job'[s].first = job[s].first /\ job'[s].adding = job[s].adding
    BY <1>2, <1>t DEF UpOpens, ScalerGoesOn, Manifests, Jobs
  <2>2. new.index = n /\ n \in Nat /\ job[s].first \in Nat
    BY <1>t DEF Newcomer, Manifests, Index, Jobs
  <2>3. JobSound(s)
    BY <1>i
  <2>4. \A w \in job[s].added : w.index \in job[s].first..(n - 1)
    BY <2>1, <2>3 DEF Upscaling
  <2>5. \A w \in job[s].added \cup {new} : w.index \in job[s].first..n
    BY <2>1, <2>2, <2>3, <2>4 DEF Upscaling
  <2>6. \A w \in job[s].added : w.index # new.index
    BY <2>2, <2>4
  <2>7. JobSound(s)'
    BY <2>1, <2>2, <2>3, <2>5, <2>6 DEF Upscaling
  <2>8. \A r \in Scaler \ {s} : UNCHANGED <<step[r], job[r], mine[r]>>
    BY <1>2, <1>t DEF UpOpens, ScalerGoesOn
  <2> QED  BY <1>o, <2>7, <2>8
<1>3. ASSUME NEW s \in Scaler, UpFails(s) \/ UpUndoes(s) PROVE JobsSound'
  <2>1. /\ step[s] \in Upscaling /\ step'[s] \in {"undoing", "restoring"}
        /\ UNCHANGED <<mine, job[s].first, job[s].added>>
        /\ \A r \in Scaler \ {s} : UNCHANGED <<step[r], job[r]>>
    <3>1. CASE UpFails(s)
      BY <1>t, <3>1 DEF UpFails, ScalerGoesOn, Upscaling
    <3>2. CASE UpUndoes(s)
      BY <1>t, <3>2 DEF UpUndoes, ScalerGoesOn, Upscaling, Jobs
    <3> QED  BY <1>3, <3>1, <3>2
  <2>2. JobSound(s)'
    BY <1>i, <2>1 DEF Upscaling
  <2> QED  BY <1>o, <2>1, <2>2
\* Whoever is back has no job.
<1>4. ASSUME NEW s \in Scaler, step' = [step EXCEPT ![s] = "off"], job' = [job EXCEPT ![s] = NoJob],
             mine' = [mine EXCEPT ![s] = NewTeam]
      PROVE  JobsSound'
  <2>1. JobSound(s)'
    BY <1>t, <1>4 DEF Upscaling
  <2>2. \A r \in Scaler \ {s} : UNCHANGED <<step[r], job[r], mine[r]>>
    BY <1>t, <1>4
  <2> QED  BY <1>o, <2>1, <2>2
<1>5. ASSUME NEW s \in Scaler, UpSaves(s) PROVE JobsSound'
  <2>1. CASE job[s].adding = 1
    BY <1>4, <1>5, <2>1 DEF UpSaves, LeaveScaling, ScalerGoesOn
  <2>2. CASE job[s].adding # 1
    <3>1. /\ step[s] = "telling" /\ step' = [step EXCEPT ![s] = "opening"]
          /\ mine' = [mine EXCEPT ![s] = [mine[s] EXCEPT !.workers = @ \cup job[s].added]]
          /\ job' = [job EXCEPT ![s].adding = @ - 1]
      BY <1>5, <2>2 DEF UpSaves, ScalerGoesOn
    <3>2. /\ step'[s] = "opening" /\ mine'[s].workers = mine[s].workers \cup job[s].added
          /\ mine'[s].nextIndex = mine[s].nextIndex /\ job'[s].first = job[s].first
          /\ job'[s].added = job[s].added /\ job'[s].adding = job[s].adding - 1
      BY <1>t, <3>1 DEF Manifests, Jobs
    <3>3. job[s].adding \in Nat /\ job[s].adding - 1 # 0
      BY <1>t, <2>2 DEF Jobs
    <3>4. JobSound(s)'
      BY <1>i, <3>1, <3>2, <3>3 DEF Upscaling
    <3>5. \A r \in Scaler \ {s} : UNCHANGED <<step[r], job[r], mine[r]>>
      BY <1>t, <3>1
    <3> QED  BY <1>o, <3>4, <3>5
  <2> QED  BY <2>1, <2>2
<1>6. ASSUME NEW s \in Scaler, UpRestores(s) \/ DownSaves(s) PROVE JobsSound'
  BY <1>4, <1>6 DEF UpRestores, DownSaves, LeaveScaling, ScalerGoesOn
<1>7. ASSUME NEW s \in Scaler, NEW targets \in SUBSET manifest.workers, DownReads(s, targets)
      PROVE  JobsSound'
  <2>1. /\ step'[s] = "killing"
        /\ \A r \in Scaler \ {s} : UNCHANGED <<step[r], job[r], mine[r]>>
    BY <1>7, <1>t DEF DownReads, ScalerGoesOn
  <2> QED  BY <1>o, <2>1 DEF Upscaling
<1>8. ASSUME NEW s \in Scaler, DownKills(s) PROVE JobsSound'
  <2>1. /\ step'[s] = "dropping" /\ UNCHANGED <<job, mine>>
        /\ \A r \in Scaler \ {s} : step'[r] = step[r]
    BY <1>8, <1>t DEF DownKills, ScalerGoesOn
  <2> QED  BY <1>o, <2>1 DEF Upscaling
<1>9. ASSUME NEW p \in ScalingProc, NEW left \in {"free", "orphan"}, Stops(p, left) PROVE JobsSound'
  <2>1. CASE p \in Scaler
    BY <1>4, <1>9, <2>1 DEF Stops
  <2>2. CASE p \notin Scaler
    BY <1>9, <1>i, <2>2 DEF Stops, JobsSound
  <2> QED  BY <2>1, <2>2
<1>10. ASSUME NEW p \in ScalingProc, CreateWrites(p) PROVE JobsSound'
  <2>1. /\ UNCHANGED <<step, mine>>
        /\ \A r \in Scaler : /\ job'[r].first = job[r].first /\ job'[r].added = job[r].added
                             /\ job'[r].adding = job[r].adding
                             /\ step[r] = "off" => job'[r] = job[r]
    <3>1. CASE p \in Scaler
      <4>0. step[p] = "opening"
        BY <1>10, <3>1 DEF CreateWrites, Safe, CreationKnown
      <4>1. job' = [job EXCEPT ![p].made = @ \cup {read[p].nextTask}] /\ UNCHANGED <<step, mine>>
        BY <1>10, <3>1 DEF CreateWrites
      <4> QED  BY <1>t, <4>0, <4>1 DEF Jobs
    <3>2. CASE p \notin Scaler
      BY <1>10, <3>2 DEF CreateWrites
    <3> QED  BY <3>1, <3>2
  <2> QED  BY <1>i, <2>1 DEF JobsSound
<1>11. CASE UNCHANGED <<step, job, mine>>
  BY <1>i, <1>11 DEF JobsSound
<1>12. ASSUME NEW p \in ScalingProc, CreateReads(p) \/ CreateSaves(p) PROVE UNCHANGED <<step, job, mine>>
  BY <1>12 DEF CreateReads, CreateSaves
<1>13. ASSUME NEW l \in {"scaling", "team"}, BreakOldLock(l) PROVE UNCHANGED <<step, job, mine>>
  BY <1>13 DEF BreakOldLock
<1>14. CASE UNCHANGED scalingVars
  BY <1>11, <1>14 DEF scalingVars
<1> QED  BY <1>1, <1>2, <1>3, <1>5, <1>6, <1>7, <1>8, <1>9, <1>10, <1>11, <1>12, <1>13, <1>14
         DEF ScalingNext

----------------------------------------------------------------------------
(* The roster and the panes, as long as nothing goes wrong. *)

LEMMA SetbacksGrow ==
  ASSUME Safe, [ScalingNext]_scalingVars
  PROVE  (setbacks' = 0 => setbacks = 0) /\ (raced => raced')
<1>t. setbacks \in Nat /\ raced \in BOOLEAN
  BY DEF Safe, ScalingTypeOK
<1> DEFINE Grows == (setbacks' = 0 => setbacks = 0) /\ (raced => raced')
<1>1. ASSUME NEW p \in ScalingProc, CreateReads(p) \/ CreateWrites(p) \/ CreateSaves(p) PROVE Grows
  BY <1>1 DEF CreateReads, CreateWrites, CreateSaves
<1>2. ASSUME NEW p \in ScalingProc, NEW left \in {"free", "orphan"}, Stops(p, left) PROVE Grows
  BY <1>t, <1>2 DEF Stops
<1>3. ASSUME NEW s \in Scaler, NEW count \in 1..MaxWorkers, UpReads(s, count) PROVE Grows
  BY <1>3 DEF UpReads
<1>4. ASSUME NEW s \in Scaler, UpOpens(s) \/ UpFails(s) \/ UpUndoes(s) \/ DownKills(s) PROVE Grows
  BY <1>4 DEF UpOpens, UpFails, UpUndoes, DownKills
<1>5. ASSUME NEW s \in Scaler, UpSaves(s) \/ UpRestores(s) \/ DownSaves(s) PROVE Grows
  BY <1>5 DEF UpSaves, UpRestores, DownSaves, Save
<1>6. ASSUME NEW s \in Scaler, NEW targets \in SUBSET manifest.workers, DownReads(s, targets) PROVE Grows
  BY <1>6 DEF DownReads
<1>7. ASSUME NEW l \in {"scaling", "team"}, BreakOldLock(l) PROVE Grows
  BY <1>t, <1>7 DEF BreakOldLock
<1>8. CASE UNCHANGED scalingVars
  BY <1>8 DEF scalingVars
<1> QED  BY <1>1, <1>2, <1>3, <1>4, <1>5, <1>6, <1>7, <1>8 DEF ScalingNext

LEMMA ExcludeStep == Safe /\ ScalersExclude /\ [ScalingNext]_scalingVars => ScalersExclude'
<1> DEFINE Excluded == locked.scaling # "orphan" /\ \A q \in Scaler : step[q] # "off" => locked.scaling = q
<1> SUFFICES ASSUME Safe, ScalersExclude, [ScalingNext]_scalingVars, setbacks' = 0 PROVE Excluded'
  BY DEF ScalersExclude
<1>0. Excluded /\ setbacks = 0
  BY SetbacksGrow DEF ScalersExclude
<1>t. /\ locked \in [{"scaling", "team"} -> ScalingProc \cup {"free", "orphan"}]
      /\ step \in [Scaler -> ScalingSteps] /\ setbacks \in Nat
  BY DEF Safe, ScalingTypeOK
<1>n. \A q \in ScalingProc : q \notin {"free", "orphan"}
  BY DEF ScalingProc
<1>1. ASSUME NEW p \in ScalingProc, CreateReads(p) \/ CreateWrites(p) \/ CreateSaves(p) PROVE Excluded'
  BY <1>0, <1>t, <1>1 DEF CreateReads, CreateWrites, CreateSaves
<1>2. ASSUME NEW p \in ScalingProc, NEW left \in {"free", "orphan"}, Stops(p, left) PROVE FALSE
  BY <1>t, <1>2 DEF Stops
<1>3. ASSUME NEW s \in Scaler, EnterScaling(s), step' = [step EXCEPT ![s] = step'[s]] PROVE Excluded'
  <2>1. \A q \in Scaler : step[q] = "off"
    BY <1>0, <1>3, <1>n DEF EnterScaling, ScalingProc
  <2> QED  BY <1>t, <1>n, <1>3, <2>1 DEF EnterScaling, ScalingProc
<1>4. ASSUME NEW s \in Scaler, NEW count \in 1..MaxWorkers, UpReads(s, count) PROVE Excluded'
  BY <1>3, <1>4, <1>t DEF UpReads, ScalerGoesOn
<1>5. ASSUME NEW s \in Scaler, NEW targets \in SUBSET manifest.workers, DownReads(s, targets) PROVE Excluded'
  BY <1>3, <1>5, <1>t DEF DownReads, ScalerGoesOn
<1>6. ASSUME NEW s \in Scaler, step[s] # "off", locked' = locked, step' = [step EXCEPT ![s] = step'[s]]
      PROVE  Excluded'
  BY <1>0, <1>t, <1>6
<1>7. ASSUME NEW s \in Scaler, UpOpens(s) \/ UpFails(s) \/ UpUndoes(s) \/ DownKills(s) PROVE Excluded'
  BY <1>6, <1>7, <1>t DEF UpOpens, UpFails, UpUndoes, DownKills, ScalerGoesOn
<1>8. ASSUME NEW s \in Scaler, step[s] # "off", LeaveScaling(s) PROVE Excluded'
  <2>1. locked.scaling = s /\ \A q \in Scaler \ {s} : step[q] = "off"
    BY <1>0, <1>8
  <2> QED  BY <1>t, <1>8, <2>1 DEF LeaveScaling, ScalerGoesOn
<1>9. ASSUME NEW s \in Scaler, UpSaves(s) PROVE Excluded'
  <2>1. CASE job[s].adding = 1
    BY <1>8, <1>9, <2>1 DEF UpSaves
  <2>2. CASE job[s].adding # 1
    BY <1>6, <1>9, <1>t, <2>2 DEF UpSaves, ScalerGoesOn
  <2> QED  BY <2>1, <2>2
<1>10. ASSUME NEW s \in Scaler, UpRestores(s) \/ DownSaves(s) PROVE Excluded'
  BY <1>8, <1>10 DEF UpRestores, DownSaves
<1>11. ASSUME NEW l \in {"scaling", "team"}, BreakOldLock(l) PROVE Excluded'
  BY <1>0, <1>t, <1>11 DEF BreakOldLock
<1>12. CASE UNCHANGED scalingVars
  BY <1>0, <1>12 DEF scalingVars
<1> QED  BY <1>1, <1>2, <1>4, <1>5, <1>7, <1>9, <1>10, <1>11, <1>12 DEF ScalingNext

LEMMA RosterStep ==
  Safe /\ ScalersExclude /\ RosterKnown /\ [ScalingNext]_scalingVars => RosterKnown'
<1> DEFINE ReadsFit == \A p \in ScalingProc : creating[p] # "off" => read[p].workers = manifest.workers
           AllKnown == \A r \in Scaler : PanesKnown(r)
           Settled == locked.scaling = "free" => manifest.workers = panes /\ panes # {}
           Goal == ReadsFit /\ AllKnown /\ Settled
<1> SUFFICES ASSUME Safe, ScalersExclude, RosterKnown, [ScalingNext]_scalingVars,
                    setbacks' = 0, ~raced'
             PROVE  Goal'
  BY DEF RosterKnown
<1>0. setbacks = 0 /\ ~raced /\ ReadsFit /\ AllKnown /\ Settled
  BY SetbacksGrow DEF RosterKnown, Safe, ScalingTypeOK
<1>t. /\ manifest \in Manifests /\ read \in [ScalingProc -> Manifests]
      /\ creating \in [ScalingProc -> {"off", "writing", "saving"}]
      /\ step \in [Scaler -> ScalingSteps] /\ job \in [Scaler -> Jobs] /\ mine \in [Scaler -> Manifests]
      /\ locked \in [{"scaling", "team"} -> ScalingProc \cup {"free", "orphan"}] /\ setbacks \in Nat
  BY DEF Safe, ScalingTypeOK
<1>n. Scaler \subseteq ScalingProc /\ \A q \in ScalingProc : q \notin {"free", "orphan"}
  BY DEF ScalingProc
<1>e. locked.scaling # "orphan" /\ \A q \in Scaler : step[q] # "off" => locked.scaling = q
  BY <1>0 DEF ScalersExclude
\* While one scaler is at work, or begins, what it does to the panes is nobody else's business.
<1>a. ASSUME NEW s \in Scaler, step[s] # "off" \/ locked.scaling = "free",
             \A r \in Scaler \ {s} : step'[r] = step[r], PanesKnown(s)'
      PROVE  AllKnown'
  <2> SUFFICES ASSUME NEW r \in Scaler, r # s PROVE PanesKnown(r)'
    BY <1>a
  <2>1. step'[r] = "off"
    BY <1>a, <1>e, <1>n
  <2> QED  BY <2>1 DEF PanesKnown, Upscaling
<1>b. ASSUME UNCHANGED <<manifest, read, creating>> PROVE ReadsFit'
  BY <1>0, <1>b
<1>c. ASSUME NEW m, Save(m), UNCHANGED <<read, creating>> PROVE ReadsFit'
  BY <1>c DEF Save
<1>1. ASSUME NEW p \in ScalingProc, CreateReads(p) PROVE Goal'
  <2>1. ReadsFit'
    BY <1>0, <1>t, <1>1 DEF CreateReads, Manifests
  <2>2. locked'.scaling = locked.scaling /\ UNCHANGED <<manifest, panes, step, mine, job>>
    BY <1>t, <1>1 DEF CreateReads
  <2> QED  BY <1>0, <2>1, <2>2 DEF PanesKnown
<1>2. ASSUME NEW p \in ScalingProc, CreateWrites(p) PROVE Goal'
  <2>1. UNCHANGED <<manifest, panes, locked, step, mine, read>> /\ creating' = [creating EXCEPT ![p] = "saving"]
    BY <1>2 DEF CreateWrites
  <2>2. creating[p] # "off"
    BY <1>2 DEF CreateWrites
  <2>3. \A r \in Scaler : job'[r].added = job[r].added /\ job'[r].removing = job[r].removing
    BY <1>t, <1>2 DEF CreateWrites, Jobs
  <2>4. ReadsFit'
    BY <1>0, <1>t, <2>1, <2>2
  <2> QED  BY <1>0, <2>1, <2>3, <2>4 DEF PanesKnown
<1>3. ASSUME NEW p \in ScalingProc, CreateSaves(p) PROVE Goal'
  <2>1. creating[p] # "off" /\ manifest' = [read[p] EXCEPT !.nextTask = @ + 1]
    BY <1>3 DEF CreateSaves
  <2>2. manifest'.workers = manifest.workers
    BY <1>0, <1>t, <2>1 DEF Manifests
  <2>3. /\ read' = [read EXCEPT ![p] = NewTeam] /\ creating' = [creating EXCEPT ![p] = "off"]
        /\ locked' = [locked EXCEPT !.team = "free"] /\ UNCHANGED <<panes, step, mine, job>>
    BY <1>3 DEF CreateSaves
  <2>4. ReadsFit'
    BY <1>0, <1>t, <2>2, <2>3
  <2>5. locked'.scaling = locked.scaling
    BY <1>t, <2>3
  <2> QED  BY <1>0, <2>2, <2>3, <2>4, <2>5 DEF PanesKnown
<1>4. ASSUME NEW p \in ScalingProc, NEW left \in {"free", "orphan"}, Stops(p, left) PROVE FALSE
  BY <1>t, <1>4 DEF Stops
<1>5. ASSUME NEW s \in Scaler, NEW count \in 1..MaxWorkers, UpReads(s, count) PROVE Goal'
  <2>1. /\ locked.scaling = "free" /\ step[s] = "off" /\ locked'.scaling = s
        /\ UNCHANGED <<manifest, panes, read, creating>>
        /\ step' = [step EXCEPT ![s] = "opening"] /\ mine' = [mine EXCEPT ![s] = manifest]
        /\ job'[s].added = job[s].added
    BY <1>t, <1>5 DEF UpReads, EnterScaling, ScalerGoesOn, Jobs
  <2>2. job[s].added = {}
    BY <2>1 DEF Safe, JobsSound, NoJob
  <2>3. PanesKnown(s)'
    BY <1>0, <1>t, <2>1, <2>2 DEF PanesKnown
  <2>4. AllKnown' /\ ReadsFit' /\ Settled'
    BY <1>a, <1>b, <1>n, <1>t, <2>1, <2>3
  <2> QED  BY <2>4
<1>6. ASSUME NEW s \in Scaler, UpOpens(s) PROVE Goal'
  <2>1. /\ step[s] = "opening" /\ step' = [step EXCEPT ![s] = "telling"]
        /\ UNCHANGED <<manifest, locked, read, creating>> /\ panes' = panes \cup {Newcomer(s)}
        /\ mine'[s].workers = mine[s].workers /\ job'[s].added = job[s].added \cup {Newcomer(s)}
    BY <1>t, <1>6 DEF UpOpens, ScalerGoesOn, Manifests, Jobs
  <2>2. Newcomer(s) \notin mine[s].workers
    <3>1. Newcomer(s).index = mine[s].nextIndex /\ mine[s].nextIndex \in Nat
      BY <1>t DEF Newcomer, Manifests, Index
    <3>2. \A w \in mine[s].workers : w.index < mine[s].nextIndex
      BY DEF Safe, ManifestsSound, Sound
    <3> QED  BY <3>1, <3>2
  <2>3. PanesKnown(s)'
    BY <1>0, <1>t, <2>1, <2>2 DEF PanesKnown, Upscaling
  <2>4. locked.scaling = s
    BY <1>e, <2>1
  <2>5. AllKnown' /\ ReadsFit' /\ Settled'
    BY <1>a, <1>b, <1>n, <1>t, <2>1, <2>3, <2>4
  <2> QED  BY <2>5
<1>7. ASSUME NEW s \in Scaler, UpFails(s) \/ UpUndoes(s) \/ DownKills(s) PROVE Goal'
  <2>1. /\ step[s] # "off" /\ step' = [step EXCEPT ![s] = step'[s]]
        /\ UNCHANGED <<manifest, locked, read, creating, mine>>
        /\ job' = [job EXCEPT ![s] = job'[s]]
    BY <1>t, <1>7 DEF UpFails, UpUndoes, DownKills, ScalerGoesOn
  <2>2. PanesKnown(s)'
    <3>1. CASE UpFails(s) \/ DownKills(s)
      BY <1>0, <1>t, <3>1 DEF PanesKnown, Upscaling, UpFails, DownKills, ScalerGoesOn
    <3>2. CASE UpUndoes(s)
      <4>1. /\ step[s] = "undoing" /\ mine' = mine /\ job'[s].added = job[s].added
            /\ panes' \subseteq panes /\ panes \ job[s].added \subseteq panes'
            /\ step'[s] = "undoing" \/ (step'[s] = "restoring" /\ panes' = panes /\ job[s].added \cap panes = {})
        BY <1>t, <3>2 DEF UpUndoes, ScalerGoesOn, Jobs
      <4> QED  BY <1>0, <4>1 DEF PanesKnown, Upscaling
    <3> QED  BY <1>7, <3>1, <3>2
  <2>3. locked.scaling = s
    BY <1>e, <2>1
  <2>4. AllKnown' /\ ReadsFit' /\ Settled'
    BY <1>a, <1>b, <1>n, <1>t, <2>1, <2>2, <2>3
  <2> QED  BY <2>4
\* A scaler that leaves has saved what runs.
<1>8. ASSUME NEW s \in Scaler, NEW m, step[s] # "off", Save(m), LeaveScaling(s),
             UNCHANGED <<panes, read, creating>>, m.workers = panes, panes # {}
      PROVE  Goal'
  <2>1. step' = [step EXCEPT ![s] = "off"] /\ manifest' = m
    BY <1>8 DEF LeaveScaling, ScalerGoesOn, Save
  <2>2. PanesKnown(s)'
    BY <1>t, <2>1 DEF PanesKnown, Upscaling
  <2>3. AllKnown' /\ ReadsFit' /\ Settled'
    BY <1>8, <1>a, <1>c, <1>t, <2>1, <2>2
  <2> QED  BY <2>3
<1>9. ASSUME NEW s \in Scaler, UpSaves(s) PROVE Goal'
  <2> DEFINE now == [mine[s] EXCEPT !.workers = @ \cup job[s].added]
  <2>1. /\ step[s] = "telling" /\ Save(now) /\ UNCHANGED <<panes, read, creating>>
    BY <1>9 DEF UpSaves
  <2>2. now.workers = mine[s].workers \cup job[s].added
    BY <1>t DEF Manifests
  <2>3. /\ panes = now.workers
        /\ mine[s].workers \ job[s].added # {}
    BY <1>0, <2>1, <2>2 DEF PanesKnown, Upscaling
  <2>4. CASE job[s].adding = 1
    <3>1. LeaveScaling(s)
      BY <1>9, <2>4 DEF UpSaves
    <3>2. panes # {} /\ step[s] # "off"
      BY <2>1, <2>2, <2>3
    <3> HIDE DEF now
    <3> QED  BY <1>8, <2>1, <2>3, <3>1, <3>2
  <2>5. CASE job[s].adding # 1
    <3>1. /\ mine' = [mine EXCEPT ![s] = now] /\ job'[s].added = job[s].added
          /\ step' = [step EXCEPT ![s] = "opening"] /\ UNCHANGED locked
      BY <1>9, <1>t, <2>5 DEF UpSaves, ScalerGoesOn, Jobs
    <3>2. mine'[s].workers = now.workers
      BY <1>t, <3>1
    <3>3. PanesKnown(s)'
      BY <1>t, <2>1, <2>2, <2>3, <3>1, <3>2 DEF PanesKnown, Upscaling
    <3>4. locked.scaling = s
      BY <1>e, <2>1
    <3> HIDE DEF now
    <3>5. AllKnown' /\ ReadsFit' /\ Settled'
      BY <1>a, <1>c, <1>n, <1>t, <2>1, <3>1, <3>3, <3>4
    <3> QED  BY <3>5
  <2> QED  BY <2>4, <2>5
<1>10. ASSUME NEW s \in Scaler, UpRestores(s) PROVE Goal'
  <2>1. /\ step[s] = "restoring" /\ Save(Without(s)) /\ LeaveScaling(s)
        /\ UNCHANGED <<panes, read, creating>>
    BY <1>10 DEF UpRestores
  <2>2. Without(s).workers = mine[s].workers \ job[s].added
    BY <1>t DEF Without, Manifests
  <2>3. Without(s).workers = panes /\ panes # {}
    BY <1>0, <2>1, <2>2 DEF PanesKnown, Upscaling
  <2> QED  BY <1>8, <2>1, <2>3
<1>11. ASSUME NEW s \in Scaler, NEW targets \in SUBSET manifest.workers, DownReads(s, targets) PROVE Goal'
  <2>1. /\ locked.scaling = "free" /\ step[s] = "off" /\ locked'.scaling = s
        /\ targets \in Removable(manifest)
        /\ UNCHANGED <<manifest, panes, read, creating>>
        /\ step' = [step EXCEPT ![s] = "killing"] /\ mine' = [mine EXCEPT ![s] = manifest]
        /\ job'[s].removing = targets
    BY <1>t, <1>11 DEF DownReads, EnterScaling, ScalerGoesOn, Jobs
  <2>2. manifest.workers \ targets # {}
    BY <2>1 DEF Removable
  <2>3. PanesKnown(s)'
    BY <1>0, <1>t, <2>1, <2>2 DEF PanesKnown, Upscaling
  <2>4. AllKnown' /\ ReadsFit' /\ Settled'
    BY <1>a, <1>b, <1>n, <1>t, <2>1, <2>3
  <2> QED  BY <2>4
<1>12. ASSUME NEW s \in Scaler, DownSaves(s) PROVE Goal'
  <2> DEFINE m == [mine[s] EXCEPT !.workers = @ \ job[s].removing]
  <2>1. /\ step[s] = "dropping" /\ Save(m) /\ LeaveScaling(s) /\ UNCHANGED <<panes, read, creating>>
    BY <1>12 DEF DownSaves
  <2>2. m.workers = mine[s].workers \ job[s].removing
    BY <1>t DEF Manifests
  <2>3. m.workers = panes /\ panes # {}
    BY <1>0, <2>1, <2>2 DEF PanesKnown
  <2> HIDE DEF m
  <2> QED  BY <1>8, <2>1, <2>3
<1>13. ASSUME NEW l \in {"scaling", "team"}, BreakOldLock(l) PROVE Goal'
  <2>1. l = "team" /\ locked'.scaling = locked.scaling
    BY <1>0, <1>e, <1>t, <1>13 DEF BreakOldLock
  <2>2. UNCHANGED <<manifest, panes, step, creating, read, mine, job>>
    BY <1>13 DEF BreakOldLock
  <2> QED  BY <1>0, <2>1, <2>2 DEF PanesKnown
<1>14. CASE UNCHANGED scalingVars
  BY <1>0, <1>14 DEF scalingVars, PanesKnown
<1> HIDE DEF Goal
<1> QED  BY <1>1, <1>2, <1>3, <1>4, <1>5, <1>6, <1>7, <1>9, <1>10, <1>11, <1>12, <1>13, <1>14
         DEF ScalingNext

----------------------------------------------------------------------------
(* The theorems. *)

LEMMA InitScalingInv == ScalingInit => ScalingInv
<1> SUFFICES ASSUME ScalingInit PROVE ScalingInv
  OBVIOUS
<1>1. ScalingTypeOK
  BY InitType
<1>2. CreationKnown /\ ScalersExclude
  BY DEF ScalingInit, CreationKnown, ScalersExclude
<1>3. ManifestsSound
  <2>1. Sound(NewTeam, 1)
    BY NewTeamSound
  <2> QED  BY <2>1 DEF ScalingInit, ManifestsSound
<1>4. JobsSound
  BY DEF ScalingInit, JobsSound, Upscaling
<1>5. RosterKnown
  BY DEF ScalingInit, RosterKnown, PanesKnown, Upscaling, NewTeam
<1> QED  BY <1>1, <1>2, <1>3, <1>4, <1>5 DEF ScalingInv

\* Whatever scalers and creators of tasks do, whoever dies or loses a lock, the invariant holds.
THEOREM ScalingCorrect == ScalingSpec => []ScalingInv
<1>1. ScalingInv /\ [ScalingNext]_scalingVars => ScalingInv'
  BY TypeStep, CreationStep, ManifestsStep, JobsStep, ExcludeStep, RosterStep DEF ScalingInv, Safe
<1> QED  BY InitScalingInv, <1>1, PTL DEF ScalingSpec

\* No counter leaves its range and no roster names a pane that cannot be.
THEOREM ScalingTypeCorrect == ScalingSpec => []ScalingTypeOK
<1>1. ScalingInv => ScalingTypeOK
  BY DEF ScalingInv
<1> QED  BY ScalingCorrect, <1>1, PTL

\* Two workers never have one name, although the counter of names is written back by createTask,
\* which reads it under another lock, and by roll-backs.
THEOREM NamesAlwaysDistinct == ScalingSpec => []NamesDistinct
<1>1. ScalingInv => NamesDistinct
  BY DEF ScalingInv, ManifestsSound, Sound, NamesDistinct
<1> QED  BY ScalingCorrect, <1>1, PTL

\* With nobody at work the roster is what runs, unless a scaler stopped, lost its lock or raced
\* with a creation.
THEOREM RosterAlwaysAlive == ScalingSpec => []RosterIsAlive
<1>1. ScalingInv => RosterIsAlive
  BY DEF ScalingInv, RosterKnown, RosterIsAlive
<1> QED  BY ScalingCorrect, <1>1, PTL

\* A task's file is taken over by no other task, although the counter of tasks goes back with
\* every save of a scaler.
THEOREM TasksAlwaysKept == ScalingSpec => TasksKept
<1> DEFINE Kept == \A t \in TaskId :
                     tasks[t] # 0 /\ tasks'[t] # tasks[t] =>
                       tasks'[t] = 0 /\ \E s \in Scaler : step[s] = "undoing" /\ t \in job[s].made
<1>1. ScalingInv /\ [ScalingNext]_scalingVars => [Kept]_scalingVars
  <2> SUFFICES ASSUME ScalingInv, [ScalingNext]_scalingVars PROVE Kept \/ UNCHANGED scalingVars
    OBVIOUS
  <2>t. tasks \in [TaskId -> Nat]
    BY DEF ScalingInv, ScalingTypeOK
  <2>1. ASSUME NEW p \in ScalingProc, CreateWrites(p) PROVE Kept
    <3>1. tasks[read[p].nextTask] = 0 /\ tasks' = [tasks EXCEPT ![read[p].nextTask] = @ + 1]
      BY <2>1 DEF CreateWrites, ScalingInv, CreationKnown
    <3> QED  BY <2>t, <3>1
  <2>2. ASSUME NEW s \in Scaler, UpUndoes(s) PROVE Kept
    <3>1. /\ step[s] = "undoing"
          /\ tasks' = tasks \/ \E t \in job[s].made : tasks' = [tasks EXCEPT ![t] = 0]
      BY <2>2 DEF UpUndoes
    <3> QED  BY <2>t, <3>1
  <2>3. ASSUME UNCHANGED tasks PROVE Kept
    BY <2>3
  <2>4. ASSUME NEW p \in ScalingProc, CreateReads(p) \/ CreateSaves(p) PROVE UNCHANGED tasks
    BY <2>4 DEF CreateReads, CreateSaves
  <2>5. ASSUME NEW p \in ScalingProc, NEW left \in {"free", "orphan"}, Stops(p, left) PROVE UNCHANGED tasks
    BY <2>5 DEF Stops
  <2>6. ASSUME NEW s \in Scaler, NEW count \in 1..MaxWorkers, UpReads(s, count) PROVE UNCHANGED tasks
    BY <2>6 DEF UpReads
  <2>7. ASSUME NEW s \in Scaler, UpOpens(s) \/ UpFails(s) \/ UpSaves(s) \/ UpRestores(s) PROVE UNCHANGED tasks
    BY <2>7 DEF UpOpens, UpFails, UpSaves, UpRestores
  <2>8. ASSUME NEW s \in Scaler, NEW targets \in SUBSET manifest.workers, DownReads(s, targets)
        PROVE  UNCHANGED tasks
    BY <2>8 DEF DownReads
  <2>9. ASSUME NEW s \in Scaler, DownKills(s) \/ DownSaves(s) PROVE UNCHANGED tasks
    BY <2>9 DEF DownKills, DownSaves
  <2>10. ASSUME NEW l \in {"scaling", "team"}, BreakOldLock(l) PROVE UNCHANGED tasks
    BY <2>10 DEF BreakOldLock
  <2> HIDE DEF Kept
  <2> QED  BY <2>1, <2>2, <2>3, <2>4, <2>5, <2>6, <2>7, <2>8, <2>9, <2>10 DEF ScalingNext
<1> QED  BY ScalingCorrect, <1>1, PTL DEF ScalingSpec, TasksKept

----------------------------------------------------------------------------
(* The team lock. *)

LEMMA TeamLockStep ==
  ScalingInv /\ [ScalingNext]_scalingVars => [TeamLock!Next]_(TeamLock!heldVars)
<1> SUFFICES ASSUME ScalingInv, [ScalingNext]_scalingVars PROVE [TeamLock!Next]_(TeamLock!heldVars)
  OBVIOUS
<1> DEFINE users == {p \in ScalingProc : creating[p] # "off"}
<1>t. /\ creating \in [ScalingProc -> {"off", "writing", "saving"}]
      /\ locked \in [{"scaling", "team"} -> ScalingProc \cup {"free", "orphan"}]
      /\ \A p \in ScalingProc : creating[p] # "off" => locked.team = p
  BY DEF ScalingInv, ScalingTypeOK, CreationKnown
<1>s. ASSUME locked'.team = locked.team, users' = users PROVE [TeamLock!Next]_(TeamLock!heldVars)
  BY <1>s DEF TeamLock!heldVars
<1>1. ASSUME NEW p \in ScalingProc, CreateReads(p) PROVE [TeamLock!Next]_(TeamLock!heldVars)
  <2>1. /\ locked.team = "free" /\ locked' = [locked EXCEPT !.team = p]
        /\ creating' = [creating EXCEPT ![p] = "writing"]
    BY <1>1 DEF CreateReads
  <2>2. locked'.team = p /\ users' = users \cup {p}
    BY <1>t, <2>1
  <2> QED  BY <2>1, <2>2 DEF TeamLock!Next, TeamLock!Take
<1>2. ASSUME NEW p \in ScalingProc, CreateWrites(p) PROVE [TeamLock!Next]_(TeamLock!heldVars)
  <2>1. creating[p] = "writing" /\ creating' = [creating EXCEPT ![p] = "saving"] /\ locked' = locked
    BY <1>2 DEF CreateWrites
  <2>2. users' = users
    BY <1>t, <2>1
  <2> QED  BY <1>s, <2>1, <2>2
<1>3. ASSUME NEW p \in ScalingProc, CreateSaves(p) PROVE [TeamLock!Next]_(TeamLock!heldVars)
  <2>1. /\ creating[p] = "saving" /\ locked' = [locked EXCEPT !.team = "free"]
        /\ creating' = [creating EXCEPT ![p] = "off"]
    BY <1>3 DEF CreateSaves
  <2>2. locked.team = p /\ locked'.team = "free" /\ users' = users \ {p}
    BY <1>t, <2>1
  <2> QED  BY <2>2 DEF TeamLock!Next, TeamLock!Give
<1>4. ASSUME NEW p \in ScalingProc, NEW left \in {"free", "orphan"}, Stops(p, left)
      PROVE  [TeamLock!Next]_(TeamLock!heldVars)
  <2>1. /\ locked'.team = IF locked.team = p THEN left ELSE locked.team
        /\ creating' = [creating EXCEPT ![p] = "off"]
    BY <1>4 DEF Stops
  <2>2. users' = users \ {p}
    BY <1>t, <2>1
  <2>3. CASE locked.team = p
    BY <2>1, <2>2, <2>3 DEF TeamLock!Next, TeamLock!Give, TeamLock!Abandon
  <2>4. CASE locked.team # p
    <3>1. p \notin users
      BY <1>t, <2>4
    <3> QED  BY <1>s, <2>1, <2>2, <2>4, <3>1
  <2> QED  BY <2>3, <2>4
<1>5. ASSUME locked'.team = locked.team, creating' = creating PROVE [TeamLock!Next]_(TeamLock!heldVars)
  BY <1>5, <1>s
<1>6. ASSUME NEW s \in Scaler, NEW count \in 1..MaxWorkers, UpReads(s, count)
      PROVE  locked'.team = locked.team /\ creating' = creating
  BY <1>6, <1>t DEF UpReads, EnterScaling
<1>7. ASSUME NEW s \in Scaler, UpOpens(s) \/ UpFails(s) \/ UpUndoes(s) \/ DownKills(s)
      PROVE  locked'.team = locked.team /\ creating' = creating
  BY <1>7 DEF UpOpens, UpFails, UpUndoes, DownKills
<1>8. ASSUME NEW s \in Scaler, UpSaves(s) \/ UpRestores(s) \/ DownSaves(s)
      PROVE  locked'.team = locked.team /\ creating' = creating
  BY <1>8, <1>t DEF UpSaves, UpRestores, DownSaves, LeaveScaling
<1>9. ASSUME NEW s \in Scaler, NEW targets \in SUBSET manifest.workers, DownReads(s, targets)
      PROVE  locked'.team = locked.team /\ creating' = creating
  BY <1>9, <1>t DEF DownReads, EnterScaling
<1>10. ASSUME NEW l \in {"scaling", "team"}, BreakOldLock(l) PROVE [TeamLock!Next]_(TeamLock!heldVars)
  <2>1. locked' = [locked EXCEPT ![l] = "free"] /\ creating' = creating
    BY <1>10 DEF BreakOldLock
  <2>2. CASE l = "team"
    <3>1. locked.team = "orphan" /\ locked'.team = "free"
      BY <1>10, <1>t, <2>1, <2>2 DEF BreakOldLock, Outlasts
    <3> QED  BY <2>1, <3>1 DEF TeamLock!Next, TeamLock!Clear
  <2>3. CASE l = "scaling"
    BY <1>5, <1>t, <2>1, <2>3
  <2> QED  BY <2>2, <2>3
<1>11. CASE UNCHANGED scalingVars
  BY <1>5, <1>11 DEF scalingVars
<1> HIDE DEF users
<1> QED
  BY <1>1, <1>2, <1>3, <1>4, <1>5, <1>6, <1>7, <1>8, <1>9, <1>10, <1>11 DEF ScalingNext

\* Whoever creates tasks, stops half-way or waits for those who did, the team lock is the lock
\* HeldLock describes.
THEOREM TeamLockUsedAsPromised == ScalingSpec => TeamLockUsed
<1>1. ScalingInit => TeamLock!Init
  BY DEF ScalingInit, TeamLock!Init
<1> QED  BY <1>1, TeamLockStep, ScalingCorrect, PTL DEF ScalingSpec, TeamLockUsed, TeamLock!Spec
=============================================================================
