-------------------------- MODULE TeamPhaseProofs --------------------------
(***************************************************************************)
(* Theorems about TeamPhase, for any number of tasks, pollers, jobs and    *)
(* hooks and any limit of fix attempts.                                    *)
(***************************************************************************)
EXTENDS TeamPhase, FiniteRecursion, SequenceTheorems

USE JobAssumption, AttemptsAssumption, ModeAssumption

----------------------------------------------------------------------------
(* Walking the pipeline. *)

AnyPhase == Phase \cup TerminalPhase
Reached == PhaseState \cup {Thrown}

\* What InferPhaseTarget and the stall of dead workers may ask for.
Goal == {"team-exec", "team-verify", "team-fix", "complete", "failed"}

LEMMA AdvanceType ==
  ASSUME NEW at \in Reached, NEW next \in AnyPhase
  PROVE  Advance(at, next) \in Reached
<1>1. CASE at = Thrown
  BY <1>1 DEF Advance, Thrown
<1>2. CASE at \in PhaseState
  <2>1. PICK c \in AnyPhase, k \in 0..MaxFixAttempts : at = [current |-> c, attempts |-> k]
    BY <1>2 DEF PhaseState, AnyPhase
  <2>2. TransitionPhase(at, next) \in Reached
    <3>1. [at EXCEPT !.current = next] \in PhaseState
      BY <2>1 DEF PhaseState, AnyPhase
    <3>2. [at EXCEPT !.current = "failed"] \in PhaseState
      BY <2>1 DEF PhaseState, AnyPhase, TerminalPhase
    <3>3. k + 1 <= MaxFixAttempts => [current |-> next, attempts |-> k + 1] \in PhaseState
      BY DEF PhaseState, AnyPhase
    <3> QED
      BY <2>1, <3>1, <3>2, <3>3 DEF TransitionPhase, Reached
  <2> QED
    BY <1>2, <2>2 DEF Advance, Reached
<1> QED
  BY <1>1, <1>2 DEF Reached

\* A walk goes along the path one phase after the other.
LEMMA WalkSteps ==
  ASSUME NEW s \in PhaseState, NEW to \in AnyPhase, NEW path \in Seq(AnyPhase),
         path = BuildTransitionPath(s.current, to)
  PROVE  \E f \in [0..Len(path) -> Reached] :
           /\ f[0] = s
           /\ \A n \in 1..Len(path) : f[n] = Advance(f[n - 1], path[n])
           /\ Walk(s, to) = f[Len(path)]
<1> DEFINE step == [n \in 1..Len(path) |-> [at \in Reached |-> Advance(at, path[n])]]
           Runs(f) == f = [n \in 0..Len(path) |-> IF n = 0 THEN s ELSE Advance(f[n - 1], path[n])]
<1>1. Len(path) \in Nat /\ \A n \in 1..Len(path) : path[n] \in AnyPhase
  OBVIOUS
<1>2. step \in [1..Len(path) -> [Reached -> Reached]]
  BY <1>1, AdvanceType
<1>3. PICK f : Recursion(f, Len(path), Reached, s, step)
  <2>1. s \in Reached
    BY DEF Reached
  <2>2. Len(path) \in Nat
    BY <1>1
  <2> HIDE DEF step
  <2> QED
    BY <2>1, <2>2, <1>2, RecursionTo
<1>4. /\ f \in [0..Len(path) -> Reached]
      /\ f[0] = s
      /\ \A n \in 1..Len(path) : f[n] = Advance(f[n - 1], path[n])
  <2>1. /\ f \in [0..Len(path) -> Reached]
        /\ f[0] = s
        /\ \A n \in 1..Len(path) : f[n] = step[n][f[n - 1]]
    <3> HIDE DEF step
    <3> QED
      BY <1>3 DEF Recursion
  <2>2. \A n \in 1..Len(path) : n - 1 \in 0..Len(path)
    BY <1>1
  <2> QED
    BY <2>1, <2>2
<1>5. Runs(f)
  <2>1. \A n \in 0..Len(path) : n # 0 => n \in 1..Len(path)
    BY <1>1
  <2> HIDE DEF step
  <2> QED
    BY <1>4, <2>1
<1> DEFINE reached == CHOOSE g : Runs(g)
<1>6. Runs(reached)
  <2> HIDE DEF Runs
  <2> QED
    BY <1>5
<1>7. Walk(s, to) = reached[Len(path)]
  BY DEF Walk
<1>8. reached[0] = s /\ \A n \in 1..Len(path) : reached[n] = Advance(reached[n - 1], path[n])
  <2> HIDE DEF reached
  <2> QED
    BY <1>1, <1>6
<1>9. reached \in [0..Len(path) -> Reached]
  <2> DEFINE S == {n \in 0..Len(path) : reached[n] \in Reached}
  <2> HIDE DEF reached
  <2>1. 0 \in S
    BY <1>1, <1>8 DEF Reached
  <2>2. ASSUME NEW n \in 0..(Len(path) - 1), n \in S PROVE n + 1 \in S
    <3>1. n + 1 \in 1..Len(path) /\ (n + 1) - 1 = n
      BY <1>1
    <3> QED
      BY <1>1, <1>8, <2>2, <3>1, AdvanceType
  <2> HIDE DEF S
  <2>3. \A n \in 0..Len(path) : n \in S
    BY <1>1, <2>1, <2>2, InductionTo
  <2> QED
    BY <1>6, <2>3 DEF S
<1> HIDE DEF reached
<1> QED
  BY <1>7, <1>8, <1>9

\* Every phase of the path may follow the one before, and team-fix comes last.
Linked(from, path) ==
  /\ \A n \in 1..Len(path) : <<IF n = 1 THEN from ELSE path[n - 1], path[n]>> \in ValidTransition
  /\ \A n \in 1..(Len(path) - 1) : path[n] # "team-fix"

\* A step to a phase that may follow is taken, unless the fix attempts are used up.
LEMMA LinkTaken ==
  ASSUME NEW at \in PhaseState, NEW next \in AnyPhase, <<at.current, next>> \in ValidTransition
  PROVE  /\ Advance(at, next) \in PhaseState
         /\ \/ Advance(at, next).current = next
            \/ next = "team-fix" /\ Advance(at, next).current = "failed"
<1>1. PICK c \in AnyPhase, k \in 0..MaxFixAttempts : at = [current |-> c, attempts |-> k]
  BY DEF PhaseState, AnyPhase
<1>2. at.current \in Phase /\ at.current # next
  BY DEF ValidTransition, Phase
<1>3. Advance(at, next) = TransitionPhase(at, next)
  BY <1>2 DEF Advance, Phase, TerminalPhase
<1>4. /\ [at EXCEPT !.current = next] \in PhaseState
      /\ [at EXCEPT !.current = next].current = next
  BY <1>1 DEF PhaseState, AnyPhase
<1>5. /\ [at EXCEPT !.current = "failed"] \in PhaseState
      /\ [at EXCEPT !.current = "failed"].current = "failed"
  BY <1>1 DEF PhaseState, AnyPhase, TerminalPhase
<1>6. k + 1 <= MaxFixAttempts => [current |-> next, attempts |-> k + 1] \in PhaseState
  BY DEF PhaseState, AnyPhase
<1> QED
  BY <1>1, <1>3, <1>4, <1>5, <1>6 DEF TransitionPhase

\* A walk along a linked path gets to its end, or ends as failed instead of in team-fix.
LEMMA LinkedWalk ==
  ASSUME NEW s \in PhaseState, NEW to \in AnyPhase, NEW path \in Seq(AnyPhase),
         path = BuildTransitionPath(s.current, to), Linked(s.current, path)
  PROVE  /\ Walk(s, to) \in PhaseState
         /\ IF path = <<>> THEN Walk(s, to) = s
            ELSE \/ Walk(s, to).current = path[Len(path)]
                 \/ path[Len(path)] = "team-fix" /\ Walk(s, to).current = "failed"
<1>1. PICK f \in [0..Len(path) -> Reached] :
        /\ f[0] = s
        /\ \A n \in 1..Len(path) : f[n] = Advance(f[n - 1], path[n])
        /\ Walk(s, to) = f[Len(path)]
  BY WalkSteps
<1>2. Len(path) \in Nat /\ \A n \in 1..Len(path) : path[n] \in AnyPhase
  OBVIOUS
<1> DEFINE Arrived(n) == /\ f[n] \in PhaseState
                         /\ n = 0 => f[n] = s
                         /\ n # 0 => \/ f[n].current = path[n]
                                     \/ path[n] = "team-fix" /\ f[n].current = "failed"
           S == {n \in 0..Len(path) : Arrived(n)}
<1>3. 0 \in S
  BY <1>1, <1>2
<1>4. ASSUME NEW n \in 0..(Len(path) - 1), n \in S PROVE n + 1 \in S
  <2>1. n + 1 \in 1..Len(path) /\ (n + 1) - 1 = n /\ n + 1 # 0
    BY <1>2
  <2>2. Arrived(n)
    BY <1>4
  <2>3. f[n + 1] = Advance(f[n], path[n + 1])
    BY <1>1, <2>1
  <2>4. <<f[n].current, path[n + 1]>> \in ValidTransition
    <3>1. CASE n = 0
      BY <2>1, <2>2, <3>1 DEF Linked
    <3>2. CASE n # 0
      <4>1. n \in 1..(Len(path) - 1) /\ n + 1 # 1
        BY <1>2, <3>2
      <4>2. path[n] # "team-fix" /\ <<path[n], path[n + 1]>> \in ValidTransition
        BY <2>1, <4>1 DEF Linked
      <4> QED
        BY <2>2, <3>2, <4>2
    <3> QED
      BY <3>1, <3>2
  <2>5. Arrived(n + 1)
    BY <1>2, <2>1, <2>2, <2>3, <2>4, LinkTaken
  <2> QED
    BY <2>1, <2>5
<1>5. \A n \in 0..Len(path) : n \in S
  <2> HIDE DEF S
  <2> QED
    BY <1>2, <1>3, <1>4, InductionTo
<1>6. Arrived(Len(path))
  BY <1>2, <1>5
<1>7. path = <<>> <=> Len(path) = 0
  BY EmptySeq
<1> QED
  BY <1>1, <1>6, <1>7

(* What ToExec is continued by. *)

LEMMA JoinedOneOne ==
  ASSUME NEW a, NEW b
  PROVE  <<a>> \o <<b>> = <<a, b>>
<1> DEFINE S == {a, b}
<1>1. <<a>> \in Seq(S) /\ <<b>> \in Seq(S) /\ <<a, b>> \in Seq(S)
  OBVIOUS
<1>2. Len(<<a>>) = 1 /\ Len(<<b>>) = 1 /\ Len(<<a, b>>) = 2
  OBVIOUS
<1>3. /\ <<a>> \o <<b>> \in Seq(S)
      /\ Len(<<a>> \o <<b>>) = 2
      /\ \A i \in 1..2 : (<<a>> \o <<b>>)[i] = <<a, b>>[i]
  BY <1>1, <1>2, ConcatProperties
<1> QED
  BY <1>1, <1>2, <1>3, SeqEqual

LEMMA JoinedOneTwo ==
  ASSUME NEW a, NEW b, NEW c
  PROVE  <<a>> \o <<b, c>> = <<a, b, c>>
<1> DEFINE S == {a, b, c}
<1>1. <<a>> \in Seq(S) /\ <<b, c>> \in Seq(S) /\ <<a, b, c>> \in Seq(S)
  OBVIOUS
<1>2. Len(<<a>>) = 1 /\ Len(<<b, c>>) = 2 /\ Len(<<a, b, c>>) = 3
  OBVIOUS
<1>3. /\ <<a>> \o <<b, c>> \in Seq(S)
      /\ Len(<<a>> \o <<b, c>>) = 3
      /\ \A i \in 1..3 : (<<a>> \o <<b, c>>)[i] = <<a, b, c>>[i]
  BY <1>1, <1>2, ConcatProperties
<1> QED
  BY <1>1, <1>2, <1>3, SeqEqual

LEMMA JoinedTwoOne ==
  ASSUME NEW a, NEW b, NEW c
  PROVE  <<a, b>> \o <<c>> = <<a, b, c>>
<1> DEFINE S == {a, b, c}
<1>1. <<a, b>> \in Seq(S) /\ <<c>> \in Seq(S) /\ <<a, b, c>> \in Seq(S)
  OBVIOUS
<1>2. Len(<<a, b>>) = 2 /\ Len(<<c>>) = 1 /\ Len(<<a, b, c>>) = 3
  OBVIOUS
<1>3. /\ <<a, b>> \o <<c>> \in Seq(S)
      /\ Len(<<a, b>> \o <<c>>) = 3
      /\ \A i \in 1..3 : (<<a, b>> \o <<c>>)[i] = <<a, b, c>>[i]
  BY <1>1, <1>2, ConcatProperties
<1> QED
  BY <1>1, <1>2, <1>3, SeqEqual

LEMMA JoinedTwoTwo ==
  ASSUME NEW a, NEW b, NEW c, NEW d
  PROVE  <<a, b>> \o <<c, d>> = <<a, b, c, d>>
<1> DEFINE S == {a, b, c, d}
<1>1. <<a, b>> \in Seq(S) /\ <<c, d>> \in Seq(S) /\ <<a, b, c, d>> \in Seq(S)
  OBVIOUS
<1>2. Len(<<a, b>>) = 2 /\ Len(<<c, d>>) = 2 /\ Len(<<a, b, c, d>>) = 4
  OBVIOUS
<1>3. /\ <<a, b>> \o <<c, d>> \in Seq(S)
      /\ Len(<<a, b>> \o <<c, d>>) = 4
      /\ \A i \in 1..4 : (<<a, b>> \o <<c, d>>)[i] = <<a, b, c, d>>[i]
  BY <1>1, <1>2, ConcatProperties
<1> QED
  BY <1>1, <1>2, <1>3, SeqEqual

\* A path is fit to be walked from one phase to another.
Fit(path, from, to) ==
  /\ path \in Seq(AnyPhase)
  /\ Linked(from, path)
  /\ path # <<>> /\ path[Len(path)] = to

\* Fit paths of up to four steps.
LEMMA ShortPathsFit ==
  ASSUME NEW from, NEW a \in AnyPhase, NEW b \in AnyPhase, NEW c \in AnyPhase, NEW d \in AnyPhase,
         <<from, a>> \in ValidTransition
  PROVE  /\ Fit(<<a>>, from, a)
         /\ <<a, b>> \in ValidTransition /\ a # "team-fix" => Fit(<<a, b>>, from, b)
         /\ {<<a, b>>, <<b, c>>} \subseteq ValidTransition /\ "team-fix" \notin {a, b} =>
              Fit(<<a, b, c>>, from, c)
         /\ {<<a, b>>, <<b, c>>, <<c, d>>} \subseteq ValidTransition /\ "team-fix" \notin {a, b, c} =>
              Fit(<<a, b, c, d>>, from, d)
<1>1. Fit(<<a>>, from, a)
  BY DEF Fit, Linked
<1>2. ASSUME <<a, b>> \in ValidTransition, a # "team-fix" PROVE Fit(<<a, b>>, from, b)
  BY <1>2 DEF Fit, Linked
<1>3. ASSUME {<<a, b>>, <<b, c>>} \subseteq ValidTransition, "team-fix" \notin {a, b}
      PROVE  Fit(<<a, b, c>>, from, c)
  BY <1>3 DEF Fit, Linked
<1>4. ASSUME {<<a, b>>, <<b, c>>, <<c, d>>} \subseteq ValidTransition, "team-fix" \notin {a, b, c}
      PROVE  Fit(<<a, b, c, d>>, from, d)
  BY <1>4 DEF Fit, Linked
<1> QED
  BY <1>1, <1>2, <1>3, <1>4

\* Paths lead to where they are meant to; only from team-verify there is no way back to
\* team-exec.
LEMMA PathsLinked ==
  ASSUME NEW from \in Phase, NEW to \in Goal
  PROVE  LET path == BuildTransitionPath(from, to)
         IN  Fit(path, from, to) \/ (path = <<>> /\ (from = to \/ from = "team-verify"))
<1> DEFINE path == BuildTransitionPath(from, to)
<1>a. {"team-prd", "team-exec", "team-verify", "team-fix", "complete", "failed"} \subseteq AnyPhase
  BY DEF AnyPhase, Phase, TerminalPhase
<1>b. to \in AnyPhase
  BY <1>a DEF Goal
<1>1. CASE from = to
  BY <1>1 DEF BuildTransitionPath
<1>2. CASE from # to /\ from = "team-verify"
  <2>1. path = FromVerify(to)
    BY <1>2 DEF BuildTransitionPath
  <2>2. CASE to \in {"team-fix", "complete", "failed"}
    <3>1. <<from, to>> \in ValidTransition /\ path = <<to>>
      BY <1>2, <2>1, <2>2 DEF FromVerify, ValidTransition
    <3> QED
      BY <1>b, <3>1, ShortPathsFit
  <2>3. CASE to \notin {"team-fix", "complete", "failed"}
    BY <1>2, <2>1, <2>3 DEF FromVerify
  <2> QED
    BY <2>2, <2>3
<1>3. CASE from # to /\ from = "team-fix"
  <2>1. path = FromFix(to)
    BY <1>3 DEF BuildTransitionPath
  <2>2. CASE to = "team-verify"
    <3>1. /\ path = <<"team-exec", to>>
          /\ {<<from, "team-exec">>, <<"team-exec", to>>} \subseteq ValidTransition
      BY <1>3, <2>1, <2>2 DEF FromFix, ValidTransition
    <3> QED
      BY <1>a, <1>b, <3>1, ShortPathsFit
  <2>3. CASE to # "team-verify"
    <3>1. path = <<to>> /\ <<from, to>> \in ValidTransition
      BY <1>3, <2>1, <2>3 DEF FromFix, ValidTransition, Goal
    <3> QED
      BY <1>b, <3>1, ShortPathsFit
  <2> QED
    BY <2>2, <2>3
<1>4. CASE from # to /\ from \in {"team-plan", "team-prd", "team-exec"}
  <2>1. path = IF to = "team-exec" THEN ToExec(from)
               ELSE IF to = "team-verify" THEN ToExec(from) \o <<to>>
               ELSE ToExec(from) \o <<"team-verify", to>>
    BY <1>4 DEF BuildTransitionPath, FromStart, Goal
  <2>2. /\ {<<"team-plan", "team-prd">>, <<"team-prd", "team-exec">>, <<"team-exec", "team-verify">>}
              \subseteq ValidTransition
        /\ to \notin {"team-exec", "team-verify"} => <<"team-verify", to>> \in ValidTransition
    BY DEF ValidTransition, Goal
  <2>a. /\ <<>> \o <<to>> = <<to>>
        /\ <<>> \o <<"team-verify", to>> = <<"team-verify", to>>
    <3>1. <<to>> \in Seq(AnyPhase) /\ <<"team-verify", to>> \in Seq(AnyPhase)
      BY <1>a, <1>b
    <3> QED
      BY <3>1, ConcatEmptySeq
  <2>b. /\ <<"team-exec">> \o <<to>> = <<"team-exec", to>>
        /\ <<"team-exec">> \o <<"team-verify", to>> = <<"team-exec", "team-verify", to>>
    BY JoinedOneOne, JoinedOneTwo
  <2>c. /\ <<"team-prd", "team-exec">> \o <<to>> = <<"team-prd", "team-exec", to>>
        /\ <<"team-prd", "team-exec">> \o <<"team-verify", to>>
             = <<"team-prd", "team-exec", "team-verify", to>>
    BY JoinedTwoOne, JoinedTwoTwo
  <2>3. CASE from = "team-plan"
    <3>1. path = IF to = "team-exec" THEN <<"team-prd", "team-exec">>
                 ELSE IF to = "team-verify" THEN <<"team-prd", "team-exec", to>>
                 ELSE <<"team-prd", "team-exec", "team-verify", to>>
      BY <2>1, <2>3, <2>c DEF ToExec
    <3>2. /\ Fit(<<"team-prd", "team-exec">>, from, "team-exec")
          /\ to = "team-verify" => Fit(<<"team-prd", "team-exec", to>>, from, to)
          /\ to \notin {"team-exec", "team-verify"} =>
               Fit(<<"team-prd", "team-exec", "team-verify", to>>, from, to)
      BY <1>a, <1>b, <2>2, <2>3, ShortPathsFit
    <3> QED
      BY <3>1, <3>2
  <2>4. CASE from = "team-prd"
    <3>1. path = IF to = "team-exec" THEN <<"team-exec">>
                 ELSE IF to = "team-verify" THEN <<"team-exec", to>>
                 ELSE <<"team-exec", "team-verify", to>>
      BY <2>1, <2>4, <2>b DEF ToExec
    <3>2. /\ Fit(<<"team-exec">>, from, "team-exec")
          /\ to = "team-verify" => Fit(<<"team-exec", to>>, from, to)
          /\ to \notin {"team-exec", "team-verify"} => Fit(<<"team-exec", "team-verify", to>>, from, to)
      BY <1>a, <1>b, <2>2, <2>4, ShortPathsFit
    <3> QED
      BY <3>1, <3>2
  <2>5. CASE from = "team-exec"
    <3>1. path = IF to = "team-verify" THEN <<to>> ELSE <<"team-verify", to>>
      BY <1>4, <2>1, <2>5, <2>a DEF ToExec
    <3>2. /\ to = "team-verify" => Fit(<<to>>, from, to)
          /\ to \notin {"team-exec", "team-verify"} => Fit(<<"team-verify", to>>, from, to)
      BY <1>a, <1>b, <2>2, <2>5, ShortPathsFit
    <3> QED
      BY <1>4, <2>5, <3>1, <3>2
  <2> QED
    BY <1>4, <2>3, <2>4, <2>5
<1> QED
  BY <1>1, <1>2, <1>3, <1>4 DEF Phase

\* A walk does not throw, and only one that is asked to gets to complete.
LEMMA WalkEnd ==
  ASSUME NEW s \in PhaseState, s.current \in Phase, NEW to \in Goal
  PROVE  /\ Walk(s, to) \in PhaseState
         /\ Walk(s, to).current = "complete" => to = "complete"
<1> DEFINE path == BuildTransitionPath(s.current, to)
<1>1. to \in AnyPhase
  BY DEF Goal, AnyPhase, Phase, TerminalPhase
<1>2. Fit(path, s.current, to) \/ path = <<>>
  BY PathsLinked
<1>3. path \in Seq(AnyPhase) /\ Linked(s.current, path)
  <2>1. CASE path = <<>>
    <3>1. Len(path) = 0
      BY <2>1
    <3>2. path \in Seq(AnyPhase)
      BY <2>1, EmptySeq
    <3> HIDE DEF path
    <3> QED
      BY <3>1, <3>2 DEF Linked
  <2> QED
    BY <1>2, <2>1 DEF Fit
<1>4. /\ Walk(s, to) \in PhaseState
      /\ IF path = <<>> THEN Walk(s, to) = s
         ELSE \/ Walk(s, to).current = path[Len(path)]
              \/ path[Len(path)] = "team-fix" /\ Walk(s, to).current = "failed"
  <2> HIDE DEF path
  <2>1. path = BuildTransitionPath(s.current, to)
    BY DEF path
  <2> QED
    BY <1>1, <1>3, <2>1, LinkedWalk
<1>5. CASE path = <<>>
  BY <1>4, <1>5 DEF Phase
<1>6. CASE path # <<>>
  <2>1. path[Len(path)] = to
    BY <1>2, <1>6 DEF Fit
  <2> HIDE DEF path
  <2> QED
    BY <1>4, <1>6, <2>1
<1> QED
  BY <1>5, <1>6

LEMMA TargetGoal ==
  ASSUME NEW tasks, NEW allDead
  PROVE  Target(tasks, allDead) \in Goal
BY DEF Target, InferPhaseTarget, Goal

\* Only tasks without an open, a failed and an unverified one call for complete.
LEMMA TargetComplete ==
  ASSUME NEW tasks \in [TaskId -> Work], NEW allDead, Target(tasks, allDead) = "complete"
  PROVE  \A t \in TaskId : tasks[t] \in {"absent", "completed"}
<1>1. \A t \in TaskId : tasks[t] \notin {"open", "failed", "unverified"}
  BY DEF Target, InferPhaseTarget
<1>2. \A t \in TaskId : tasks[t] \in Work
  OBVIOUS
<1> QED
  BY <1>1, <1>2 DEF Work

\* A poll does not throw; complete is what the tasks call for, or what was read and stays.
LEMMA ReconcileEnd ==
  ASSUME NEW s \in PhaseState, NEW to \in Goal
  PROVE  /\ Reconcile(s, to) \in PhaseState
         /\ Reconcile(s, to).current = "complete" =>
              to = "complete" \/ (s.current = "complete" /\ to = "failed")
<1>1. s.current \in AnyPhase
  BY DEF PhaseState, AnyPhase
<1>2. to \in AnyPhase
  BY DEF Goal, AnyPhase, Phase, TerminalPhase
<1>3. CASE s.current = to
  BY <1>3 DEF Reconcile
<1>4. CASE s.current # to /\ s.current \notin TerminalPhase
  BY <1>1, <1>4, WalkEnd DEF Reconcile, AnyPhase
<1>5. CASE s.current # to /\ s.current \in TerminalPhase /\ to \in TerminalPhase
  BY <1>5 DEF Reconcile, Goal, TerminalPhase
<1>6. CASE s.current # to /\ s.current \in TerminalPhase /\ to \notin TerminalPhase
  <2>1. Reconcile(s, to) = [current |-> to, attempts |-> 0]
    BY <1>6 DEF Reconcile
  <2>2. 0 \in 0..MaxFixAttempts
    OBVIOUS
  <2>3. [current |-> to, attempts |-> 0] \in PhaseState
    BY <1>2, <2>2 DEF PhaseState, AnyPhase
  <2> QED
    BY <2>1, <2>3
<1> QED
  BY <1>3, <1>4, <1>5, <1>6

LEMMA ThrownIsNoState == Thrown \notin PhaseState
BY DEF Thrown, PhaseState, Phase, TerminalPhase

----------------------------------------------------------------------------
(* What every state satisfies. *)

LEMMA InitType == Init => PhaseTypeOK
<1> SUFFICES ASSUME Init PROVE PhaseTypeOK
  OBVIOUS
<1>1. FirstPhase \in PhaseState
  BY DEF FirstPhase, PhaseState, Phase
<1> QED
  BY <1>1 DEF Init, PhaseTypeOK, Work

\* Each action keeps the type; a poll that writes does so because it did not throw.
LEMMA NextType ==
  ASSUME PhaseTypeOK, [Next]_phaseVars
  PROVE  PhaseTypeOK'
<1>1. ASSUME NEW t \in TaskId, CreateTask(t) \/ ChangeRequirement(t) PROVE PhaseTypeOK'
  BY <1>1 DEF PhaseTypeOK, CreateTask, ChangeRequirement, Work
<1>2. ASSUME NEW t \in TaskId, NEW outcome \in {"failed", "unverified", "completed"},
             FinishTask(t, outcome)
      PROVE  PhaseTypeOK'
  BY <1>2 DEF PhaseTypeOK, FinishTask, Work
<1>3. CASE WorkersDieOrReturn
  BY <1>3 DEF PhaseTypeOK, WorkersDieOrReturn
<1>4. ASSUME NEW m \in Poller, StartPoll(m) PROVE PhaseTypeOK'
  BY <1>4 DEF PhaseTypeOK, StartPoll
<1>5. ASSUME NEW m \in Poller, NEW t \in TaskId, ListTask(m, t) PROVE PhaseTypeOK'
  <2>1. [view[m] EXCEPT ![t] = work[t]] \in [TaskId -> Work]
    BY DEF PhaseTypeOK
  <2>2. view' \in [Poller -> [TaskId -> Work]]
    BY <1>5, <2>1 DEF PhaseTypeOK, ListTask
  <2> QED
    BY <1>5, <2>2 DEF PhaseTypeOK, ListTask
<1>6. ASSUME NEW m \in Poller, ReadPhase(m) PROVE PhaseTypeOK'
  BY <1>6 DEF PhaseTypeOK, ReadPhase
<1>7. ASSUME NEW m \in Poller, WritePhase(m) PROVE PhaseTypeOK'
  <2>1. base[m] \in PhaseState
    BY DEF PhaseTypeOK
  <2>2. phase' \in PhaseState
    BY <1>7, <2>1, TargetGoal, ReconcileEnd DEF WritePhase
  <2>3. phase'.current \in AnyPhase
    BY <2>2 DEF PhaseState, AnyPhase
  <2>4. OutcomeOf(m, phase'.current) \in TerminalPhase \cup {"running"}
    BY DEF OutcomeOf, TerminalPhase
  <2>5. ended' \in [Job -> TerminalPhase \cup {"running"}]
    BY <1>7, <2>4 DEF PhaseTypeOK, WritePhase
  <2> QED
    BY <1>7, <2>2, <2>5 DEF PhaseTypeOK, WritePhase
<1>8. ASSUME NEW m \in Poller, ScanWorkersLast(m) PROVE PhaseTypeOK'
  BY <1>8 DEF PhaseTypeOK, ScanWorkersLast
<1>9. ASSUME NEW h \in Hook, HookReads(h) PROVE PhaseTypeOK'
  BY <1>9 DEF PhaseTypeOK, HookReads
<1>10. ASSUME NEW h \in Hook, HookWrites(h) PROVE PhaseTypeOK'
  <2>1. PICK c \in AnyPhase, k \in 0..MaxFixAttempts : base[h] = [current |-> c, attempts |-> k]
    BY DEF PhaseTypeOK, PhaseState, AnyPhase
  <2>2. phase' \in PhaseState
    BY <1>10, <2>1 DEF HookWrites, PhaseState, TerminalPhase
  <2> QED
    BY <1>10, <2>2 DEF PhaseTypeOK, HookWrites
<1>11. CASE UNCHANGED phaseVars
  BY <1>11 DEF PhaseTypeOK, phaseVars
<1> QED
  BY <1>1, <1>2, <1>3, <1>4, <1>5, <1>6, <1>7, <1>8, <1>9, <1>10, <1>11 DEF Next, PollStep

\* In every reachable state every variable holds a value of its type; phase.json never counts
\* more fix attempts than max_fix_attempts.
THEOREM PhaseTypeCorrect == Spec => []PhaseTypeOK
<1>1. PhaseTypeOK /\ [Next]_phaseVars => PhaseTypeOK'
  BY NextType
<1> QED
  BY InitType, <1>1, PTL DEF Spec

\* Whatever phase.json holds and the tasks call for, reconcilePhaseStateForMonitor finds a path
\* of steps transitionPhase accepts.
THEOREM PathsAlwaysLegal == Spec => []PathsLegal
<1>1. PathsLegal
  BY TargetGoal, ReconcileEnd, ThrownIsNoState DEF PathsLegal
<1> QED
  BY <1>1, PTL

----------------------------------------------------------------------------
(* Who may call a team complete. *)

Finished == {"completed", "unverified"}

\* Nobody polls but the one background job.
JobAlone == Job = Poller /\ \A m, n \in Poller : m = n

\* A poll that reads complete and finds every worker of a prompt-mode team dead keeps the
\* complete it has read; so the two theorems below are about panes, or about a job alone,
\* which stops when it has written complete and never reads it.
CompleteIsNotKept == ~PromptMode \/ JobAlone

\* PhaseInv is inductive.  A finished task stays finished, so what a poll has listed as
\* finished is finished when it writes; a job that has ended lists nothing any more.
ListedFinished ==
  \A m \in Poller, t \in TaskId : view[m][t] \in Finished => work[t] \in Finished

EndedIsOff == \A m \in Job : ended[m] # "running" => stage[m] = "off"

AloneReadsNoComplete ==
  JobAlone => \A m \in Poller :
    /\ phase.current = "complete" => ended[m] # "running"
    /\ stage[m] = "deciding" => base[m].current # "complete"

PhaseInv ==
  /\ PhaseTypeOK
  /\ ListedFinished
  /\ EndedIsOff
  /\ AloneReadsNoComplete

LEMMA InitPhaseInv == Init => PhaseInv
<1> SUFFICES ASSUME Init PROVE PhaseInv
  OBVIOUS
<1>1. PhaseTypeOK
  BY InitType
<1>2. ListedFinished
  BY DEF Init, ListedFinished, Finished
<1>3. EndedIsOff
  BY DEF Init, EndedIsOff
<1>4. AloneReadsNoComplete
  BY DEF Init, AloneReadsNoComplete, FirstPhase
<1> QED
  BY <1>1, <1>2, <1>3, <1>4 DEF PhaseInv

LEMMA FinishedIsListed ==
  ASSUME PhaseInv, [Next]_phaseVars
  PROVE  ListedFinished'
<1> USE DEF PhaseInv, ListedFinished, Finished
<1>1. ASSUME NEW t \in TaskId, CreateTask(t) \/ ChangeRequirement(t) PROVE ListedFinished'
  BY <1>1 DEF PhaseTypeOK, CreateTask, ChangeRequirement
<1>2. ASSUME NEW t \in TaskId, NEW outcome \in {"failed", "unverified", "completed"},
             FinishTask(t, outcome)
      PROVE  ListedFinished'
  BY <1>2 DEF PhaseTypeOK, FinishTask
<1>3. ASSUME NEW m \in Poller, NEW t \in TaskId, ListTask(m, t) PROVE ListedFinished'
  <2>1. SUFFICES ASSUME NEW n \in Poller, NEW u \in TaskId, view'[n][u] \in Finished
                 PROVE  work[u] \in Finished
    BY <1>3 DEF ListTask
  <2>2. view'[n][u] = IF n = m /\ u = t THEN work[t] ELSE view[n][u]
    BY <1>3 DEF PhaseTypeOK, ListTask
  <2> QED
    BY <2>1, <2>2
<1>4. UNCHANGED <<work, view>> => ListedFinished'
  OBVIOUS
<1>5. WorkersDieOrReturn => UNCHANGED <<work, view>>
  BY DEF WorkersDieOrReturn
<1>6. \A m \in Poller : StartPoll(m) \/ ReadPhase(m) \/ WritePhase(m) \/ ScanWorkersLast(m)
                          => UNCHANGED <<work, view>>
  BY DEF StartPoll, ReadPhase, WritePhase, ScanWorkersLast
<1>7. \A h \in Hook : HookReads(h) \/ HookWrites(h) => UNCHANGED <<work, view>>
  BY DEF HookReads, HookWrites
<1>8. UNCHANGED phaseVars => UNCHANGED <<work, view>>
  BY DEF phaseVars
<1> QED
  BY <1>1, <1>2, <1>3, <1>4, <1>5, <1>6, <1>7, <1>8 DEF Next, PollStep

LEMMA EndedStaysOff ==
  ASSUME PhaseInv, [Next]_phaseVars
  PROVE  EndedIsOff'
<1> USE DEF PhaseInv, EndedIsOff
<1>1. ASSUME NEW m \in Poller, StartPoll(m) PROVE EndedIsOff'
  BY <1>1 DEF PhaseTypeOK, StartPoll
<1>2. ASSUME NEW m \in Poller, ReadPhase(m) PROVE EndedIsOff'
  BY <1>2 DEF PhaseTypeOK, ReadPhase
<1>3. ASSUME NEW m \in Poller, WritePhase(m) PROVE EndedIsOff'
  <2>1. SUFFICES ASSUME NEW j \in Job, ended'[j] # "running" PROVE stage'[j] = "off"
    OBVIOUS
  <2>2. stage'[j] = IF j = m THEN "off" ELSE stage[j]
    BY <1>3 DEF PhaseTypeOK, WritePhase
  <2>3. j # m => ended'[j] = ended[j]
    BY <1>3 DEF WritePhase
  <2> QED
    BY <2>1, <2>2, <2>3
<1>4. ASSUME NEW h \in Hook, HookReads(h) \/ HookWrites(h) PROVE EndedIsOff'
  <2>1. \A j \in Job : j # h /\ stage'[j] = stage[j] /\ ended'[j] = ended[j]
    BY <1>4 DEF PhaseTypeOK, HookReads, HookWrites
  <2> QED
    BY <2>1
<1>5. UNCHANGED <<stage, ended>> => EndedIsOff'
  OBVIOUS
<1>6. /\ WorkersDieOrReturn => UNCHANGED <<stage, ended>>
      /\ \A t \in TaskId : CreateTask(t) \/ ChangeRequirement(t) => UNCHANGED <<stage, ended>>
      /\ \A t \in TaskId, outcome \in {"failed", "unverified", "completed"} :
           FinishTask(t, outcome) => UNCHANGED <<stage, ended>>
      /\ UNCHANGED phaseVars => UNCHANGED <<stage, ended>>
  BY DEF WorkersDieOrReturn, CreateTask, ChangeRequirement, FinishTask, phaseVars
<1>7. \A m \in Poller : ScanWorkersLast(m) \/ (\E t \in TaskId : ListTask(m, t))
                          => UNCHANGED <<stage, ended>>
  BY DEF ListTask, ScanWorkersLast
<1> QED
  BY <1>1, <1>2, <1>3, <1>4, <1>5, <1>6, <1>7 DEF Next, PollStep

\* What a poll writes is complete only because the listed tasks call for it, or because it
\* read complete and its workers are dead.
LEMMA CompleteIsCalledFor ==
  ASSUME PhaseTypeOK, NEW m \in Poller, WritePhase(m), phase'.current = "complete"
  PROVE  \/ \A t \in TaskId : view[m][t] \in {"absent", "completed"}
         \/ PromptMode /\ base[m].current = "complete"
<1> DEFINE to == Target(view[m], gone[m])
<1>1. base[m] \in PhaseState /\ view[m] \in [TaskId -> Work] /\ to \in Goal
  BY TargetGoal DEF PhaseTypeOK
<1>2. phase' = Reconcile(base[m], to)
  BY DEF WritePhase
<1>3. to = "complete" \/ (base[m].current = "complete" /\ to = "failed")
  <2> HIDE DEF to
  <2> QED
    BY <1>1, <1>2, ReconcileEnd
<1>4. to = "complete" => \A t \in TaskId : view[m][t] \in {"absent", "completed"}
  BY <1>1, TargetComplete
<1>5. to = "failed" => PromptMode
  BY DEF Target, DeadWorkerStall, InferPhaseTarget
<1> QED
  BY <1>3, <1>4, <1>5

LEMMA AloneNeverReadsComplete ==
  ASSUME PhaseInv, [Next]_phaseVars
  PROVE  AloneReadsNoComplete'
<1> SUFFICES ASSUME JobAlone, NEW j \in Poller
             PROVE  /\ phase'.current = "complete" => ended'[j] # "running"
                    /\ stage'[j] = "deciding" => base'[j].current # "complete"
  BY DEF AloneReadsNoComplete
<1> USE DEF PhaseInv
<1>1. j \in Job /\ \A m \in Poller : m = j
  BY DEF JobAlone
<1>2. /\ phase.current = "complete" => ended[j] # "running"
      /\ stage[j] = "deciding" => base[j].current # "complete"
      /\ ended[j] # "running" => stage[j] = "off"
  BY <1>1 DEF AloneReadsNoComplete, EndedIsOff
<1>3. ASSUME StartPoll(j)
      PROVE  stage'[j] # "deciding" /\ UNCHANGED <<phase, ended>>
  BY <1>3 DEF PhaseTypeOK, StartPoll
<1>4. ASSUME ReadPhase(j)
      PROVE  base'[j].current # "complete" /\ UNCHANGED <<phase, ended>>
  BY <1>2, <1>4 DEF PhaseTypeOK, ReadPhase
<1>5. ASSUME WritePhase(j)
      PROVE  stage'[j] # "deciding" /\ ended'[j] = OutcomeOf(j, phase'.current)
  BY <1>1, <1>5 DEF PhaseTypeOK, WritePhase
<1>6. phase'.current = "complete" => OutcomeOf(j, phase'.current) = "complete"
  BY DEF OutcomeOf, TerminalPhase
<1>7. ASSUME NEW h \in Hook, HookReads(h) \/ HookWrites(h)
      PROVE  /\ phase'.current = "complete" => phase.current = "complete"
             /\ stage'[j] = stage[j] /\ base'[j] = base[j] /\ ended' = ended
  <2>1. stage'[j] = stage[j] /\ base'[j] = base[j] /\ ended' = ended
    BY <1>1, <1>7 DEF PhaseTypeOK, HookReads, HookWrites
  <2>2. HookWrites(h) => phase'.current # "complete"
    <3>1. PICK c \in AnyPhase, k \in 0..MaxFixAttempts : base[h] = [current |-> c, attempts |-> k]
      BY DEF PhaseTypeOK, PhaseState, AnyPhase
    <3> QED
      BY <3>1 DEF HookWrites
  <2>3. HookReads(h) => phase' = phase
    BY DEF HookReads
  <2> QED
    BY <1>7, <2>1, <2>2, <2>3
<1>8. /\ WorkersDieOrReturn => UNCHANGED <<stage, ended, phase, base>>
      /\ \A t \in TaskId : CreateTask(t) \/ ChangeRequirement(t) \/ ListTask(j, t)
                             => UNCHANGED <<stage, ended, phase, base>>
      /\ \A t \in TaskId, outcome \in {"failed", "unverified", "completed"} :
           FinishTask(t, outcome) => UNCHANGED <<stage, ended, phase, base>>
      /\ UNCHANGED phaseVars => UNCHANGED <<stage, ended, phase, base>>
      /\ ScanWorkersLast(j) => UNCHANGED <<stage, ended, phase, base>>
  BY DEF WorkersDieOrReturn, CreateTask, ChangeRequirement, FinishTask, phaseVars, ListTask,
         ScanWorkersLast
<1> QED
  BY <1>1, <1>2, <1>3, <1>4, <1>5, <1>6, <1>7, <1>8 DEF Next, PollStep

LEMMA NextPhaseInv ==
  ASSUME PhaseInv, [Next]_phaseVars
  PROVE  PhaseInv'
<1>1. PhaseTypeOK'
  BY NextType DEF PhaseInv
<1> QED
  BY <1>1, FinishedIsListed, EndedStaysOff, AloneNeverReadsComplete DEF PhaseInv

LEMMA PhaseInvariant == Spec => []PhaseInv
<1>1. PhaseInv /\ [Next]_phaseVars => PhaseInv'
  BY NextPhaseInv
<1> QED
  BY InitPhaseInv, <1>1, PTL DEF Spec

\* What a poll that writes complete has listed.
LEMMA CompleteListed ==
  ASSUME PhaseInv, CompleteIsNotKept, NEW m \in Poller, WritePhase(m), phase'.current = "complete"
  PROVE  \A t \in TaskId : view[m][t] \in {"absent", "completed"}
<1>1. JobAlone => base[m].current # "complete"
  BY DEF PhaseInv, AloneReadsNoComplete, WritePhase
<1> QED
  BY <1>1, CompleteIsCalledFor DEF PhaseInv, CompleteIsNotKept

\* Unless a stale complete can be kept, a team becomes complete only by a poll that found every
\* listed task finished, and they are all finished when it writes: no stale listing, no
\* concurrent poll, no stop hook and no fix loop given up makes it complete.
THEOREM CompleteAlwaysBacked ==
  ASSUME CompleteIsNotKept
  PROVE  Spec => CompleteIsBacked
<1> DEFINE Backed == (phase.current # "complete" /\ phase'.current = "complete") =>
       \E m \in Poller :
         /\ stage[m] = "deciding" /\ stage'[m] = "off"
         /\ \A t \in TaskId : view[m][t] # "absent" => work[t] \in {"completed", "unverified"}
<1>1. ASSUME PhaseInv, [Next]_phaseVars PROVE [Backed]_phaseVars
  <2> SUFFICES ASSUME phase.current # "complete", phase'.current = "complete" PROVE Backed
    OBVIOUS
  <2>1. \E m \in Poller : WritePhase(m)
    <3>1. ASSUME NEW h \in Hook, HookWrites(h) PROVE phase'.current = "failed"
      <4>1. PICK c \in AnyPhase, k \in 0..MaxFixAttempts : base[h] = [current |-> c, attempts |-> k]
        BY <1>1 DEF PhaseInv, PhaseTypeOK, PhaseState, AnyPhase
      <4> QED
        BY <3>1, <4>1 DEF HookWrites
    <3>2. phase' # phase
      OBVIOUS
    <3> QED
      BY <1>1, <3>1, <3>2 DEF Next, PollStep, CreateTask, ChangeRequirement, FinishTask,
         WorkersDieOrReturn, StartPoll, ListTask, ReadPhase, ScanWorkersLast, HookReads, phaseVars
  <2>2. PICK m \in Poller : WritePhase(m)
    BY <2>1
  <2>3. stage[m] = "deciding" /\ stage'[m] = "off"
    BY <1>1, <2>2 DEF WritePhase, PhaseInv, PhaseTypeOK
  <2>4. \A t \in TaskId : view[m][t] \in {"absent", "completed"}
    BY <1>1, <2>2, CompleteListed
  <2>5. \A t \in TaskId : view[m][t] # "absent" => work[t] \in {"completed", "unverified"}
    BY <1>1, <2>4 DEF PhaseInv, ListedFinished, Finished
  <2> QED
    BY <2>3, <2>5
<1> QED
  BY <1>1, PhaseInvariant, PTL DEF Spec, CompleteIsBacked

\* A background job that has ended as a success had listed no failed and no open task.
LEMMA SuccessStaysBacked ==
  ASSUME PhaseInv, JobSuccessBacked, CompleteIsNotKept, [Next]_phaseVars
  PROVE  JobSuccessBacked'
<1> SUFFICES ASSUME NEW j \in Job, ended'[j] = "complete", NEW t \in TaskId
             PROVE  view'[j][t] \notin {"open", "failed"}
  BY DEF JobSuccessBacked
<1>1. CASE ended[j] = "complete"
  <2>1. stage[j] = "off" /\ view[j][t] \notin {"open", "failed"}
    BY <1>1 DEF PhaseInv, EndedIsOff, JobSuccessBacked
  <2>2. view'[j] = view[j]
    <3>1. ASSUME NEW m \in Poller, NEW u \in TaskId, ListTask(m, u) PROVE view'[j] = view[j]
      <4>1. m # j
        BY <2>1, <3>1 DEF ListTask
      <4> QED
        BY <3>1, <4>1 DEF ListTask, PhaseInv, PhaseTypeOK
    <3> QED
      BY <3>1 DEF Next, PollStep, CreateTask, ChangeRequirement, FinishTask, WorkersDieOrReturn,
         StartPoll, WritePhase, ReadPhase, ScanWorkersLast, HookReads, HookWrites, phaseVars
  <2> QED
    BY <2>1, <2>2
<1>2. CASE ended[j] # "complete"
  <2>1. WritePhase(j)
    <3>1. ASSUME NEW m \in Poller, WritePhase(m), m # j PROVE ended'[j] = ended[j]
      BY <3>1 DEF WritePhase
    <3>2. ended' # ended
      BY <1>2
    <3>3. \E m \in Poller : WritePhase(m)
      BY <3>2 DEF Next, PollStep, CreateTask, ChangeRequirement, FinishTask, WorkersDieOrReturn,
         StartPoll, ListTask, ReadPhase, ScanWorkersLast, HookReads, HookWrites, phaseVars
    <3> QED
      BY <1>2, <3>1, <3>3
  <2>2. ended'[j] = OutcomeOf(j, phase'.current)
    BY <2>1 DEF WritePhase
  <2>3. phase'.current = "complete"
    BY <2>2 DEF OutcomeOf
  <2>4. view[j][t] \in {"absent", "completed"}
    BY <2>1, <2>3, CompleteListed
  <2> QED
    BY <2>1, <2>4 DEF WritePhase
<1> QED
  BY <1>1, <1>2

\* Unless a stale complete can be kept, the background job reports success only if no task of
\* its last listing was open or failed, whoever else polls or reopens the team.
THEOREM JobSuccessAlwaysBacked ==
  ASSUME CompleteIsNotKept
  PROVE  Spec => []JobSuccessBacked
<1>1. Init => JobSuccessBacked
  BY DEF Init, JobSuccessBacked
<1>2. PhaseInv /\ JobSuccessBacked /\ [Next]_phaseVars => JobSuccessBacked'
  BY SuccessStaysBacked
<1> QED
  BY <1>1, <1>2, PhaseInvariant, PTL DEF Spec
=============================================================================
