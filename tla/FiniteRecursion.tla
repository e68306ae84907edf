-------------------------- MODULE FiniteRecursion --------------------------
(***************************************************************************)
(* Induction and recursion over numbers in a form without operators as     *)
(* parameters: a property is the set of numbers that have it, a step of a  *)
(* recursion is a function.                                                *)
(***************************************************************************)
EXTENDS Naturals, WellFoundedInduction, TLAPS

\* A nonempty set of numbers has a least one.
LEMMA LeastNumber ==
  ASSUME NEW S \in SUBSET Nat, S # {}
  PROVE  \E n \in S : \A m \in S : n <= m
<1> DEFINE R == {ss \in Nat \X Nat : ss[1] < ss[2]}
<1>1. IsWellFoundedOn(R, Nat)
  BY NatLessThanWellFounded DEF OpToRel
<1>2. PICK n \in S : \A m \in S : ~(<<m, n>> \in R)
  BY <1>1, WFMin
<1> SUFFICES ASSUME NEW m \in S PROVE n <= m
  OBVIOUS
<1>3. m \in Nat /\ n \in Nat
  OBVIOUS
<1>4. <<m, n>> \notin R
  BY <1>2
<1>5. ~(m < n)
  BY <1>3, <1>4
<1> QED
  BY <1>3, <1>5

\* What holds for 0, and with n for n + 1, holds for every number up to N.
LEMMA InductionTo ==
  ASSUME NEW N \in Nat, NEW S, 0 \in S,
         \A n \in 0..(N - 1) : n \in S => n + 1 \in S
  PROVE  \A n \in 0..N : n \in S
<1> DEFINE Left == {n \in 0..N : n \notin S}
<1> SUFFICES ASSUME Left # {} PROVE FALSE
  OBVIOUS
<1>1. Left \in SUBSET Nat
  OBVIOUS
<1>2. PICK n \in Left : \A m \in Left : n <= m
  BY <1>1, LeastNumber
<1>3. n # 0 /\ n \in 1..N
  BY <1>2
<1>4. n - 1 \in 0..(N - 1) /\ ~(n <= n - 1) /\ (n - 1) + 1 = n
  BY <1>3
<1>5. n - 1 \in S
  BY <1>2, <1>4
<1> QED
  BY <1>2, <1>4, <1>5

\* f[n] is the value after n of N steps, the nth of which is step[n].
Recursion(f, N, A, start, step) ==
  /\ f \in [0..N -> A]
  /\ f[0] = start
  /\ \A n \in 1..N : f[n] = step[n][f[n - 1]]

\* There are such values when each step takes one of A to one of A.
LEMMA RecursionTo ==
  ASSUME NEW N \in Nat, NEW A, NEW start \in A, NEW step \in [1..N -> [A -> A]]
  PROVE  \E f : Recursion(f, N, A, start, step)
<1> DEFINE Runs(n) == \E f \in [0..n -> A] :
             f[0] = start /\ \A k \in 1..n : f[k] = step[k][f[k - 1]]
           S == {n \in Nat : Runs(n)}
<1>1. 0 \in S
  <2> DEFINE f == [k \in 0..0 |-> start]
  <2>1. f \in [0..0 -> A] /\ f[0] = start
    OBVIOUS
  <2>2. 1..0 = {}
    OBVIOUS
  <2>3. Runs(0)
    BY <2>1, <2>2
  <2> QED
    BY <2>3
<1>2. ASSUME NEW n \in 0..(N - 1), n \in S PROVE n + 1 \in S
  <2>1. PICK f \in [0..n -> A] : f[0] = start /\ \A k \in 1..n : f[k] = step[k][f[k - 1]]
    BY <1>2
  <2> DEFINE g == [k \in 0..(n + 1) |-> IF k = n + 1 THEN step[k][f[n]] ELSE f[k]]
  <2>2. n \in 0..n /\ n + 1 \in 1..N
    OBVIOUS
  <2>3. f[n] \in A
    BY <2>2
  <2>4. step[n + 1][f[n]] \in A
    BY <2>2, <2>3
  <2>5. \A k \in 0..(n + 1) : k # n + 1 => k \in 0..n
    OBVIOUS
  <2>6. g \in [0..(n + 1) -> A]
    BY <2>4, <2>5
  <2>7. g[0] = start
    BY <2>1
  <2>8. ASSUME NEW k \in 1..(n + 1) PROVE g[k] = step[k][g[k - 1]]
    <3>1. k - 1 \in 0..n /\ k - 1 # n + 1
      OBVIOUS
    <3>2. g[k - 1] = f[k - 1]
      BY <3>1
    <3>3. CASE k = n + 1
      BY <3>2, <3>3
    <3>4. CASE k # n + 1
      <4>1. k \in 1..n
        BY <3>4
      <4> QED
        BY <4>1, <3>2, <3>4, <2>1
    <3> QED
      BY <3>3, <3>4
  <2>9. n + 1 \in Nat
    OBVIOUS
  <2> HIDE DEF g
  <2> QED
    BY <2>6, <2>7, <2>8, <2>9
<1>3. \A n \in 0..N : n \in S
  <2> HIDE DEF S
  <2> QED
    BY <1>1, <1>2, InductionTo
<1>4. Runs(N)
  BY <1>3
<1> QED
  BY <1>4 DEF Recursion
=============================================================================
