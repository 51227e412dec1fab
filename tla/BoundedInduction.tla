-------------------------- MODULE BoundedInduction --------------------------
(***************************************************************************)
(* Induction for the proofs of this project, over sets and functions: the  *)
(* loops of the kernel that the models write as recursive functions (a     *)
(* walk along a list or a chain of clusters, a scan of the task table) run *)
(* over an interval 0..N.                                                  *)
(***************************************************************************)
EXTENDS Integers, FiniteSetTheorems, WellFoundedInduction, TLAPS

(* A non-empty set of naturals has a least member: what a scan of a table  *)
(* or of a FAT from its start finds.                                       *)
LEMMA LeastMember ==
  ASSUME NEW S \in SUBSET Nat, S # {}
  PROVE  \E x \in S : \A y \in S : x <= y
<1> DEFINE Less == {ss \in Nat \X Nat : ss[1] < ss[2]}
<1>1. IsWellFoundedOn(Less, Nat)
  BY NatLessThanWellFounded, Zenon DEF OpToRel
<1>2. PICK x \in S : \A y \in S : ~(<<y, x>> \in Less)
  <2> HIDE DEF Less
  <2> QED BY <1>1, WFMin, Zenon
<1>3. ASSUME NEW y \in S PROVE x <= y
  <2>1. x \in Nat /\ y \in Nat /\ <<y, x>> \in Nat \X Nat
    OBVIOUS
  <2>2. y < x => <<y, x>> \in Less
    BY <2>1
  <2>3. ~(y < x)
    BY <1>2, <2>2
  <2> QED BY <2>1, <2>3
<1> QED BY <1>2, <1>3

(* A set that holds 0 and, with every round of a loop, the next one, holds *)
(* all rounds.                                                             *)
LEMMA LoopInduction ==
  ASSUME NEW N \in Nat, NEW P, 0 \in P,
         \A n \in 0 .. N - 1 : n \in P => n + 1 \in P
  PROVE  \A n \in 0..N : n \in P
<1> SUFFICES ASSUME (0..N) \ P # {} PROVE FALSE
  OBVIOUS
<1> DEFINE Bad == (0..N) \ P
<1>1. PICK b \in Bad : \A y \in Bad : b <= y
  <2>1. Bad \in SUBSET Nat /\ Bad # {}
    OBVIOUS
  <2> HIDE DEF Bad
  <2> QED BY <2>1, LeastMember
<1>2. b \in 1..N /\ b \notin P
  <2>1. b # 0 /\ b \in 0..N /\ b \notin P
    BY <1>1
  <2> QED BY <2>1
<1>3. b - 1 \in 0 .. N - 1 /\ b - 1 \in 0..N /\ (b - 1) + 1 = b /\ ~(b <= b - 1)
  BY <1>2
<1>4. b - 1 \in P
  BY <1>1, <1>3
<1> QED BY <1>2, <1>3, <1>4

(* g[n] is what a loop has after n of its N rounds, if it begins with a    *)
(* and its round n turns x into step[n, x].                                *)
IsRun(g, N, S, a, step) ==
  /\ g \in [0..N -> S]
  /\ g[0] = a
  /\ \A n \in 1..N : g[n] = step[<<n, g[n-1]>>]

(* Such a loop has a run: the recursive function that describes it exists. *)
LEMMA LoopRuns ==
  ASSUME NEW N \in Nat, NEW S, NEW a \in S, NEW step \in [(1..N) \X S -> S]
  PROVE  \E g : IsRun(g, N, S, a, step)
<1> DEFINE Runs(n) == \E g \in [0..n -> S] : /\ g[0] = a
                                             /\ \A m \in 1..n : g[m] = step[<<m, g[m-1]>>]
           P == {n \in 0..N : Runs(n)}
<1>1. Runs(0)
  <2> DEFINE g == [m \in 0..0 |-> a]
  <2>1. g \in [0..0 -> S] /\ g[0] = a /\ \A m \in 1..0 : g[m] = step[<<m, g[m-1]>>]
    OBVIOUS
  <2> QED BY <2>1
<1>2. ASSUME NEW n \in 0 .. N - 1, n \in P PROVE n + 1 \in P
  <2>1. PICK g \in [0..n -> S] : g[0] = a /\ \A m \in 1..n : g[m] = step[<<m, g[m-1]>>]
    BY <1>2
  <2> DEFINE new == step[<<n + 1, g[n]>>]
             h   == [m \in 0 .. n + 1 |-> IF m = n + 1 THEN new ELSE g[m]]
  <2>2. n \in 0..n /\ n + 1 \in 1..N /\ n + 1 \in 0..N /\ n + 1 # 0 /\ n \in Nat
    OBVIOUS
  <2>3. new \in S
    BY <2>1, <2>2
  <2>4. \A m \in 0 .. n + 1 : m # n + 1 => m \in 0..n
    BY <2>2
  <2> HIDE DEF new
  <2>5. h \in [0 .. n + 1 -> S]
    BY <2>1, <2>3, <2>4
  <2>6. h[0] = a
    BY <2>1, <2>2
  <2>7. ASSUME NEW m \in 1 .. n + 1 PROVE h[m] = step[<<m, h[m-1]>>]
    <3>1. m \in 0 .. n + 1 /\ m - 1 \in 0 .. n + 1 /\ m - 1 # n + 1
      BY <2>2
    <3>2. h[m-1] = g[m-1]
      BY <3>1
    <3>3. CASE m = n + 1
      <4>1. m - 1 = n
        BY <3>3, <2>2
      <4> QED BY <3>1, <3>2, <3>3, <4>1 DEF new
    <3>4. CASE m # n + 1
      <4>1. m \in 1..n
        BY <3>4, <2>2
      <4> QED BY <2>1, <3>1, <3>2, <3>4, <4>1
    <3> QED BY <3>3, <3>4
  <2> HIDE DEF h
  <2>8. Runs(n + 1)
    BY <2>5, <2>6, <2>7
  <2> HIDE DEF Runs
  <2> QED BY <2>2, <2>8
<1>3. 0 \in P
  <2> HIDE DEF Runs
  <2> QED BY <1>1
<1>4. N \in 0..N
  OBVIOUS
<1>5. N \in P
  <2> HIDE DEF P
  <2> QED BY <1>2, <1>3, <1>4, LoopInduction
<1>6. Runs(N)
  BY <1>5
<1> QED BY <1>6 DEF IsRun

(* A walk of more steps than there are places comes back somewhere.        *)
LEMMA WalkReturns ==
  ASSUME NEW N \in Nat, NEW a \in Nat, NEW f \in [0..N -> a .. a + N - 1]
  PROVE  \E x, y \in 0..N : x < y /\ f[x] = f[y]
<1>1. /\ IsFiniteSet(0..N) /\ Cardinality(0..N) = N + 1
      /\ IsFiniteSet(a .. a + N - 1) /\ Cardinality(a .. a + N - 1) = N
  <2>1. a + N - 1 \in Int /\ 0 \in Int /\ N \in Int /\ a \in Int
    OBVIOUS
  <2>2. /\ IsFiniteSet(0..N)
        /\ Cardinality(0..N) = IF 0 > N THEN 0 ELSE N - 0 + 1
    BY <2>1, FS_Interval
  <2>3. /\ IsFiniteSet(a .. a + N - 1)
        /\ Cardinality(a .. a + N - 1) = IF a > a + N - 1 THEN 0 ELSE (a + N - 1) - a + 1
    BY <2>1, FS_Interval
  <2> QED BY <2>2, <2>3
<1>2. Cardinality(a .. a + N - 1) < Cardinality(0..N)
  BY <1>1
<1>3. PICK x \in 0..N, y \in 0..N : x # y /\ f[x] = f[y]
  BY <1>1, <1>2, FS_PigeonHole
<1>4. x < y \/ y < x
  BY <1>3
<1> QED BY <1>3, <1>4
=============================================================================
