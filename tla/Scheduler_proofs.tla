-------------------------- MODULE Scheduler_proofs --------------------------
(***************************************************************************)
(* Proofs about Scheduler, for every number of tasks and stack slots,      *)
(* every quantum and every width of the tick counter.  First, facts about  *)
(* the list operators of ReadyList: what a list is, and what enqueueing    *)
(* and removing make of it.                                                *)
(***************************************************************************)
EXTENDS Scheduler, BoundedInduction

-----------------------------------------------------------------------------
Last(S) == CHOOSE x \in S : \A y \in S : x >= y

After(W, t)  == First({u \in W : u > t})
Before(W, t) == Last({u \in W : u < t})

(* What WakeLoop does to r, in closed form (WakeLoopIs): the batch W is    *)
(* linked in ascending order behind the old tail.                          *)
EnqueueAll(r, W) ==
  IF W = {} THEN r ELSE
  [next |-> [t \in Tasks |->
               IF t \in W
               THEN IF t = Last(W) THEN NULL ELSE After(W, t)
               ELSE IF t = r.tail THEN First(W) ELSE r.next[t]],
   prev |-> [t \in Tasks |->
               IF t \in W
               THEN IF t = First(W) THEN r.tail ELSE Before(W, t)
               ELSE r.prev[t]],
   head |-> IF r.tail = NULL THEN First(W) ELSE r.head,
   tail |-> Last(W)]

(* A non-empty set of task numbers has a first and a last member: what the *)
(* scans of the task table in kernel/task.c find.                          *)
LEMMA FirstMember ==
  ASSUME NEW S \in SUBSET Nat, S # {}
  PROVE  First(S) \in S /\ \A y \in S : First(S) <= y
BY LeastMember DEF First

(* The same for the greatest one.                                          *)
LEMMA LastMember ==
  ASSUME NEW N \in Nat, NEW S \in SUBSET (0..N), S # {}
  PROVE  Last(S) \in S /\ \A y \in S : y <= Last(S)
<1> DEFINE R == {k \in Nat : N - k \in S}
<1>1. PICK z : z \in S
  OBVIOUS
<1>2. N - z \in R
  <2>1. z \in 0..N
    BY <1>1
  <2>2. N - z \in Nat /\ N - (N - z) = z
    BY <2>1
  <2> QED BY <1>1, <2>2
<1>3. First(R) \in R /\ \A y \in R : First(R) <= y
  <2>1. R \in SUBSET Nat /\ R # {}
    BY <1>2
  <2> HIDE DEF R
  <2> QED BY <2>1, FirstMember
<1> DEFINE x == N - First(R)
<1>4. x \in S
  BY <1>3
<1>5. ASSUME NEW y \in S PROVE x >= y
  <2>1. y \in 0..N
    OBVIOUS
  <2>2. N - y \in Nat /\ N - (N - y) = y
    BY <2>1
  <2>3. N - y \in R
    BY <2>2
  <2>4. First(R) \in Nat /\ First(R) <= N - y
    BY <1>3, <2>3
  <2> HIDE DEF R
  <2> QED BY <2>1, <2>4
<1>6. Last(S) \in S /\ \A y \in S : Last(S) >= y
  <2> HIDE DEF x
  <2> QED BY <1>4, <1>5 DEF Last
<1>7. Last(S) \in 0..N
  BY <1>6
<1> QED BY <1>6, <1>7

-----------------------------------------------------------------------------
(* The list operations of kernel/task.c keep the links in the task table.  *)
LEMMA EnqueueType ==
  ASSUME NEW r \in ReadyLists, NEW t \in Tasks
  PROVE  Enqueue(r, t) \in ReadyLists
BY DEF Enqueue, ReadyLists, Link

(* task_remove leaves a ready list.                                        *)
LEMMA RemoveType ==
  ASSUME NEW r \in ReadyLists, NEW t \in Tasks
  PROVE  Remove(r, t) \in ReadyLists
BY DEF Remove, ReadyLists, Link

(* The tasks woken by one timer interrupt: the first and the last of them, *)
(* and the neighbours of each within the batch.                            *)
LEMMA WokenBatch ==
  ASSUME NEW W \in SUBSET Tasks, W # {}
  PROVE  /\ First(W) \in W /\ \A u \in W : First(W) <= u
         /\ Last(W) \in W /\ \A u \in W : u <= Last(W)
         /\ \A t \in W \ {Last(W)} :
              After(W, t) \in W /\ t < After(W, t) /\ \A u \in W : t < u => After(W, t) <= u
         /\ \A t \in W \ {First(W)} :
              Before(W, t) \in W /\ Before(W, t) < t /\ \A u \in W : u < t => u <= Before(W, t)
<1>0. TASK_MAX \in Nat /\ W \in SUBSET Nat /\ W \in SUBSET (0..TASK_MAX)
  BY TaskMaxAssumption DEF Tasks
<1>1. First(W) \in W /\ \A u \in W : First(W) <= u
  BY <1>0, FirstMember
<1>2. Last(W) \in W /\ \A u \in W : u <= Last(W)
  BY <1>0, LastMember
<1>3. ASSUME NEW t \in W \ {Last(W)}
      PROVE  After(W, t) \in W /\ t < After(W, t) /\ \A u \in W : t < u => After(W, t) <= u
  <2> DEFINE A == {u \in W : u > t}
  <2>1. t \in Nat /\ Last(W) \in Nat /\ Last(W) > t
    <3>1. t \in Nat /\ Last(W) \in Nat /\ t <= Last(W) /\ t # Last(W)
      BY <1>0, <1>2
    <3> QED BY <3>1
  <2>2. Last(W) \in A
    BY <1>2, <2>1
  <2>3. A \in SUBSET Nat /\ A # {}
    BY <1>0, <2>2
  <2>4. First(A) \in A /\ \A u \in A : First(A) <= u
    <3> HIDE DEF A
    <3> QED BY <2>3, FirstMember
  <2>5. First(A) \in W /\ First(A) \in Nat /\ First(A) > t
    BY <2>3, <2>4
  <2>6. After(W, t) = First(A)
    BY DEF After
  <2>7. ASSUME NEW u \in W, t < u PROVE First(A) <= u
    <3>1. u \in A
      BY <1>0, <2>1, <2>7
    <3> QED BY <2>4, <3>1
  <2> HIDE DEF A
  <2> QED BY <2>1, <2>5, <2>6, <2>7
<1>4. ASSUME NEW t \in W \ {First(W)}
      PROVE  Before(W, t) \in W /\ Before(W, t) < t /\ \A u \in W : u < t => u <= Before(W, t)
  <2> DEFINE B == {u \in W : u < t}
  <2>1. t \in Nat /\ First(W) \in Nat /\ First(W) < t
    <3>1. t \in Nat /\ First(W) \in Nat /\ First(W) <= t /\ t # First(W)
      BY <1>0, <1>1
    <3> QED BY <3>1
  <2>2. First(W) \in B
    BY <1>1, <2>1
  <2>3. B \in SUBSET (0..TASK_MAX) /\ B # {}
    BY <1>0, <2>2
  <2>4. Last(B) \in B /\ \A u \in B : u <= Last(B)
    <3> HIDE DEF B
    <3> QED BY <1>0, <2>3, LastMember
  <2>5. Last(B) \in W /\ Last(B) < t
    BY <2>4
  <2>6. Before(W, t) = Last(B)
    BY DEF Before
  <2>7. ASSUME NEW u \in W, u < t PROVE u <= Last(B)
    <3>1. u \in B
      BY <2>7
    <3> QED BY <2>4, <3>1
  <2> HIDE DEF B
  <2> QED BY <2>5, <2>6, <2>7
<1> QED BY <1>1, <1>2, <1>3, <1>4

(* Enqueuing several tasks leaves a ready list.                            *)
LEMMA EnqueueAllType ==
  ASSUME NEW r \in ReadyLists, NEW W \in SUBSET Tasks
  PROVE  EnqueueAll(r, W) \in ReadyLists
<1>1. CASE W = {}
  BY <1>1 DEF EnqueueAll
<1>2. CASE W # {}
  <2> DEFINE nx == [t \in Tasks |->
               IF t \in W
               THEN IF t = Last(W) THEN NULL ELSE After(W, t)
               ELSE IF t = r.tail THEN First(W) ELSE r.next[t]]
             pv == [t \in Tasks |->
               IF t \in W
               THEN IF t = First(W) THEN r.tail ELSE Before(W, t)
               ELSE r.prev[t]]
  <2>1. ASSUME NEW t \in Tasks PROVE nx[t] \in Link
    BY <1>2, WokenBatch DEF ReadyLists, Link
  <2>2. ASSUME NEW t \in Tasks PROVE pv[t] \in Link
    BY <1>2, WokenBatch DEF ReadyLists, Link
  <2>3. nx \in [Tasks -> Link] /\ pv \in [Tasks -> Link]
    BY <2>1, <2>2
  <2>4. First(W) \in Tasks /\ Last(W) \in Tasks
    BY <1>2, WokenBatch
  <2>5. EnqueueAll(r, W) = [next |-> nx, prev |-> pv,
                            head |-> IF r.tail = NULL THEN First(W) ELSE r.head,
                            tail |-> Last(W)]
    BY <1>2 DEF EnqueueAll
  <2> HIDE DEF nx, pv
  <2> QED BY <2>3, <2>4, <2>5 DEF ReadyLists, Link
<1> QED BY <1>1, <1>2

-----------------------------------------------------------------------------
(* The empty list of task_init is a list of nobody.                        *)
LEMMA EmptyIsList == IsListOf(EmptyList, {})
<1> DEFINE none == [t \in {} |-> {}]
<1>1. none \in [{} -> SUBSET {}]
  OBVIOUS
<1>2. Ordered(EmptyList, {}, none)
  BY DEF Ordered, EmptyList
<1> QED BY <1>1, <1>2 DEF IsListOf

-----------------------------------------------------------------------------
(* Following next from the head takes one step after the other.            *)
LEMMA WalkSteps ==
  ASSUME NEW r \in ReadyLists
  PROVE  /\ Walk(r) \in [0..TASK_MAX -> Link]
         /\ Walk(r)[0] = r.head
         /\ \A n \in 1..TASK_MAX :
              Walk(r)[n] = IF Walk(r)[n-1] = NULL THEN NULL ELSE r.next[Walk(r)[n-1]]
<1> DEFINE step == [x \in (1..TASK_MAX) \X Link |-> IF x[2] = NULL THEN NULL ELSE r.next[x[2]]]
           Rec(f) == [n \in 0..TASK_MAX |->
                        IF n = 0 THEN r.head
                        ELSE IF f[n-1] = NULL THEN NULL ELSE r.next[f[n-1]]]
<1>1. /\ r.head \in Link /\ r.next \in [Tasks -> Link] /\ NULL \in Link
      /\ TASK_MAX \in Nat
  BY TaskMaxAssumption DEF ReadyLists, Link
<1>2. step \in [(1..TASK_MAX) \X Link -> Link]
  BY <1>1 DEF Link
<1>3. PICK g : IsRun(g, TASK_MAX, Link, r.head, step)
  <2> HIDE DEF step
  <2> QED BY <1>1, <1>2, LoopRuns
<1>4. \A n \in 1..TASK_MAX : g[n] = IF g[n-1] = NULL THEN NULL ELSE r.next[g[n-1]]
  <2> SUFFICES ASSUME NEW n \in 1..TASK_MAX
               PROVE  g[n] = IF g[n-1] = NULL THEN NULL ELSE r.next[g[n-1]]
    OBVIOUS
  <2>1. n - 1 \in 0..TASK_MAX
    BY <1>1
  <2>2. <<n, g[n-1]>> \in (1..TASK_MAX) \X Link
    BY <1>3, <2>1 DEF IsRun
  <2> QED BY <1>3, <2>2 DEF IsRun
<1>5. g = Rec(g)
  <2>1. \A n \in 0..TASK_MAX : n # 0 => n \in 1..TASK_MAX
    BY <1>1
  <2> QED BY <1>3, <1>4, <2>1 DEF IsRun
<1>6. Walk(r) = CHOOSE f : f = Rec(f)
  BY DEF Walk
<1>7. Walk(r) = Rec(Walk(r))
  <2> HIDE DEF Rec
  <2> QED BY <1>5, <1>6
<1>8. ASSUME NEW n \in 0..TASK_MAX
      PROVE  Walk(r)[n] = IF n = 0 THEN r.head
                          ELSE IF Walk(r)[n-1] = NULL THEN NULL ELSE r.next[Walk(r)[n-1]]
  <2> DEFINE w == Walk(r)
             v == Rec(w)
  <2>1. w[n] = v[n]
    BY <1>7
  <2>2. v[n] = IF n = 0 THEN r.head
               ELSE IF w[n-1] = NULL THEN NULL ELSE r.next[w[n-1]]
    <3> HIDE DEF w
    <3> QED OBVIOUS
  <2> HIDE DEF v
  <2> QED BY <2>1, <2>2
<1> DEFINE w == Walk(r)
<1>9. w[0] = r.head /\ \A n \in 1..TASK_MAX : w[n] = IF w[n-1] = NULL THEN NULL ELSE r.next[w[n-1]]
  <2> HIDE DEF w
  <2> QED BY <1>1, <1>8 DEF w
<1>10. w \in [0..TASK_MAX -> Link]
  <2>1. DOMAIN w = 0..TASK_MAX /\ w = [n \in 0..TASK_MAX |-> w[n]]
    BY <1>7
  <2> DEFINE P == {n \in 0..TASK_MAX : w[n] \in Link}
  <2> HIDE DEF w
  <2>2. 0 \in P
    BY <1>1, <1>9
  <2>3. ASSUME NEW n \in 0 .. TASK_MAX - 1, n \in P PROVE n + 1 \in P
    <3>1. n + 1 \in 1..TASK_MAX /\ (n + 1) - 1 = n /\ n + 1 \in 0..TASK_MAX
      BY <1>1
    <3>2. w[n+1] = IF w[n] = NULL THEN NULL ELSE r.next[w[n]]
      BY <1>9, <3>1
    <3>3. w[n] \in Link
      BY <2>3
    <3>4. w[n+1] \in Link
      BY <1>1, <3>2, <3>3 DEF Link
    <3> QED BY <3>1, <3>4
  <2>4. \A n \in 0..TASK_MAX : n \in P
    <3> HIDE DEF P
    <3> QED BY <1>1, <2>2, <2>3, LoopInduction
  <2> QED BY <2>1, <2>4
<1> QED BY <1>9, <1>10

(* What the walk along a proper list meets: members of the list, each with *)
(* exactly those in front that were met before.                            *)
LEMMA WalkOrder ==
  ASSUME NEW r \in ReadyLists, NEW S \in SUBSET Tasks, NEW ahead \in [S -> SUBSET S],
         Ordered(r, S, ahead)
  PROVE  \A k \in 0..TASK_MAX : Walk(r)[k] # NULL =>
           /\ Walk(r)[k] \in S
           /\ ahead[Walk(r)[k]] = {Walk(r)[j] : j \in 0 .. k - 1}
<1> DEFINE w == Walk(r)
           P == {k \in 0..TASK_MAX : w[k] # NULL =>
                   w[k] \in S /\ ahead[w[k]] = {w[j] : j \in 0 .. k - 1}}
<1>1. /\ w \in [0..TASK_MAX -> Link] /\ w[0] = r.head
      /\ \A n \in 1..TASK_MAX : w[n] = IF w[n-1] = NULL THEN NULL ELSE r.next[w[n-1]]
  BY WalkSteps
<1>2. TASK_MAX \in Nat /\ NULL \notin Tasks
  BY TaskMaxAssumption DEF Tasks, NULL
<1> HIDE DEF w
<1>3. 0 \in P
  <2>1. w[0] # NULL => w[0] \in S /\ ahead[w[0]] = {}
    BY <1>1 DEF Ordered
  <2>2. {w[j] : j \in 0 .. 0 - 1} = {}
    OBVIOUS
  <2> QED BY <1>2, <2>1, <2>2
<1>4. ASSUME NEW k \in 0 .. TASK_MAX - 1, k \in P PROVE k + 1 \in P
  <2>1. /\ k + 1 \in 1..TASK_MAX /\ k + 1 \in 0..TASK_MAX
        /\ (k + 1) - 1 = k /\ k \in Nat
    BY <1>2
  <2>2. w[k+1] = IF w[k] = NULL THEN NULL ELSE r.next[w[k]]
    BY <1>1, <2>1
  <2>3. SUFFICES ASSUME w[k+1] # NULL
                 PROVE  w[k+1] \in S /\ ahead[w[k+1]] = {w[j] : j \in 0..k}
    BY <2>1
  <2>4. w[k] # NULL /\ w[k+1] = r.next[w[k]]
    BY <2>2, <2>3
  <2>5. w[k] \in S /\ ahead[w[k]] = {w[j] : j \in 0 .. k - 1}
    BY <1>4, <2>4
  <2>6. w[k] # r.tail
    BY <2>3, <2>4, <2>5 DEF Ordered
  <2>7. w[k+1] \in S /\ ahead[w[k+1]] = ahead[w[k]] \cup {w[k]}
    BY <2>4, <2>5, <2>6 DEF Ordered
  <2>8. \A j : j \in 0..k <=> (j \in 0 .. k - 1 \/ j = k)
    BY <2>1
  <2>9. {w[j] : j \in 0..k} = {w[j] : j \in 0 .. k - 1} \cup {w[k]}
    BY <2>8
  <2> QED BY <2>5, <2>7, <2>9
<1>5. \A k \in 0..TASK_MAX : k \in P
  <2> HIDE DEF P
  <2> QED BY <1>2, <1>3, <1>4, LoopInduction
<1> QED BY <1>5 DEF w

(* The walk reaches the tail: it cannot go round in circles, and there are *)
(* not enough tasks for it to go on.                                       *)
LEMMA WalkReachesTail ==
  ASSUME NEW r \in ReadyLists, NEW S \in SUBSET Tasks, NEW ahead \in [S -> SUBSET S],
         Ordered(r, S, ahead), S # {}
  PROVE  \E k \in 0..TASK_MAX : Walk(r)[k] = r.tail
<1> DEFINE w == Walk(r)
           P == {k \in 0..TASK_MAX : w[k] \in S}
           B == {x \in 0..TASK_MAX : \E y \in 0..TASK_MAX : x < y /\ w[x] = w[y]}
<1> SUFFICES ASSUME \A k \in 0..TASK_MAX : w[k] # r.tail PROVE FALSE
  OBVIOUS
<1>1. /\ w \in [0..TASK_MAX -> Link] /\ w[0] = r.head
      /\ \A n \in 1..TASK_MAX : w[n] = IF w[n-1] = NULL THEN NULL ELSE r.next[w[n-1]]
  BY WalkSteps
<1>2. TASK_MAX \in Nat /\ NULL \notin Tasks
  BY TaskMaxAssumption DEF Tasks, NULL
<1>3. \A k \in 0..TASK_MAX : w[k] # NULL =>
        w[k] \in S /\ ahead[w[k]] = {w[j] : j \in 0 .. k - 1}
  BY WalkOrder
<1> HIDE DEF w
<1>4. 0 \in P
  BY <1>1, <1>2 DEF Ordered
<1>5. ASSUME NEW k \in 0 .. TASK_MAX - 1, k \in P PROVE k + 1 \in P
  <2>1. k + 1 \in 1..TASK_MAX /\ k + 1 \in 0..TASK_MAX /\ (k + 1) - 1 = k
    BY <1>2
  <2>2. w[k] \in S /\ w[k] # NULL /\ w[k] # r.tail
    BY <1>2, <1>5
  <2>3. w[k+1] = r.next[w[k]]
    BY <1>1, <2>1, <2>2
  <2> QED BY <2>1, <2>2, <2>3 DEF Ordered
<1>6. \A k \in 0..TASK_MAX : k \in P
  <2> HIDE DEF P
  <2> QED BY <1>2, <1>4, <1>5, LoopInduction
<1>7. \A k \in 0..TASK_MAX : w[k] \in S /\ w[k] # NULL
  BY <1>2, <1>6
<1>8. PICK x \in 0..TASK_MAX, y \in 0..TASK_MAX : x < y /\ w[x] = w[y]
  <2>1. 1 + TASK_MAX - 1 = TASK_MAX /\ 1 \in Nat
    BY <1>2
  <2>2. w \in [0..TASK_MAX -> 1 .. 1 + TASK_MAX - 1]
    BY <1>1, <1>7, <2>1 DEF Tasks
  <2> QED BY <1>2, <2>1, <2>2, WalkReturns
<1>9. B \in SUBSET Nat /\ B # {}
  BY <1>8
<1>10. PICK b \in B : \A z \in B : b <= z
  <2> HIDE DEF B
  <2> QED BY <1>9, LeastMember
<1>11. PICK c \in 0..TASK_MAX : b < c /\ w[b] = w[c]
  BY <1>10
<1>12. b \in 0..TASK_MAX /\ b \in 0 .. c - 1
  BY <1>10, <1>11
<1>13. w[b] \in {w[j] : j \in 0 .. b - 1}
  BY <1>3, <1>7, <1>11, <1>12
<1>14. PICK j \in 0 .. b - 1 : w[j] = w[b]
  BY <1>13
<1>15. j \in 0..TASK_MAX /\ j < b /\ ~(b <= j)
  BY <1>2, <1>12, <1>14
<1>16. j \in B
  BY <1>12, <1>14, <1>15
<1> QED BY <1>10, <1>15, <1>16

(* Following next from the head meets before t exactly what is in front of *)
(* it.                                                                     *)
LEMMA AheadOfIs ==
  ASSUME NEW r \in ReadyLists, NEW S \in SUBSET Tasks, NEW ahead \in [S -> SUBSET S],
         Ordered(r, S, ahead), NEW t \in S
  PROVE  AheadOf(r, t) = ahead[t]
<1> DEFINE w == Walk(r)
<1>1. NULL \notin Tasks /\ TASK_MAX \in Nat
  BY TaskMaxAssumption DEF Tasks, NULL
<1>2. \A k \in 0..TASK_MAX : w[k] # NULL =>
        w[k] \in S /\ ahead[w[k]] = {w[j] : j \in 0 .. k - 1}
  BY WalkOrder
<1>3. PICK e \in 0..TASK_MAX : w[e] = r.tail
  BY WalkReachesTail
<1>4. AheadOf(r, t) = {w[n] : n \in {m \in 0..TASK_MAX :
                          \E k \in m+1..TASK_MAX : w[k] = t}} \ {NULL}
  BY DEF AheadOf
<1> HIDE DEF w
<1>5. PICK k \in 0..TASK_MAX : w[k] = t
  <2>1. r.tail \in S /\ ahead[r.tail] = S \ {r.tail} /\ r.tail # NULL
    BY <1>1 DEF Ordered
  <2>2. S \ {r.tail} = {w[j] : j \in 0 .. e - 1}
    BY <1>2, <1>3, <2>1
  <2>3. CASE t = r.tail
    BY <1>3, <2>3
  <2>4. CASE t # r.tail
    <3>1. PICK j \in 0 .. e - 1 : w[j] = t
      BY <2>2, <2>4
    <3>2. j \in 0..TASK_MAX
      BY <1>1, <1>3
    <3> QED BY <3>1, <3>2
  <2> QED BY <2>3, <2>4
<1>6. t # NULL
  BY <1>1
<1>7. ASSUME NEW x \in ahead[t] PROVE x \in AheadOf(r, t)
  <2>1. x \in {w[j] : j \in 0 .. k - 1} /\ x # NULL
    BY <1>1, <1>2, <1>5, <1>6
  <2>2. PICK j \in 0 .. k - 1 : x = w[j]
    BY <2>1
  <2>3. j \in 0..TASK_MAX /\ k \in j+1..TASK_MAX
    BY <1>1, <1>5, <2>2
  <2> QED BY <1>4, <1>5, <2>1, <2>2, <2>3
<1>8. ASSUME NEW x \in AheadOf(r, t) PROVE x \in ahead[t]
  <2>1. PICK m \in 0..TASK_MAX : x = w[m] /\ \E n \in m+1..TASK_MAX : w[n] = t
    BY <1>4
  <2>2. PICK n \in m+1..TASK_MAX : w[n] = t
    BY <2>1
  <2>3. n \in 0..TASK_MAX /\ m \in 0 .. n - 1
    BY <1>1, <2>1, <2>2
  <2> QED BY <1>2, <1>6, <2>1, <2>2, <2>3
<1> QED BY <1>7, <1>8

-----------------------------------------------------------------------------
(* task_enqueue of a task that is not in the list: everyone is in front of *)
(* it.                                                                     *)
LEMMA EnqueueOrdered ==
  ASSUME NEW r \in ReadyLists, NEW S \in SUBSET Tasks, NEW t \in Tasks \ S,
         NEW ahead \in [S -> SUBSET S], Ordered(r, S, ahead)
  PROVE  Ordered(Enqueue(r, t), S \cup {t},
                 [u \in S \cup {t} |-> IF u = t THEN S ELSE ahead[u]])
<1> DEFINE T  == S \cup {t}
           aa == [u \in T |-> IF u = t THEN S ELSE ahead[u]]
           q  == Enqueue(r, t)
<1>1. Ordered(r, S, ahead)
  OBVIOUS
<1>3. NULL \notin Tasks
  BY DEF Tasks, NULL
<1>4. Ordered(q, T, aa)
  <2>1. /\ r.next \in [Tasks -> Link] /\ r.prev \in [Tasks -> Link]
        /\ r.head \in Link /\ r.tail \in Link
    BY DEF ReadyLists
  <2>2. /\ q.tail = t
        /\ q.head = IF r.tail # NULL THEN r.head ELSE t
        /\ q.prev = [r.prev EXCEPT ![t] = r.tail]
        /\ q.next = IF r.tail # NULL THEN [[r.next EXCEPT ![t] = NULL] EXCEPT ![r.tail] = t]
                                     ELSE [r.next EXCEPT ![t] = NULL]
    BY DEF Enqueue
  <2> HIDE DEF q
  <2>3. CASE S = {}
    BY <1>1, <1>3, <2>1, <2>2, <2>3 DEF Ordered, Link
  <2>4. CASE S # {}
    <3>1. /\ r.tail \in S /\ r.tail # NULL /\ r.head \in S /\ ahead[r.head] = {}
          /\ r.prev[r.head] = NULL /\ ahead[r.tail] = S \ {r.tail}
      BY <1>1, <1>3, <2>4 DEF Ordered
    <3>2. /\ q.head = r.head /\ q.tail = t
          /\ \A u \in Tasks : q.next[u] = IF u = r.tail THEN t ELSE
                                          IF u = t THEN NULL ELSE r.next[u]
          /\ \A u \in Tasks : q.prev[u] = IF u = t THEN r.tail ELSE r.prev[u]
      BY <2>1, <2>2, <3>1
    <3>3. ASSUME NEW u \in T \ {q.tail}
          PROVE  /\ q.next[u] \in T
                 /\ q.prev[q.next[u]] = u
                 /\ aa[q.next[u]] = aa[u] \cup {u}
      <4>1. CASE u = r.tail
        BY <3>1, <3>2, <4>1
      <4>2. CASE u # r.tail
        <5>1. u \in S \ {r.tail} /\ u # t /\ u \in Tasks
          BY <3>2, <4>2
        <5>2. /\ r.next[u] \in S /\ r.prev[r.next[u]] = u
              /\ ahead[r.next[u]] = ahead[u] \cup {u}
          BY <1>1, <5>1 DEF Ordered
        <5> QED BY <3>2, <5>1, <5>2
      <4> QED BY <4>1, <4>2
    <3>4. ASSUME NEW u \in T \ {q.head}
          PROVE  q.prev[u] \in T /\ q.next[q.prev[u]] = u
      <4>1. CASE u = t
        BY <3>1, <3>2, <4>1
      <4>2. CASE u # t
        <5>1. u \in S \ {r.head} /\ u \in Tasks /\ u # NULL
          BY <1>3, <3>2, <4>2
        <5>2. r.prev[u] \in S /\ r.next[r.prev[u]] = u /\ r.next[r.tail] = NULL
          BY <1>1, <2>4, <5>1 DEF Ordered
        <5>3. r.prev[u] # r.tail /\ r.prev[u] # t /\ r.prev[u] \in Tasks
          BY <5>1, <5>2
        <5> QED BY <3>2, <4>2, <5>1, <5>2, <5>3
      <4> QED BY <4>1, <4>2
    <3>5. ASSUME NEW u \in Tasks \ T PROVE q.next[u] = NULL /\ q.prev[u] = NULL
      BY <1>1, <3>1, <3>2 DEF Ordered
    <3>6. /\ q.head \in T /\ aa[q.head] = {} /\ q.prev[q.head] = NULL
          /\ q.tail \in T /\ aa[q.tail] = T \ {q.tail} /\ q.next[q.tail] = NULL
      BY <3>1, <3>2
    <3>7. q.head # NULL /\ q.tail # NULL /\ T # {}
      BY <1>3, <3>1, <3>2
    <3> HIDE DEF T, aa
    <3> QED BY <3>3, <3>4, <3>5, <3>6, <3>7 DEF Ordered
  <2> QED BY <2>3, <2>4
<1> QED BY <1>4

(* The list stays a list, and nobody is put in front of anybody.           *)
LEMMA EnqueueIsList ==
  ASSUME NEW r \in ReadyLists, NEW S \in SUBSET Tasks, NEW t \in Tasks \ S,
         IsListOf(r, S)
  PROVE  /\ IsListOf(Enqueue(r, t), S \cup {t})
         /\ \A u \in S : AheadOf(Enqueue(r, t), u) = AheadOf(r, u)
<1>1. PICK ahead \in [S -> SUBSET S] : Ordered(r, S, ahead)
  BY DEF IsListOf
<1> DEFINE T  == S \cup {t}
           aa == [u \in T |-> IF u = t THEN S ELSE ahead[u]]
           q  == Enqueue(r, t)
<1>2. aa \in [T -> SUBSET T] /\ T \in SUBSET Tasks /\ q \in ReadyLists
  BY EnqueueType
<1>3. Ordered(q, T, aa)
  BY <1>1, EnqueueOrdered
<1>4. ASSUME NEW u \in S PROVE AheadOf(q, u) = AheadOf(r, u)
  <2>1. aa[u] = ahead[u] /\ u \in T
    OBVIOUS
  <2>2. AheadOf(r, u) = ahead[u]
    BY <1>1, AheadOfIs
  <2> HIDE DEF q, T, aa
  <2>3. AheadOf(q, u) = aa[u]
    BY <1>2, <1>3, <2>1, AheadOfIs
  <2> QED BY <2>1, <2>2, <2>3
<1>5. IsListOf(q, T)
  <2> HIDE DEF q, T, aa
  <2> QED BY <1>2, <1>3 DEF IsListOf
<1> QED BY <1>4, <1>5

(* task_remove of the head, as task_select_next does it.                   *)
LEMMA RemoveHeadOrdered ==
  ASSUME NEW r \in ReadyLists, NEW S \in SUBSET Tasks,
         NEW ahead \in [S -> SUBSET S], Ordered(r, S, ahead), r.head # NULL
  PROVE  /\ r.head \in S
         /\ Ordered(Remove(r, r.head), S \ {r.head},
                    [u \in S \ {r.head} |-> ahead[u] \ {r.head}])
<1> DEFINE h  == r.head
           n  == r.next[h]
           T  == S \ {h}
           aa == [u \in T |-> ahead[u] \ {h}]
           q  == Remove(r, h)
<1>1. Ordered(r, S, ahead)
  OBVIOUS
<1>2. NULL \notin Tasks
  BY DEF Tasks, NULL
<1>3. /\ r.next \in [Tasks -> Link] /\ r.prev \in [Tasks -> Link]
      /\ h \in Link /\ r.tail \in Link
  BY DEF ReadyLists
<1>4. /\ h \in S /\ h \in Tasks /\ ahead[h] = {} /\ r.prev[h] = NULL /\ S # {}
      /\ r.tail \in S /\ r.tail \in Tasks /\ ahead[r.tail] = S \ {r.tail}
      /\ r.next[r.tail] = NULL
  BY <1>1 DEF Ordered
<1>5. aa \in [T -> SUBSET T]
  OBVIOUS
<1>6. /\ q.head = n
      /\ q.tail = IF n # NULL THEN r.tail ELSE NULL
      /\ \A u \in Tasks : q.next[u] = IF u = h THEN NULL ELSE r.next[u]
      /\ \A u \in Tasks : q.prev[u] = IF u = h \/ u = n THEN NULL ELSE r.prev[u]
  BY <1>2, <1>3, <1>4 DEF Remove, Link
<1> HIDE DEF q
<1>7. CASE h = r.tail
  <2>1. n = NULL /\ T = {}
    BY <1>1, <1>4, <1>7
  <2>2. Ordered(q, T, aa)
    BY <1>1, <1>4, <1>5, <1>6, <2>1 DEF Ordered
  <2> QED BY <1>4, <2>2 DEF q
<1>8. CASE h # r.tail
  <2>1. n \in T /\ n # NULL /\ n \in Tasks /\ ahead[n] = {h} /\ r.prev[n] = h
    BY <1>1, <1>2, <1>4, <1>8 DEF Ordered
  <2>2. ASSUME NEW u \in T \ {q.tail}
        PROVE  /\ q.next[u] \in T
               /\ q.prev[q.next[u]] = u
               /\ aa[q.next[u]] = aa[u] \cup {u}
    <3>1. u \in S \ {r.tail} /\ u # h /\ u \in Tasks
      BY <1>6, <2>1
    <3>2. /\ r.next[u] \in S /\ r.prev[r.next[u]] = u
          /\ ahead[r.next[u]] = ahead[u] \cup {u}
      BY <1>1, <3>1 DEF Ordered
    <3>3. r.next[u] # h /\ r.next[u] # n
      BY <1>2, <1>4, <2>1, <3>1, <3>2
    <3> QED BY <1>6, <3>1, <3>2, <3>3
  <2>3. ASSUME NEW u \in T \ {q.head}
        PROVE  q.prev[u] \in T /\ q.next[q.prev[u]] = u
    <3>1. u \in S \ {h} /\ u # n /\ u \in Tasks
      BY <1>6
    <3>2. r.prev[u] \in S /\ r.next[r.prev[u]] = u
      BY <1>1, <3>1 DEF Ordered
    <3>3. r.prev[u] # h
      BY <3>1, <3>2
    <3> QED BY <1>6, <3>1, <3>2, <3>3
  <2>4. ASSUME NEW u \in Tasks \ T PROVE q.next[u] = NULL /\ q.prev[u] = NULL
    BY <1>1, <1>4, <1>6 DEF Ordered
  <2>5. /\ q.head \in T /\ aa[q.head] = {} /\ q.prev[q.head] = NULL
        /\ q.tail \in T /\ aa[q.tail] = T \ {q.tail} /\ q.next[q.tail] = NULL
    BY <1>4, <1>6, <1>8, <2>1
  <2>6. q.head # NULL /\ q.tail # NULL /\ T # {}
    BY <1>2, <1>4, <1>6, <2>1
  <2>7. Ordered(q, T, aa)
    <3> HIDE DEF T, aa
    <3> QED BY <2>2, <2>3, <2>4, <2>5, <2>6 DEF Ordered
  <2> QED BY <1>4, <2>7 DEF q
<1> QED BY <1>7, <1>8

(* What remains is a list, in which everyone has only the old head less in *)
(* front.                                                                  *)
LEMMA RemoveHeadIsList ==
  ASSUME NEW r \in ReadyLists, NEW S \in SUBSET Tasks, IsListOf(r, S),
         r.head # NULL
  PROVE  /\ r.head \in S /\ IsListOf(Remove(r, r.head), S \ {r.head})
         /\ \A u \in S \ {r.head} :
              AheadOf(Remove(r, r.head), u) = AheadOf(r, u) \ {r.head}
<1>1. PICK ahead \in [S -> SUBSET S] : Ordered(r, S, ahead)
  BY DEF IsListOf
<1> DEFINE h  == r.head
           T  == S \ {h}
           aa == [u \in T |-> ahead[u] \ {h}]
           q  == Remove(r, h)
<1>2. h \in S /\ Ordered(q, T, aa)
  BY <1>1, RemoveHeadOrdered
<1>3. aa \in [T -> SUBSET T] /\ T \in SUBSET Tasks /\ q \in ReadyLists
  BY <1>2, RemoveType
<1>4. ASSUME NEW u \in T PROVE AheadOf(q, u) = AheadOf(r, u) \ {h}
  <2>1. aa[u] = ahead[u] \ {h} /\ u \in S
    OBVIOUS
  <2>2. AheadOf(r, u) = ahead[u]
    BY <1>1, <2>1, AheadOfIs
  <2> HIDE DEF q, T, aa
  <2>3. AheadOf(q, u) = aa[u]
    BY <1>2, <1>3, AheadOfIs
  <2> QED BY <2>1, <2>2, <2>3
<1>5. IsListOf(q, T)
  <2> HIDE DEF q, T, aa
  <2> QED BY <1>2, <1>3 DEF IsListOf
<1> QED BY <1>2, <1>4, <1>5

(* Who is in front of whom after that.                                     *)
AheadWithBatch(S, W, ahead) ==
  [u \in S \cup W |-> IF u \in W THEN S \cup {v \in W : v < u} ELSE ahead[u]]

(* task_wake_waiting_tasks puts a batch of tasks that are not in the list  *)
(* behind it: in front of a woken task are the whole old list and the      *)
(* members of the batch that come before it in the table.                  *)
LEMMA EnqueueAllOrdered ==
  ASSUME NEW r \in ReadyLists, NEW S \in SUBSET Tasks, NEW W \in SUBSET (Tasks \ S),
         NEW ahead \in [S -> SUBSET S], Ordered(r, S, ahead)
  PROVE  Ordered(EnqueueAll(r, W), S \cup W, AheadWithBatch(S, W, ahead))
<1>1. Ordered(r, S, ahead)
  OBVIOUS
<1>2. CASE W = {}
  <2>1. S \cup W = S /\ ahead = [u \in S |-> ahead[u]] /\ EnqueueAll(r, W) = r
    BY <1>2 DEF EnqueueAll
  <2>2. ahead = AheadWithBatch(S, W, ahead)
    BY <1>2, <2>1 DEF AheadWithBatch
  <2> QED BY <2>1, <2>2
<1>3. CASE W # {}
  <2> DEFINE T  == S \cup W
             aa == [u \in T |-> IF u \in W THEN S \cup {v \in W : v < u} ELSE ahead[u]]
             q  == EnqueueAll(r, W)
             f  == First(W)
             l  == Last(W)
  <2>2. NULL \notin Tasks /\ W \in SUBSET Tasks /\ W \in SUBSET Nat
    BY DEF Tasks, NULL
  <2>3. /\ f \in W /\ \A u \in W : f <= u
        /\ l \in W /\ \A u \in W : u <= l
        /\ \A t \in W \ {l} : /\ After(W, t) \in W /\ t < After(W, t)
                              /\ \A u \in W : t < u => After(W, t) <= u
        /\ \A t \in W \ {f} : /\ Before(W, t) \in W /\ Before(W, t) < t
                              /\ \A u \in W : u < t => u <= Before(W, t)
    BY <1>3, <2>2, WokenBatch
  <2>4. /\ r.next \in [Tasks -> Link] /\ r.prev \in [Tasks -> Link]
        /\ r.head \in Link /\ r.tail \in Link
    BY DEF ReadyLists
  <2>5. /\ q.head = IF r.tail = NULL THEN f ELSE r.head
        /\ q.tail = l
        /\ \A t \in Tasks : q.next[t] =
             IF t \in W THEN IF t = l THEN NULL ELSE After(W, t)
             ELSE IF t = r.tail THEN f ELSE r.next[t]
        /\ \A t \in Tasks : q.prev[t] =
             IF t \in W THEN IF t = f THEN r.tail ELSE Before(W, t)
             ELSE r.prev[t]
    BY <1>3 DEF EnqueueAll
  <2> HIDE DEF q, f, l
  <2>6. ASSUME NEW t \in W \ {l} PROVE Before(W, After(W, t)) = t /\ After(W, t) # f
    <3> DEFINE a == After(W, t)
    <3>1. a \in W /\ t < a /\ \A u \in W : t < u => a <= u
      BY <2>3
    <3>2. t \in Nat /\ a \in Nat /\ f \in Nat /\ f <= t
      BY <2>2, <2>3, <3>1
    <3>3. a # f
      BY <3>1, <3>2
    <3>4. Before(W, a) \in W /\ Before(W, a) < a /\ t <= Before(W, a)
      BY <2>3, <3>1, <3>3
    <3>5. Before(W, a) \in Nat /\ (t < Before(W, a) => a <= Before(W, a))
      BY <2>2, <3>1, <3>4
    <3> HIDE DEF a
    <3>6. Before(W, a) = t
      BY <3>2, <3>4, <3>5
    <3> QED BY <3>3, <3>6 DEF a
  <2>7. ASSUME NEW t \in W \ {f} PROVE After(W, Before(W, t)) = t /\ Before(W, t) # l
    <3> DEFINE b == Before(W, t)
    <3>1. b \in W /\ b < t /\ \A u \in W : u < t => u <= b
      BY <2>3
    <3>2. t \in Nat /\ b \in Nat /\ l \in Nat /\ t <= l
      BY <2>2, <2>3, <3>1
    <3>3. b # l
      BY <3>1, <3>2
    <3>4. After(W, b) \in W /\ b < After(W, b) /\ After(W, b) <= t
      BY <2>3, <3>1, <3>3
    <3>5. After(W, b) \in Nat /\ (After(W, b) < t => After(W, b) <= b)
      BY <2>2, <3>1, <3>4
    <3> HIDE DEF b
    <3>6. After(W, b) = t
      BY <3>2, <3>4, <3>5
    <3> QED BY <3>3, <3>6 DEF b
  <2>8. {v \in W : v < f} = {} /\ {v \in W : v < l} = W \ {l}
    <3>1. \A v \in W : v \in Nat /\ f \in Nat /\ l \in Nat /\ f <= v /\ v <= l
      BY <2>2, <2>3
    <3>2. \A v \in W : ~(v < f) /\ (v < l <=> v # l)
      BY <3>1
    <3> QED BY <3>2
  <2>9. ASSUME NEW t \in W \ {l}
        PROVE  {v \in W : v < After(W, t)} = {v \in W : v < t} \cup {t}
    <3>1. /\ After(W, t) \in Nat /\ t \in Nat /\ t < After(W, t)
          /\ \A v \in W : v \in Nat /\ (t < v => After(W, t) <= v)
      BY <2>2, <2>3
    <3>2. \A v \in W : v < After(W, t) <=> (v < t \/ v = t)
      BY <3>1
    <3> QED BY <3>2
  <2>10. ASSUME NEW u \in T \ {q.tail}
         PROVE  /\ q.next[u] \in T
                /\ q.prev[q.next[u]] = u
                /\ aa[q.next[u]] = aa[u] \cup {u}
    <3>1. CASE u \in W
      <4>1. u \in W \ {l} /\ q.next[u] = After(W, u) /\ After(W, u) \in W
        BY <2>2, <2>3, <2>5, <3>1
      <4>2. q.prev[After(W, u)] = u
        BY <2>2, <2>5, <2>6, <4>1
      <4>3. aa[After(W, u)] = aa[u] \cup {u}
        BY <2>9, <4>1
      <4> QED BY <4>1, <4>2, <4>3
    <3>2. CASE u = r.tail /\ u \notin W
      <4>1. u \in S /\ u \in Tasks /\ ahead[u] = S \ {u}
        BY <1>1, <3>2 DEF Ordered
      <4>2. q.next[u] = f /\ q.prev[f] = u
        BY <2>2, <2>3, <2>5, <3>2, <4>1
      <4>3. aa[f] = S /\ aa[u] = S \ {u}
        BY <2>3, <2>8, <3>2, <4>1
      <4> QED BY <2>3, <4>1, <4>2, <4>3
    <3>3. CASE u # r.tail /\ u \notin W
      <4>1. u \in S \ {r.tail} /\ u \in Tasks
        BY <3>3
      <4>2. /\ r.next[u] \in S /\ r.prev[r.next[u]] = u
            /\ ahead[r.next[u]] = ahead[u] \cup {u}
        BY <1>1, <4>1 DEF Ordered
      <4>3. q.next[u] = r.next[u] /\ q.prev[r.next[u]] = u
        BY <2>5, <3>3, <4>1, <4>2
      <4> QED BY <3>3, <4>1, <4>2, <4>3
    <3> QED BY <3>1, <3>2, <3>3
  <2>11. ASSUME NEW u \in T \ {q.head}
         PROVE  q.prev[u] \in T /\ q.next[q.prev[u]] = u
    <3>1. CASE u \in W \ {f}
      <4>1. q.prev[u] = Before(W, u) /\ Before(W, u) \in W
        BY <2>2, <2>3, <2>5, <3>1
      <4>2. q.next[Before(W, u)] = u
        BY <2>2, <2>5, <2>7, <3>1, <4>1
      <4> QED BY <4>1, <4>2
    <3>2. CASE u = f
      <4>1. r.tail # NULL
        BY <2>5, <3>2
      <4>2. r.tail \in S
        BY <1>1, <4>1 DEF Ordered
      <4>3. q.prev[f] = r.tail /\ q.next[r.tail] = f
        BY <2>2, <2>3, <2>5, <4>2
      <4> QED BY <3>2, <4>2, <4>3
    <3>3. CASE u \notin W
      <4>1. u \in S /\ u \in Tasks /\ u # NULL /\ r.tail # NULL /\ u # r.head
        BY <1>1, <2>2, <2>5, <3>3 DEF Ordered
      <4>2. r.prev[u] \in S /\ r.next[r.prev[u]] = u /\ r.next[r.tail] = NULL
        BY <1>1, <4>1 DEF Ordered
      <4>3. r.prev[u] # r.tail
        BY <4>1, <4>2
      <4> QED BY <2>5, <3>3, <4>1, <4>2, <4>3
    <3> QED BY <3>1, <3>2, <3>3
  <2>12. ASSUME NEW u \in Tasks \ T PROVE q.next[u] = NULL /\ q.prev[u] = NULL
    <3>1. u # r.tail
      BY <1>1, <2>2 DEF Ordered
    <3> QED BY <1>1, <2>5, <3>1 DEF Ordered
  <2>13. /\ q.head \in T /\ aa[q.head] = {} /\ q.prev[q.head] = NULL
         /\ q.tail \in T /\ aa[q.tail] = T \ {q.tail} /\ q.next[q.tail] = NULL
    <3>1. q.tail \in T /\ aa[q.tail] = T \ {q.tail} /\ q.next[q.tail] = NULL
      BY <2>2, <2>3, <2>5, <2>8
    <3>2. CASE r.tail = NULL
      <4>1. S = {}
        BY <1>1, <3>2 DEF Ordered
      <4> QED BY <2>2, <2>3, <2>5, <2>8, <3>1, <3>2, <4>1
    <3>3. CASE r.tail # NULL
      <4>1. r.head \in S /\ r.head \notin W /\ ahead[r.head] = {} /\ r.prev[r.head] = NULL
        BY <1>1, <3>3 DEF Ordered
      <4> QED BY <2>5, <3>1, <3>3, <4>1
    <3> QED BY <3>2, <3>3
  <2>14. q.head # NULL /\ q.tail # NULL /\ T # {}
    BY <2>2, <2>13
  <2>15. Ordered(q, T, aa)
    <3> HIDE DEF T, aa
    <3> QED BY <2>10, <2>11, <2>12, <2>13, <2>14 DEF Ordered
  <2> QED BY <2>15 DEF q, AheadWithBatch
<1> QED BY <1>2, <1>3

(* The list stays a list, and nobody is put in front of anybody who was in *)
(* it.                                                                     *)
LEMMA EnqueueAllIsList ==
  ASSUME NEW r \in ReadyLists, NEW S \in SUBSET Tasks, NEW W \in SUBSET (Tasks \ S),
         IsListOf(r, S)
  PROVE  /\ IsListOf(EnqueueAll(r, W), S \cup W)
         /\ \A u \in S : AheadOf(EnqueueAll(r, W), u) = AheadOf(r, u)
<1>1. PICK ahead \in [S -> SUBSET S] : Ordered(r, S, ahead)
  BY DEF IsListOf
<1> DEFINE T  == S \cup W
           aa == AheadWithBatch(S, W, ahead)
           q  == EnqueueAll(r, W)
<1>2. aa \in [T -> SUBSET T] /\ T \in SUBSET Tasks /\ q \in ReadyLists
  BY EnqueueAllType DEF AheadWithBatch
<1>3. Ordered(q, T, aa)
  BY <1>1, EnqueueAllOrdered
<1>4. ASSUME NEW u \in S PROVE AheadOf(q, u) = AheadOf(r, u)
  <2>1. aa[u] = ahead[u] /\ u \in T
    BY DEF AheadWithBatch
  <2>2. AheadOf(r, u) = ahead[u]
    BY <1>1, AheadOfIs
  <2> HIDE DEF q, T, aa
  <2>3. AheadOf(q, u) = aa[u]
    BY <1>2, <1>3, <2>1, AheadOfIs
  <2> QED BY <2>1, <2>2, <2>3
<1>5. IsListOf(q, T)
  <2> HIDE DEF q, T, aa
  <2> QED BY <1>2, <1>3 DEF IsListOf
<1> QED BY <1>4, <1>5

(* task_alloc clears the links of an unused task, which are clear.         *)
LEMMA UnlinkIsList ==
  ASSUME NEW r \in ReadyLists, NEW S \in SUBSET Tasks, NEW t \in Tasks \ S,
         IsListOf(r, S)
  PROVE  [r EXCEPT !.next[t] = NULL, !.prev[t] = NULL] = r
BY DEF IsListOf, Ordered, ReadyLists

-----------------------------------------------------------------------------
(* The first member of a set of task numbers, by what makes it so.         *)
LEMMA FirstIs ==
  ASSUME NEW S \in SUBSET Nat, NEW x \in S, \A y \in S : x <= y
  PROVE  First(S) = x
<1>1. First(S) \in S /\ First(S) <= x
  BY FirstMember
<1>2. x <= First(S) /\ First(S) \in Nat /\ x \in Nat
  BY <1>1
<1> QED BY <1>1, <1>2

(* The same for the last one.                                              *)
LEMMA LastIs ==
  ASSUME NEW S \in SUBSET Tasks, NEW x \in S, \A y \in S : y <= x
  PROVE  Last(S) = x
<1>1. TASK_MAX \in Nat /\ S \in SUBSET (0..TASK_MAX) /\ S # {}
  BY TaskMaxAssumption DEF Tasks
<1>2. Last(S) \in S /\ x <= Last(S)
  BY <1>1, LastMember
<1>3. Last(S) <= x
  BY <1>2
<1>4. S \in SUBSET Nat
  BY DEF Tasks
<1>5. Last(S) \in Nat /\ x \in Nat
  BY <1>2, <1>4
<1> QED BY <1>2, <1>3, <1>5

(* One more task at the end of the batch that task_wake_waiting_tasks      *)
(* wakes: the members of the batch before it keep their neighbours.        *)
LEMMA BatchGrows ==
  ASSUME NEW V \in SUBSET Tasks, V # {}, NEW n \in Tasks, \A v \in V : v < n
  PROVE  LET U == V \cup {n}
         IN  /\ First(U) = First(V) /\ Last(U) = n
             /\ \A t \in V \ {Last(V)} : After(U, t) = After(V, t)
             /\ After(U, Last(V)) = n
             /\ \A t \in V \ {First(V)} : Before(U, t) = Before(V, t)
             /\ Before(U, n) = Last(V)
<1> DEFINE U == V \cup {n}
           f == First(V)
           l == Last(V)
<1>1. /\ V \in SUBSET Nat /\ U \in SUBSET Nat /\ U \in SUBSET Tasks /\ n \in Nat
      /\ \A v \in V : v \in Nat /\ v < n
  BY DEF Tasks
<1>2. /\ f \in V /\ \A u \in V : f <= u
      /\ l \in V /\ \A u \in V : u <= l
      /\ \A t \in V \ {l} : /\ After(V, t) \in V /\ t < After(V, t)
                            /\ \A u \in V : t < u => After(V, t) <= u
      /\ \A t \in V \ {f} : /\ Before(V, t) \in V /\ Before(V, t) < t
                            /\ \A u \in V : u < t => u <= Before(V, t)
  BY WokenBatch
<1> HIDE DEF f, l
<1>3. First(U) = f
  <2>1. f \in U /\ \A y \in U : f <= y
    BY <1>1, <1>2
  <2> HIDE DEF U
  <2> QED BY <1>1, <2>1, FirstIs
<1>4. Last(U) = n
  <2>1. n \in U /\ \A y \in U : y <= n
    BY <1>1
  <2> HIDE DEF U
  <2> QED BY <1>1, <2>1, LastIs
<1>5. ASSUME NEW t \in V \ {l} PROVE After(U, t) = After(V, t)
  <2> DEFINE A == {u \in U : u > t}
             a == After(V, t)
  <2>1. a \in V /\ t < a /\ (\A u \in V : t < u => a <= u) /\ t \in Nat /\ a \in Nat
    BY <1>1, <1>2
  <2> HIDE DEF a
  <2>2. A \in SUBSET Nat /\ a \in A /\ \A y \in A : a <= y
    <3>1. A \in SUBSET Nat /\ a \in A
      BY <1>1, <2>1
    <3>2. ASSUME NEW y \in A PROVE a <= y
      <4>1. y \in U /\ y > t
        OBVIOUS
      <4>2. CASE y \in V
        BY <1>1, <2>1, <4>1, <4>2
      <4>3. CASE y = n
        BY <1>1, <2>1, <4>1, <4>3
      <4> QED BY <4>1, <4>2, <4>3
    <3> QED BY <3>1, <3>2
  <2>3. First(A) = a
    <3> HIDE DEF A
    <3> QED BY <2>2, FirstIs
  <2> QED BY <2>3 DEF After, a
<1>6. After(U, l) = n
  <2> DEFINE A == {u \in U : u > l}
  <2>1. \A u \in V : ~(u > l)
    BY <1>1, <1>2
  <2>2. A \in SUBSET Nat /\ n \in A /\ \A y \in A : n <= y
    <3>1. A \in SUBSET Nat /\ n \in A
      BY <1>1, <1>2, <2>1
    <3>2. ASSUME NEW y \in A PROVE n <= y
      <4>1. y \in U /\ y > l
        OBVIOUS
      <4>2. CASE y \in V
        BY <1>1, <1>2, <2>1, <4>1, <4>2
      <4>3. CASE y = n
        BY <1>1, <1>2, <2>1, <4>1, <4>3
      <4> QED BY <4>1, <4>2, <4>3
    <3> QED BY <3>1, <3>2
  <2>3. First(A) = n
    <3> HIDE DEF A
    <3> QED BY <2>2, FirstIs
  <2> QED BY <2>3 DEF After
<1>7. ASSUME NEW t \in V \ {f} PROVE Before(U, t) = Before(V, t)
  <2> DEFINE B == {u \in U : u < t}
             b == Before(V, t)
  <2>1. b \in V /\ b < t /\ (\A u \in V : u < t => u <= b) /\ t \in Nat /\ b \in Nat /\ t < n
    BY <1>1, <1>2
  <2> HIDE DEF b
  <2>2. B \in SUBSET Tasks /\ b \in B /\ \A y \in B : y <= b
    <3>1. B \in SUBSET Tasks /\ b \in B
      BY <1>1, <2>1
    <3>2. ASSUME NEW y \in B PROVE y <= b
      <4>1. y \in U /\ y < t
        OBVIOUS
      <4>2. CASE y \in V
        BY <1>1, <2>1, <4>1, <4>2
      <4>3. CASE y = n
        BY <1>1, <2>1, <4>1, <4>3
      <4> QED BY <4>1, <4>2, <4>3
    <3> QED BY <3>1, <3>2
  <2>3. Last(B) = b
    <3> HIDE DEF B
    <3> QED BY <2>2, LastIs
  <2> QED BY <2>3 DEF Before, b
<1>8. Before(U, n) = l
  <2> DEFINE B == {u \in U : u < n}
  <2>2. B \in SUBSET Tasks /\ l \in B /\ \A y \in B : y <= l
    <3>1. B \in SUBSET Tasks /\ l \in B
      BY <1>1, <1>2
    <3>2. ASSUME NEW y \in B PROVE y <= l
      <4>1. y \in U /\ y < n
        OBVIOUS
      <4>2. CASE y \in V
        BY <1>1, <1>2, <4>1, <4>2
      <4>3. CASE y = n
        BY <1>1, <1>2, <4>1, <4>3
      <4> QED BY <4>1, <4>2, <4>3
    <3> QED BY <3>1, <3>2
  <2>3. Last(B) = l
    <3> HIDE DEF B
    <3> QED BY <2>2, LastIs
  <2> QED BY <2>3 DEF Before
<1> HIDE DEF U
<1> QED BY <1>3, <1>4, <1>5, <1>6, <1>7, <1>8 DEF U, f, l

(* Enqueueing one more task behind a batch is enqueueing a larger batch.   *)
LEMMA EnqueueAllNext ==
  ASSUME NEW r \in ReadyLists, NEW V \in SUBSET Tasks, NEW n \in Tasks,
         \A v \in V : v < n, r.tail \notin V \cup {n}
  PROVE  Enqueue(EnqueueAll(r, V), n) = EnqueueAll(r, V \cup {n})
<1> DEFINE U == V \cup {n}
           q == EnqueueAll(r, V)
           e == Enqueue(q, n)
           a == EnqueueAll(r, U)
<1>1. /\ NULL \notin Tasks /\ U # {} /\ U \in SUBSET Tasks
      /\ r.next \in [Tasks -> Link] /\ r.prev \in [Tasks -> Link]
      /\ \A v \in V : v # n
  <2>1. \A v \in V : v \in Nat /\ v < n
    BY DEF Tasks
  <2>2. n \in Nat
    BY DEF Tasks
  <2>3. NULL \notin Tasks /\ U # {} /\ U \in SUBSET Tasks
    BY DEF Tasks, NULL
  <2> QED BY <2>1, <2>2, <2>3 DEF ReadyLists
<1>2. /\ q \in ReadyLists /\ e \in ReadyLists /\ a \in ReadyLists
  BY <1>1, EnqueueAllType, EnqueueType
<1>3. /\ q.next \in [Tasks -> Link] /\ q.prev \in [Tasks -> Link]
      /\ e.next \in [Tasks -> Link] /\ e.prev \in [Tasks -> Link]
      /\ a.next \in [Tasks -> Link] /\ a.prev \in [Tasks -> Link]
  <2> HIDE DEF q, e, a
  <2> QED BY <1>2 DEF ReadyLists
<1>4. /\ a.head = IF r.tail = NULL THEN First(U) ELSE r.head
      /\ a.tail = Last(U)
      /\ \A t \in Tasks : a.next[t] =
           IF t \in U THEN IF t = Last(U) THEN NULL ELSE After(U, t)
           ELSE IF t = r.tail THEN First(U) ELSE r.next[t]
      /\ \A t \in Tasks : a.prev[t] =
           IF t \in U THEN IF t = First(U) THEN r.tail ELSE Before(U, t)
           ELSE r.prev[t]
  <2> HIDE DEF U
  <2> QED BY <1>1 DEF EnqueueAll
<1>5. /\ e.tail = n
      /\ e.head = IF q.tail # NULL THEN q.head ELSE n
      /\ \A t \in Tasks : e.prev[t] = IF t = n THEN q.tail ELSE q.prev[t]
      /\ q.tail # n => \A t \in Tasks : e.next[t] =
           IF t = n THEN NULL ELSE IF t = q.tail THEN n ELSE q.next[t]
  <2> HIDE DEF q
  <2>1. q.tail \in Link
    BY <1>2 DEF ReadyLists
  <2> QED BY <1>1, <1>3, <2>1 DEF Enqueue, Link
<1>6. CASE V = {}
  <2>1. q = r /\ U = {n}
    BY <1>6 DEF EnqueueAll
  <2>2. First(U) = n /\ Last(U) = n
    <3>1. n \in Nat /\ U \in SUBSET Nat /\ n \in U /\ \A y \in U : n <= y /\ y <= n
      BY <2>1 DEF Tasks
    <3> HIDE DEF U
    <3> QED BY <1>1, <3>1, FirstIs, LastIs
  <2>3. /\ e.tail = a.tail
        /\ e.head = a.head
        /\ \A t \in Tasks : e.next[t] = a.next[t] /\ e.prev[t] = a.prev[t]
    <3>1. n # r.tail /\ \A t : t \in U <=> t = n
      BY <2>1
    <3> HIDE DEF U, q, e, a
    <3> QED BY <1>1, <1>4, <1>5, <2>1, <2>2, <3>1
  <2>4. e.next = a.next /\ e.prev = a.prev
    <3> HIDE DEF U, q, e, a
    <3> QED BY <1>3, <2>3
  <2> HIDE DEF U, q, e, a
  <2> QED BY <1>2, <2>3, <2>4 DEF ReadyLists, q, e, a, U
<1>7. CASE V # {}
  <2> DEFINE f == First(V)
             l == Last(V)
  <2>1. /\ q.head = IF r.tail = NULL THEN f ELSE r.head
        /\ q.tail = l
        /\ \A t \in Tasks : q.next[t] =
             IF t \in V THEN IF t = l THEN NULL ELSE After(V, t)
             ELSE IF t = r.tail THEN f ELSE r.next[t]
        /\ \A t \in Tasks : q.prev[t] =
             IF t \in V THEN IF t = f THEN r.tail ELSE Before(V, t)
             ELSE r.prev[t]
    BY <1>7 DEF EnqueueAll
  <2>2. f \in V /\ l \in V
    BY <1>7, WokenBatch
  <2>3. /\ First(U) = f /\ Last(U) = n
        /\ \A t \in V \ {l} : After(U, t) = After(V, t)
        /\ After(U, l) = n
        /\ \A t \in V \ {f} : Before(U, t) = Before(V, t)
        /\ Before(U, n) = l
    BY <1>7, BatchGrows
  <2>4. \A t : t \in U <=> t \in V \/ t = n
    OBVIOUS
  <2>5. l # NULL /\ l # n /\ n \notin V /\ r.tail \notin V /\ r.tail # n /\ f # n
    BY <1>1, <2>2
  <2> HIDE DEF U, q, e, a, f, l
  <2>6. e.tail = a.tail /\ e.head = a.head
    BY <1>4, <1>5, <2>1, <2>3, <2>5
  <2>7. ASSUME NEW t \in Tasks PROVE e.next[t] = a.next[t]
    <3>1. e.next[t] = IF t = n THEN NULL ELSE IF t = l THEN n ELSE q.next[t]
      BY <1>5, <2>1, <2>5
    <3>2. CASE t = n
      BY <1>4, <2>3, <2>4, <3>1, <3>2
    <3>3. CASE t = l
      BY <1>4, <2>2, <2>3, <2>4, <2>5, <3>1, <3>3
    <3>4. CASE t # n /\ t # l
      BY <1>4, <2>1, <2>3, <2>4, <3>1, <3>4
    <3> QED BY <3>2, <3>3, <3>4
  <2>8. ASSUME NEW t \in Tasks PROVE e.prev[t] = a.prev[t]
    <3>1. CASE t = n
      BY <1>4, <1>5, <2>1, <2>3, <2>4, <2>5, <3>1
    <3>2. CASE t # n
      BY <1>4, <1>5, <2>1, <2>3, <2>4, <3>2
    <3> QED BY <3>1, <3>2
  <2>9. e.next = a.next /\ e.prev = a.prev
    BY <1>3, <2>7, <2>8
  <2> QED BY <1>2, <2>6, <2>9 DEF ReadyLists, q, e, a, U
<1> QED BY <1>6, <1>7

(* The loop of task_wake_waiting_tasks takes one entry of the table after  *)
(* the other.                                                              *)
LEMMA WakeLoopSteps ==
  ASSUME NEW r \in ReadyLists, NEW W \in SUBSET Tasks
  PROVE  /\ WakeLoop(r, W)[0] = r
         /\ \A i \in 1..TASK_MAX :
              WakeLoop(r, W)[i] = IF i \in W THEN Enqueue(WakeLoop(r, W)[i-1], i)
                                             ELSE WakeLoop(r, W)[i-1]
<1> DEFINE step == [x \in (1..TASK_MAX) \X ReadyLists |->
                      IF x[1] \in W THEN Enqueue(x[2], x[1]) ELSE x[2]]
           Rec(f) == [i \in 0..TASK_MAX |->
                        IF i = 0 THEN r
                        ELSE IF i \in W THEN Enqueue(f[i-1], i) ELSE f[i-1]]
<1>1. TASK_MAX \in Nat
  BY TaskMaxAssumption
<1>2. step \in [(1..TASK_MAX) \X ReadyLists -> ReadyLists]
  <2>1. ASSUME NEW x \in (1..TASK_MAX) \X ReadyLists
        PROVE  (IF x[1] \in W THEN Enqueue(x[2], x[1]) ELSE x[2]) \in ReadyLists
    <3>1. x[1] \in Tasks /\ x[2] \in ReadyLists
      BY DEF Tasks
    <3>2. Enqueue(x[2], x[1]) \in ReadyLists
      BY <3>1, EnqueueType
    <3> QED BY <3>1, <3>2
  <2> QED BY <2>1
<1>3. PICK g : IsRun(g, TASK_MAX, ReadyLists, r, step)
  <2> HIDE DEF step
  <2> QED BY <1>1, <1>2, LoopRuns
<1>4. ASSUME NEW i \in 1..TASK_MAX
      PROVE  g[i] = IF i \in W THEN Enqueue(g[i-1], i) ELSE g[i-1]
  <2>1. i - 1 \in 0..TASK_MAX
    BY <1>1
  <2>2. <<i, g[i-1]>> \in (1..TASK_MAX) \X ReadyLists
    BY <1>3, <2>1 DEF IsRun
  <2> QED BY <1>3, <2>2 DEF IsRun
<1>5. g = Rec(g)
  <2>1. \A i \in 0..TASK_MAX : i # 0 => i \in 1..TASK_MAX
    BY <1>1
  <2>2. g[0] = r /\ g = [i \in 0..TASK_MAX |-> g[i]]
    BY <1>3 DEF IsRun
  <2>3. ASSUME NEW i \in 0..TASK_MAX
        PROVE  g[i] = IF i = 0 THEN r ELSE IF i \in W THEN Enqueue(g[i-1], i) ELSE g[i-1]
    BY <1>4, <2>1, <2>2
  <2> QED BY <2>2, <2>3
<1>6. WakeLoop(r, W) = CHOOSE f : f = Rec(f)
  BY DEF WakeLoop
<1>7. WakeLoop(r, W) = Rec(WakeLoop(r, W))
  <2> HIDE DEF Rec
  <2> QED BY <1>5, <1>6
<1> DEFINE w == WakeLoop(r, W)
           v == Rec(w)
<1>8. ASSUME NEW i \in 0..TASK_MAX
      PROVE  w[i] = IF i = 0 THEN r ELSE IF i \in W THEN Enqueue(w[i-1], i) ELSE w[i-1]
  <2>1. w[i] = v[i]
    BY <1>7
  <2>2. v[i] = IF i = 0 THEN r ELSE IF i \in W THEN Enqueue(w[i-1], i) ELSE w[i-1]
    <3> HIDE DEF w
    <3> QED OBVIOUS
  <2> HIDE DEF w, v
  <2> QED BY <2>1, <2>2
<1> HIDE DEF w
<1>9. 0 \in 0..TASK_MAX /\ \A i \in 1..TASK_MAX : i \in 0..TASK_MAX /\ i # 0
  BY <1>1
<1> QED BY <1>8, <1>9 DEF w

(* It leaves the list that EnqueueAll says.                                *)
LEMMA WakeLoopIs ==
  ASSUME NEW r \in ReadyLists, NEW W \in SUBSET Tasks, r.tail \notin W
  PROVE  EnqueueAll(r, W) = WakeLoop(r, W)[TASK_MAX]
<1> DEFINE w    == WakeLoop(r, W)
           V(i) == W \cap 1..i
           P    == {i \in 0..TASK_MAX : w[i] = EnqueueAll(r, V(i))}
<1>1. TASK_MAX \in Nat
  BY TaskMaxAssumption
<1>2. w[0] = r /\ \A i \in 1..TASK_MAX :
                    w[i] = IF i \in W THEN Enqueue(w[i-1], i) ELSE w[i-1]
  BY WakeLoopSteps
<1> HIDE DEF w
<1>3. 0 \in P
  <2>1. V(0) = {}
    OBVIOUS
  <2> HIDE DEF V
  <2> QED BY <1>1, <1>2, <2>1 DEF EnqueueAll
<1>4. ASSUME NEW i \in 0 .. TASK_MAX - 1, i \in P PROVE i + 1 \in P
  <2> DEFINE n == i + 1
  <2>1. n \in 1..TASK_MAX /\ n \in 0..TASK_MAX /\ n - 1 = i /\ n \in Tasks /\ i \in Nat
    BY <1>1 DEF Tasks
  <2>2. w[n] = IF n \in W THEN Enqueue(w[i], n) ELSE w[i]
    BY <1>2, <2>1
  <2>3. \A x \in Nat : x \in 1..n <=> (x \in 1..i \/ x = n)
    BY <2>1
  <2>4. W \in SUBSET Nat
    BY DEF Tasks
  <2>5. CASE n \notin W
    <3>1. V(n) = V(i)
      BY <2>3, <2>4, <2>5
    <3> HIDE DEF V
    <3> QED BY <1>4, <2>1, <2>2, <2>5, <3>1
  <2>6. CASE n \in W
    <3>1. V(n) = V(i) \cup {n}
      BY <2>1, <2>3, <2>4, <2>6
    <3>2. V(i) \in SUBSET Tasks /\ r.tail \notin V(i) \cup {n}
      BY <2>6
    <3>3. \A v \in V(i) : v < n
      BY <2>1
    <3> HIDE DEF V, n
    <3>4. Enqueue(EnqueueAll(r, V(i)), n) = EnqueueAll(r, V(i) \cup {n})
      BY <2>1, <3>2, <3>3, EnqueueAllNext
    <3>5. w[n] = EnqueueAll(r, V(n))
      BY <1>4, <2>2, <2>6, <3>1, <3>4
    <3> QED BY <2>1, <3>5 DEF n
  <2> QED BY <2>5, <2>6
<1>5. \A i \in 0..TASK_MAX : i \in P
  <2> HIDE DEF P
  <2> QED BY <1>1, <1>3, <1>4, LoopInduction
<1>6. V(TASK_MAX) = W /\ TASK_MAX \in 0..TASK_MAX
  <2>1. V(TASK_MAX) = W
    <3>1. \A x \in W : x \in 1..TASK_MAX
      BY DEF Tasks
    <3> QED BY <3>1
  <2> QED BY <1>1, <2>1
<1> HIDE DEF V
<1> QED BY <1>5, <1>6 DEF w

-----------------------------------------------------------------------------
(* What the safety invariants of Scheduler need to be inductive: the idle  *)
(* task never leaves the processor but for the ready list, so the list is  *)
(* empty only while it runs; the task kernel_idle is building is ready,    *)
(* has no parent and is not the idle task; and the current task has ticks  *)
(* of its quantum left.                                                    *)
IdleRunnable  == task[Idle].state \in {"READY", "RUNNING"}
BuildingReady ==
  building # NULL => /\ building # Idle
                     /\ task[building].state = "READY" /\ task[building].parent = NULL
QuantumLeft   == task[current].ticks < QUANTUM

Inv ==
  /\ TypeOK
  /\ ReadyListOK
  /\ RunsCurrent
  /\ StackSlotsOwned
  /\ ChildrenAreOurs
  /\ IdleRunnable
  /\ BuildingReady
  /\ QuantumLeft

(* What a step may do to zombies and to the order of the ready list.       *)
DeadStayDead ==
  \A t \in Tasks : task[t].state = "ZOMBIE" =>
    \/ task'[t].state = "ZOMBIE"
    \/ /\ task'[t].state = "UNUSED"
       /\ task[t].parent = current /\ t \in task[current].children

NobodyPasses ==
  \A t \in ReadyTasks \cap ReadyTasks' : AheadOf(rl', t) \subseteq AheadOf(rl, t)

-----------------------------------------------------------------------------
(* What the proofs use of the assumptions on the constants.                *)
LEMMA Constants ==
  /\ Idle \in Tasks /\ NULL \notin Tasks /\ Tasks \subseteq Nat
  /\ 0 \in Slots /\ NoSlot \notin Slots /\ Slots \subseteq Nat
  /\ QUANTUM \in Nat /\ 0 < QUANTUM /\ TICK_MOD \in Nat /\ 1 < TICK_MOD
  /\ MAX_PID \in Nat /\ 1 < MAX_PID
BY TaskMaxAssumption, SchedulerAssumption DEF Idle, Tasks, NULL, Slots, NoSlot

-----------------------------------------------------------------------------
(* Assignments to the fields of a task_t, as the handlers combine them.    *)

(* A change of state: task_schedule, task_terminate, a failed creation.    *)
LEMMA SetState ==
  ASSUME NEW k \in TaskRecord, NEW s \in States
  PROVE  [k EXCEPT !.state = s] \in TaskRecord
BY DEF TaskRecord

(* One more tick of the quantum.                                           *)
LEMMA SetTicks ==
  ASSUME NEW k \in TaskRecord, NEW n \in 0..QUANTUM
  PROVE  [k EXCEPT !.ticks = n] \in TaskRecord
BY DEF TaskRecord

(* task_add_child and task_remove_child.                                   *)
LEMMA SetChildren ==
  ASSUME NEW k \in TaskRecord, NEW ch \in SUBSET Tasks
  PROVE  [k EXCEPT !.children = ch] \in TaskRecord
BY DEF TaskRecord

(* task_select_next.                                                       *)
LEMMA SetStateTicks ==
  ASSUME NEW k \in TaskRecord, NEW s \in States, NEW n \in 0..QUANTUM
  PROVE  [k EXCEPT !.state = s, !.ticks = n] \in TaskRecord
BY DEF TaskRecord

(* A wake-up by the timer.                                                 *)
LEMMA SetStateWake ==
  ASSUME NEW k \in TaskRecord, NEW s \in States,
         NEW d \in 0 .. TICK_MOD - 1
  PROVE  [k EXCEPT !.state = s, !.wake_tick = d] \in TaskRecord
BY DEF TaskRecord

(* sys_sleep.                                                              *)
LEMMA SetWakeState ==
  ASSUME NEW k \in TaskRecord, NEW d \in 0 .. TICK_MOD - 1, NEW s \in
         States
  PROVE  [k EXCEPT !.wake_tick = d, !.state = s] \in TaskRecord
BY DEF TaskRecord

(* The end of task_create_user.                                            *)
LEMMA SetTypeState ==
  ASSUME NEW k \in TaskRecord, NEW ty \in Types, NEW s \in States
  PROVE  [k EXCEPT !.type = ty, !.state = s] \in TaskRecord
BY DEF TaskRecord

(* The fields sys_fork sets in the child.                                  *)
LEMMA SetTypeParent ==
  ASSUME NEW k \in TaskRecord, NEW ty \in Types, NEW p \in Link
  PROVE  [k EXCEPT !.type = ty, !.parent = p] \in TaskRecord
BY DEF TaskRecord

(* The idle task of kernel_main.                                           *)
LEMMA SetFirst ==
  ASSUME NEW k \in TaskRecord, NEW s \in States, NEW i \in 0..MAX_PID, NEW
         sl \in Slots \cup {NoSlot}
  PROVE  [k EXCEPT !.state = s, !.pid = i, !.stack = sl] \in TaskRecord
BY DEF TaskRecord

(* The parent woken by task_terminate.                                     *)
LEMMA SetWaiting ==
  ASSUME NEW k \in TaskRecord, NEW s \in States, NEW w \in -1..MAX_PID, NEW
         b \in BOOLEAN
  PROVE  [k EXCEPT !.state = s, !.waiting_for = w, !.waiting_status = b] \in TaskRecord
BY DEF TaskRecord

(* The values the handlers assign are of the right type.                   *)
LEMMA Values ==
  /\ "UNUSED" \in States /\ "READY" \in States /\ "RUNNING" \in States
  /\ "WAITING" \in States /\ "ZOMBIE" \in States
  /\ "KERNEL" \in Types /\ "USER" \in Types /\ "USER_PROCESS" \in Types
  /\ 0 \in 0..QUANTUM /\ NoSlot \in Slots \cup {NoSlot} /\ NULL \in Link
  /\ -1 \in -1..MAX_PID /\ 0 \in -1..MAX_PID /\ 0 \in 0 .. TICK_MOD - 1
  /\ 0 \in 0..MAX_PID /\ 1 \in 0..MAX_PID /\ 0 \in Slots \cup {NoSlot}
  /\ {} \in SUBSET Tasks /\ FALSE \in BOOLEAN /\ TRUE \in BOOLEAN
BY Constants DEF States, Types, Link

(* The state task_init and kernel_main leave satisfies the invariant.      *)
LEMMA InitInv == Init => Inv
<1> SUFFICES ASSUME Init PROVE Inv
  OBVIOUS
<1> USE Constants
<1>1. UnusedTask \in TaskRecord
  BY Values DEF UnusedTask, TaskRecord
<1>2. [UnusedTask EXCEPT !.state = "RUNNING", !.pid = 1, !.stack = 0] \in TaskRecord
  BY <1>1, Values, SetFirst
<1>3. TypeOK
  <2>1. task \in [Tasks -> TaskRecord]
    BY <1>1, <1>2 DEF Init
  <2>2. rl \in ReadyLists
    BY DEF Init, EmptyList, ReadyLists, Link
  <2> QED BY <2>1, <2>2 DEF Init, TypeOK, Link
<1>4. /\ task[Idle].state = "RUNNING" /\ task[Idle].ticks = 0 /\ task[Idle].stack = 0
      /\ task[Idle].children = {}
      /\ \A t \in Tasks \ {Idle} : task[t].state = "UNUSED"
  BY DEF Init, UnusedTask
<1>5. ReadyListOK
  <2>1. ReadyTasks = {}
    BY <1>4 DEF ReadyTasks
  <2> QED BY <2>1, EmptyIsList DEF Init, ReadyListOK
<1>6. RunsCurrent
  BY <1>4 DEF Init, RunsCurrent, Live
<1>7. StackSlotsOwned
  BY <1>4 DEF Init, StackSlotsOwned, Live
<1>8. ChildrenAreOurs
  BY <1>4 DEF Init, ChildrenAreOurs, Live
<1>9. IdleRunnable /\ BuildingReady /\ QuantumLeft
  BY <1>4 DEF Init, IdleRunnable, BuildingReady, QuantumLeft
<1> QED BY <1>3, <1>5, <1>6, <1>7, <1>8, <1>9 DEF Inv

-----------------------------------------------------------------------------
(* The tasks of a table tk that belong in the ready list.                  *)
ReadyIn(tk) == {t \in Tasks : tk[t].state = "READY"} \ {building}

(* What task_schedule leaves of a table tk: the list is right again, the   *)
(* new current task is the one task running and starts a new quantum, and  *)
(* nothing but state and ticks of some runnable tasks has changed.         *)
Scheduled(tk) ==
  /\ task' \in [Tasks -> TaskRecord] /\ rl' \in ReadyLists /\ current' \in Tasks
  /\ IsListOf(rl', ReadyIn(task'))
  /\ \A t \in Tasks : task'[t].state = "RUNNING" <=> t = current'
  /\ task'[current'].ticks < QUANTUM
  /\ \A t \in Tasks :
       /\ task'[t] = [tk[t] EXCEPT !.state = task'[t].state, !.ticks = task'[t].ticks]
       /\ \/ task'[t].state = tk[t].state
          \/ tk[t].state \in {"READY", "RUNNING"} /\ task'[t].state \in {"READY", "RUNNING"}
  /\ building # NULL => task'[building].state = tk[building].state

(* task_select_next, when some task is ready.                              *)
LEMMA SelectNextStep ==
  ASSUME NEW tk \in [Tasks -> TaskRecord], NEW r \in ReadyLists,
         IsListOf(r, ReadyIn(tk)), r.head # NULL,
         \A t \in Tasks : tk[t].state # "RUNNING",
         SelectNext(tk, r)
  PROVE  /\ Scheduled(tk) /\ current' = r.head
         /\ \A u \in ReadyIn(task') : AheadOf(rl', u) \subseteq AheadOf(r, u)
<1> USE Constants
<1> DEFINE h == r.head
<1>1. /\ h \in ReadyIn(tk) /\ IsListOf(Remove(r, h), ReadyIn(tk) \ {h})
      /\ \A u \in ReadyIn(tk) \ {h} : AheadOf(Remove(r, h), u) = AheadOf(r, u) \ {h}
  <2>1. ReadyIn(tk) \in SUBSET Tasks
    BY DEF ReadyIn
  <2> QED BY <2>1, RemoveHeadIsList
<1>2. h \in Tasks /\ tk[h].state = "READY" /\ h # building
  BY <1>1 DEF ReadyIn
<1>3. /\ task' = [tk EXCEPT ![h] = [tk[h] EXCEPT !.state = "RUNNING", !.ticks = 0]]
      /\ rl' = Remove(r, h) /\ current' = h
  BY <1>2 DEF SelectNext
<1>4. [tk[h] EXCEPT !.state = "RUNNING", !.ticks = 0] \in TaskRecord
  BY <1>2, Values, SetStateTicks
<1>5. task' \in [Tasks -> TaskRecord] /\ rl' \in ReadyLists /\ current' \in Tasks
  BY <1>2, <1>3, <1>4, RemoveType
<1>6. /\ task'[h] = [tk[h] EXCEPT !.state = "RUNNING", !.ticks = 0]
      /\ \A t \in Tasks \ {h} : task'[t] = tk[t]
  BY <1>2, <1>3
<1>7. task'[h].state = "RUNNING" /\ task'[h].ticks = 0
  BY <1>2, <1>6 DEF TaskRecord
<1>8. ReadyIn(task') = ReadyIn(tk) \ {h}
  BY <1>2, <1>6, <1>7 DEF ReadyIn
<1>9. IsListOf(rl', ReadyIn(task'))
  BY <1>1, <1>3, <1>8
<1>10. ASSUME NEW t \in Tasks
       PROVE  /\ task'[t] = [tk[t] EXCEPT !.state = task'[t].state, !.ticks = task'[t].ticks]
              /\ \/ task'[t].state = tk[t].state
                 \/ /\ tk[t].state \in {"READY", "RUNNING"}
                    /\ task'[t].state \in {"READY", "RUNNING"}
  <2>1. CASE t = h
    BY <1>2, <1>6, <1>7, <2>1
  <2>2. CASE t # h
    BY <1>6, <2>2 DEF TaskRecord
  <2> QED BY <2>1, <2>2
<1>11. \A t \in Tasks : task'[t].state = "RUNNING" <=> t = current'
  BY <1>3, <1>6, <1>7
<1>12. building # NULL => task'[building].state = tk[building].state
  BY <1>2, <1>3
<1>13. \A u \in ReadyIn(task') : AheadOf(rl', u) \subseteq AheadOf(r, u)
  BY <1>1, <1>3, <1>8
<1> QED BY <1>3, <1>5, <1>7, <1>9, <1>10, <1>11, <1>12, <1>13 DEF Scheduled

(* task_schedule and task_yield from an interrupt, whatever the handler    *)
(* did to the current task before.                                         *)
LEMMA SwitchStep ==
  ASSUME NEW tk \in [Tasks -> TaskRecord], NEW r \in ReadyLists, NEW cx,
         current \in Tasks, building # current, building # Idle,
         IsListOf(r, ReadyIn(tk)),
         \A t \in Tasks : tk[t].state = "RUNNING" => t = current,
         tk[Idle].state \in {"READY", "RUNNING"},
         Switch(tk, r, cx)
  PROVE  /\ Scheduled(tk) /\ cpu' = cx[current']
         /\ \A u \in ReadyIn(tk) \cap ReadyIn(task') : AheadOf(rl', u) \subseteq AheadOf(r, u)
<1> USE Constants
<1>0. ReadyIn(tk) \in SUBSET Tasks
  BY DEF ReadyIn
<1>1. CASE tk[current].state = "RUNNING"
  <2> DEFINE tk1 == [tk EXCEPT ![current] = [tk[current] EXCEPT !.state = "READY"]]
             q   == Enqueue(r, current)
  <2>1. SelectNext(tk1, q)
    BY <1>1 DEF Switch, TaskSchedule
  <2>2. tk1 \in [Tasks -> TaskRecord] /\ q \in ReadyLists
    BY Values, SetState, EnqueueType
  <2>3. /\ tk1[current] = [tk[current] EXCEPT !.state = "READY"]
        /\ tk1[current].state = "READY"
        /\ \A t \in Tasks \ {current} : tk1[t] = tk[t]
    BY DEF TaskRecord
  <2>4. current \in Tasks \ ReadyIn(tk) /\ ReadyIn(tk1) = ReadyIn(tk) \cup {current}
    BY <1>1, <2>3 DEF ReadyIn
  <2>5. /\ IsListOf(q, ReadyIn(tk1))
        /\ \A u \in ReadyIn(tk) : AheadOf(q, u) = AheadOf(r, u)
    <3>1. /\ IsListOf(q, ReadyIn(tk) \cup {current})
          /\ \A u \in ReadyIn(tk) : AheadOf(q, u) = AheadOf(r, u)
      BY <1>0, <2>4, EnqueueIsList
    <3> HIDE DEF q, tk1
    <3> QED BY <2>4, <3>1
  <2>6. r.head = NULL <=> r.tail = NULL
    BY DEF IsListOf, Ordered
  <2>7. q.head = IF r.head = NULL THEN current ELSE r.head
    BY <2>6 DEF Enqueue
  <2>8. q.head # NULL
    BY <2>7
  <2>9. \A t \in Tasks : tk1[t].state # "RUNNING"
    BY <2>3
  <2> HIDE DEF q, tk1
  <2>10. /\ Scheduled(tk1) /\ current' = q.head
         /\ \A u \in ReadyIn(task') : AheadOf(rl', u) \subseteq AheadOf(q, u)
    BY <2>1, <2>2, <2>5, <2>8, <2>9, SelectNextStep
  <2>11. ASSUME NEW t \in Tasks
         PROVE  /\ task'[t] = [tk[t] EXCEPT !.state = task'[t].state, !.ticks = task'[t].ticks]
                /\ \/ task'[t].state = tk[t].state
                   \/ /\ tk[t].state \in {"READY", "RUNNING"}
                      /\ task'[t].state \in {"READY", "RUNNING"}
    <3>1. /\ task'[t] = [tk1[t] EXCEPT !.state = task'[t].state, !.ticks = task'[t].ticks]
          /\ \/ task'[t].state = tk1[t].state
             \/ /\ tk1[t].state \in {"READY", "RUNNING"}
                /\ task'[t].state \in {"READY", "RUNNING"}
      BY <2>10 DEF Scheduled
    <3>2. CASE t = current
      <4>1. ASSUME NEW a, NEW b
            PROVE  [tk1[current] EXCEPT !.state = a, !.ticks = b]
                     = [tk[current] EXCEPT !.state = a, !.ticks = b]
        BY <2>3 DEF TaskRecord
      <4> QED BY <1>1, <2>3, <3>1, <3>2, <4>1
    <3>3. CASE t # current
      BY <2>3, <3>1, <3>3
    <3> QED BY <3>2, <3>3
  <2>12. building # NULL => task'[building].state = tk[building].state
    <3>1. tk1[building] = tk[building]
      BY DEF tk1
    <3> QED BY <2>10, <3>1 DEF Scheduled
  <2>13. cpu' = cx[current']
    BY <1>1, <2>7, <2>10 DEF Switch
  <2>14. \A u \in ReadyIn(tk) \cap ReadyIn(task') : AheadOf(rl', u) \subseteq AheadOf(r, u)
    BY <2>5, <2>10
  <2> QED BY <2>10, <2>11, <2>12, <2>13, <2>14 DEF Scheduled
<1>2. CASE tk[current].state # "RUNNING"
  <2>1. SelectNext(tk, r)
    BY <1>2 DEF Switch, TaskSchedule
  <2>2. Idle \in ReadyIn(tk)
    BY <1>2 DEF ReadyIn
  <2>3. r.head # NULL
    BY <2>2 DEF IsListOf, Ordered
  <2>4. /\ Scheduled(tk) /\ current' = r.head
        /\ \A u \in ReadyIn(task') : AheadOf(rl', u) \subseteq AheadOf(r, u)
    BY <1>2, <2>1, <2>3, SelectNextStep
  <2> QED BY <2>3, <2>4 DEF Switch
<1> QED BY <1>1, <1>2

-----------------------------------------------------------------------------
(* Saving the registers of the current task changes no context for which   *)
(* the invariant matters: they are its own.                                *)
LEMMA SavedContext == Inv => SaveContext = ctx
<1> SUFFICES ASSUME Inv PROVE SaveContext = ctx
  OBVIOUS
<1>1. task[current].state = "RUNNING" /\ cpu = current /\ ctx[current] = current
  BY DEF Inv, TypeOK, RunsCurrent, Live
<1>2. ctx \in [Tasks -> Tasks] /\ current \in Tasks
  BY DEF Inv, TypeOK
<1> QED BY <1>1, <1>2 DEF SaveContext

(* A handler that ends in task_schedule keeps the invariant, if what it    *)
(* did before leaves the list in order, the idle task runnable and the     *)
(* family and stack of every task as they were.                            *)
LEMMA SwitchInv ==
  ASSUME Inv,
         NEW tk \in [Tasks -> TaskRecord], NEW r \in ReadyLists,
         IsListOf(r, ReadyIn(tk)),
         \A t \in Tasks : tk[t].state = "RUNNING" => t = current,
         tk[Idle].state \in {"READY", "RUNNING"},
         building # NULL => tk[building].state = "READY",
         \A t \in Tasks : /\ tk[t].stack = task[t].stack
                          /\ tk[t].parent = task[t].parent
                          /\ tk[t].children = task[t].children
                          /\ tk[t].state = "UNUSED" <=> task[t].state = "UNUSED",
         \A t \in Tasks : task[t].state = "ZOMBIE" => tk[t].state = "ZOMBIE",
         \A u \in ReadyIn(task) : u \in ReadyIn(tk) /\ AheadOf(r, u) = AheadOf(rl, u),
         Switch(tk, r, SaveContext), ctx' = SaveContext,
         UNCHANGED <<slots, next_pid, building>>,
         pit_ticks' \in 0 .. TICK_MOD - 1
  PROVE  Inv' /\ DeadStayDead /\ NobodyPasses
<1> USE Constants
<1>1. /\ current \in Tasks /\ building \in Link /\ ctx \in [Tasks -> Tasks]
      /\ slots \subseteq Slots /\ next_pid \in 1..MAX_PID
  BY DEF Inv, TypeOK
<1>2. building # current /\ building # Idle
  <2>1. task[current].state = "RUNNING"
    BY <1>1 DEF Inv, RunsCurrent
  <2>2. CASE building = NULL
    BY <1>1, <2>2
  <2>3. CASE building # NULL
    BY <2>1, <2>3 DEF Inv, BuildingReady
  <2> QED BY <2>2, <2>3
<1>3. ctx' = ctx
  BY SavedContext
<1>4. /\ Scheduled(tk) /\ cpu' = ctx[current']
      /\ \A u \in ReadyIn(tk) \cap ReadyIn(task') : AheadOf(rl', u) \subseteq AheadOf(r, u)
  BY <1>1, <1>2, SavedContext, SwitchStep
<1>5. ASSUME NEW t \in Tasks
      PROVE  /\ task'[t].stack = task[t].stack
             /\ task'[t].parent = task[t].parent
             /\ task'[t].children = task[t].children
             /\ task'[t].state = "UNUSED" <=> task[t].state = "UNUSED"
  <2>1. /\ task'[t] = [tk[t] EXCEPT !.state = task'[t].state, !.ticks = task'[t].ticks]
        /\ \/ task'[t].state = tk[t].state
           \/ tk[t].state \in {"READY", "RUNNING"} /\ task'[t].state \in {"READY", "RUNNING"}
    BY <1>4 DEF Scheduled
  <2> DEFINE a == task'[t].state
             b == task'[t].ticks
  <2>2. task'[t] = [tk[t] EXCEPT !.state = a, !.ticks = b]
    BY <2>1
  <2> HIDE DEF a, b
  <2>3. /\ task'[t].stack = tk[t].stack /\ task'[t].parent = tk[t].parent
        /\ task'[t].children = tk[t].children
    BY <2>2 DEF TaskRecord
  <2>4. task'[t].state = "UNUSED" <=> tk[t].state = "UNUSED"
    BY <2>1
  <2> QED BY <2>3, <2>4
<1>6. cpu' = current' /\ cpu' \in Tasks
  <2>1. current' \in Tasks /\ task'[current'].state = "RUNNING"
    BY <1>4 DEF Scheduled
  <2>2. task[current'].state # "UNUSED"
    BY <1>5, <2>1
  <2>3. ctx[current'] = current'
    BY <2>1, <2>2 DEF Inv, RunsCurrent, Live
  <2> QED BY <1>4, <2>1, <2>3
<1>7. TypeOK'
  BY <1>1, <1>3, <1>4, <1>6 DEF TypeOK, Scheduled
<1>8. ReadyListOK'
  BY <1>4 DEF Scheduled, ReadyListOK, ReadyTasks, ReadyIn
<1>9. RunsCurrent'
  <2>1. \A t \in Tasks : Live(t)' => ctx'[t] = t
    BY <1>3, <1>5 DEF Inv, RunsCurrent, Live
  <2> QED BY <1>4, <1>6, <2>1 DEF Scheduled, RunsCurrent
<1>10. StackSlotsOwned'
  BY <1>5 DEF Inv, StackSlotsOwned, Live
<1>11. ChildrenAreOurs'
  <2> SUFFICES ASSUME NEW p \in Tasks, task'[p].state # "UNUSED", NEW c \in task'[p].children
               PROVE  task'[c].state # "UNUSED" /\ task'[c].parent = p
    BY DEF ChildrenAreOurs, Live
  <2>1. c \in task[p].children /\ task[p].state # "UNUSED"
    BY <1>5
  <2>2. c \in Tasks
    BY <2>1 DEF Inv, TypeOK, TaskRecord
  <2>3. task[c].state # "UNUSED" /\ task[c].parent = p
    BY <2>1 DEF Inv, ChildrenAreOurs, Live
  <2> QED BY <1>5, <2>2, <2>3
<1>12. IdleRunnable'
  BY <1>4 DEF Scheduled, IdleRunnable
<1>13. BuildingReady'
  <2>1. building # NULL => /\ task'[building].state = "READY"
                           /\ task'[building].parent = NULL
    BY <1>1, <1>4, <1>5 DEF Scheduled, Inv, BuildingReady, Link
  <2> QED BY <1>2, <2>1 DEF BuildingReady
<1>14. QuantumLeft'
  BY <1>4 DEF Scheduled, QuantumLeft
<1>15. DeadStayDead
  <2>1. \A t \in Tasks : \/ task'[t].state = tk[t].state
                         \/ tk[t].state \in {"READY", "RUNNING"}
    BY <1>4 DEF Scheduled
  <2>2. \A t \in Tasks : task[t].state = "ZOMBIE" => task'[t].state = "ZOMBIE"
    BY <2>1
  <2> QED BY <2>2 DEF DeadStayDead
<1>16. NobodyPasses
  <2>1. ReadyTasks = ReadyIn(task) /\ ReadyTasks' = ReadyIn(task')
    BY DEF ReadyTasks, ReadyIn
  <2> QED BY <1>4, <2>1 DEF NobodyPasses
<1> QED BY <1>7, <1>8, <1>9, <1>10, <1>11, <1>12, <1>13, <1>14, <1>15, <1>16 DEF Inv

-----------------------------------------------------------------------------
(* Which tasks are ready after the record of one task is replaced.         *)
LEMMA ReadyAfter ==
  ASSUME NEW tk \in [Tasks -> TaskRecord], NEW t \in Tasks, NEW k
  PROVE  ReadyIn([tk EXCEPT ![t] = k]) =
           IF k.state = "READY" /\ t # building THEN ReadyIn(tk) \cup {t}
                                                ELSE ReadyIn(tk) \ {t}
BY DEF ReadyIn

(* What every handler may rely on.                                         *)
LEMMA Facts ==
  Inv => /\ task \in [Tasks -> TaskRecord] /\ rl \in ReadyLists
         /\ current \in Tasks /\ cpu = current /\ task[current].state = "RUNNING"
         /\ \A t \in Tasks : task[t].state = "RUNNING" => t = current
         /\ IsListOf(rl, ReadyIn(task)) /\ ReadyIn(task) \in SUBSET Tasks
         /\ task[Idle].state \in {"READY", "RUNNING"}
         /\ building \in Link /\ building # current /\ building # Idle
         /\ building # NULL => building \in Tasks /\ task[building].state = "READY"
         /\ pit_ticks \in 0 .. TICK_MOD - 1
<1> SUFFICES ASSUME Inv PROVE Facts!2
  OBVIOUS
<1>1. /\ task \in [Tasks -> TaskRecord] /\ rl \in ReadyLists /\ current \in Tasks
      /\ building \in Link /\ pit_ticks \in 0 .. TICK_MOD - 1
  BY DEF Inv, TypeOK
<1>2. /\ cpu = current /\ task[current].state = "RUNNING"
      /\ \A t \in Tasks : task[t].state = "RUNNING" => t = current
  BY <1>1 DEF Inv, RunsCurrent
<1>3. IsListOf(rl, ReadyIn(task)) /\ ReadyIn(task) \in SUBSET Tasks
  BY DEF Inv, ReadyListOK, ReadyTasks, ReadyIn
<1>4. building # NULL => /\ building \in Tasks /\ task[building].state = "READY"
                         /\ building # Idle
  BY <1>1 DEF Inv, BuildingReady, Link
<1>5. building # current /\ building # Idle
  BY <1>1, <1>2, <1>4, Constants
<1> QED BY <1>1, <1>2, <1>3, <1>4, <1>5 DEF Inv, IdleRunnable

(* sys_yield, and sys_sleep(0).                                            *)
LEMMA YieldInv ==
  ASSUME Inv, Switch(task, rl, SaveContext), ctx' = SaveContext,
         UNCHANGED <<slots, next_pid, pit_ticks, building>>
  PROVE  Inv' /\ DeadStayDead /\ NobodyPasses
<1>1. pit_ticks' \in 0 .. TICK_MOD - 1
  BY Facts
<1> QED BY <1>1, Facts, SwitchInv

(* A current user task that stops being ready: ReadyIn, the idle task and  *)
(* the task being built are as before.                                     *)
LEMMA StopCurrent ==
  ASSUME Inv, UserRuns, NEW k \in TaskRecord,
         k.state \in {"WAITING", "ZOMBIE"}
  PROVE  LET tk == [task EXCEPT ![current] = k]
         IN  /\ tk \in [Tasks -> TaskRecord]
             /\ ReadyIn(tk) = ReadyIn(task)
             /\ \A t \in Tasks : tk[t].state # "RUNNING"
             /\ tk[Idle].state \in {"READY", "RUNNING"}
             /\ building # NULL => tk[building].state = "READY"
             /\ tk[current] = k
             /\ \A t \in Tasks \ {current} : tk[t] = task[t]
<1> USE Constants
<1> DEFINE tk == [task EXCEPT ![current] = k]
<1>1. tk \in [Tasks -> TaskRecord] /\ tk[current] = k
  BY Facts
<1>2. \A t \in Tasks \ {current} : tk[t] = task[t]
  BY Facts
<1>3. current # Idle
  BY Facts DEF UserRuns
<1>4. ReadyIn(tk) = ReadyIn(task)
  <2>1. current \notin ReadyIn(task)
    BY Facts DEF ReadyIn
  <2>2. ReadyIn(tk) = ReadyIn(task) \ {current}
    BY Facts, ReadyAfter
  <2> QED BY <2>1, <2>2
<1>5. \A t \in Tasks : tk[t].state # "RUNNING"
  BY <1>1, <1>2, Facts
<1>6. tk[Idle].state \in {"READY", "RUNNING"}
  BY <1>2, <1>3, Facts
<1>7. building # NULL => tk[building].state = "READY"
  BY <1>2, Facts
<1> HIDE DEF tk
<1> QED BY <1>1, <1>2, <1>4, <1>5, <1>6, <1>7 DEF tk

(* sys_sleep.                                                              *)
LEMMA SleepInv ==
  ASSUME Inv, NEW ms \in SleepMs, SysSleep(ms)
  PROVE  Inv' /\ DeadStayDead /\ NobodyPasses
<1> USE Constants
<1>1. CASE ms = 0
  BY <1>1, YieldInv DEF SysSleep
<1>2. CASE ms # 0
  <2> DEFINE d  == (pit_ticks + DelayTicks(ms)) % TICK_MOD
             k  == [task[current] EXCEPT !.wake_tick = d, !.state = "WAITING"]
             tk == [task EXCEPT ![current] = k]
  <2>1. DelayTicks(ms) \in Nat
    <3>1. ms \in Nat /\ MS_MOD \in Nat \ {0}
      BY SchedulerAssumption
    <3>2. (ms + 9) % MS_MOD \in Nat
      BY <3>1
    <3>3. ((ms + 9) % MS_MOD) \div 10 \in Nat
      BY <3>2
    <3> QED BY <3>3 DEF DelayTicks
  <2>2. d \in 0 .. TICK_MOD - 1
    BY <2>1, Facts
  <2> HIDE DEF d
  <2>3. k \in TaskRecord
    BY <2>2, Facts, Values, SetWakeState
  <2>4. /\ k.state = "WAITING" /\ k.stack = task[current].stack
        /\ k.parent = task[current].parent /\ k.children = task[current].children
    BY Facts DEF TaskRecord
  <2>5. UserRuns /\ Switch(tk, rl, SaveContext) /\ ctx' = SaveContext
    BY <1>2, Facts DEF SysSleep, d
  <2>6. UNCHANGED <<slots, next_pid, pit_ticks, building>>
    BY DEF SysSleep
  <2> HIDE DEF k
  <2>7. /\ tk \in [Tasks -> TaskRecord]
        /\ ReadyIn(tk) = ReadyIn(task)
        /\ \A t \in Tasks : tk[t].state # "RUNNING"
        /\ tk[Idle].state \in {"READY", "RUNNING"}
        /\ building # NULL => tk[building].state = "READY"
        /\ tk[current] = k
        /\ \A t \in Tasks \ {current} : tk[t] = task[t]
    BY <2>3, <2>4, <2>5, StopCurrent
  <2> HIDE DEF tk
  <2>8. \A t \in Tasks : /\ tk[t].stack = task[t].stack
                         /\ tk[t].parent = task[t].parent
                         /\ tk[t].children = task[t].children
                         /\ tk[t].state = "UNUSED" <=> task[t].state = "UNUSED"
    BY <2>4, <2>7, Facts
  <2>9. IsListOf(rl, ReadyIn(tk)) /\ rl \in ReadyLists /\ pit_ticks' \in 0 .. TICK_MOD - 1
    BY <2>6, <2>7, Facts
  <2>10. /\ \A t \in Tasks : task[t].state = "ZOMBIE" => tk[t].state = "ZOMBIE"
         /\ \A u \in ReadyIn(task) : u \in ReadyIn(tk) /\ AheadOf(rl, u) = AheadOf(rl, u)
    BY <2>7, Facts
  <2> QED BY <2>5, <2>6, <2>7, <2>8, <2>9, <2>10, SwitchInv
<1> QED BY <1>1, <1>2

(* task_terminate, with a parent to wake and without: sys_exit and the     *)
(* user page fault.                                                        *)
LEMMA TerminateInv ==
  ASSUME Inv, UserRuns, Terminate, ctx' = SaveContext,
         UNCHANGED <<slots, next_pid, pit_ticks, building>>
  PROVE  Inv' /\ DeadStayDead /\ NobodyPasses
<1> USE Constants
<1> DEFINE z    == [task[current] EXCEPT !.state = "ZOMBIE"]
           dead == [task EXCEPT ![current] = z]
           p    == task[current].parent
           w    == [dead[p] EXCEPT !.state = "READY", !.waiting_for = 0,
                                   !.waiting_status = FALSE]
           tk   == [dead EXCEPT ![p] = w]
<1>1. /\ z \in TaskRecord /\ z.state = "ZOMBIE" /\ z.stack = task[current].stack
      /\ z.parent = task[current].parent /\ z.children = task[current].children
  <2>1. z \in TaskRecord
    BY Facts, Values, SetState
  <2> QED BY <2>1, Facts DEF TaskRecord
<1>2. \/ /\ p # NULL /\ dead[p].state = "WAITING"
         /\ Switch(tk, Enqueue(rl, p), SaveContext)
      \/ Switch(dead, rl, SaveContext)
  BY Facts DEF Terminate
<1> HIDE DEF z
<1>3. /\ dead \in [Tasks -> TaskRecord]
      /\ ReadyIn(dead) = ReadyIn(task)
      /\ \A t \in Tasks : dead[t].state # "RUNNING"
      /\ dead[Idle].state \in {"READY", "RUNNING"}
      /\ building # NULL => dead[building].state = "READY"
      /\ dead[current] = z
      /\ \A t \in Tasks \ {current} : dead[t] = task[t]
  BY <1>1, StopCurrent
<1>4. \A t \in Tasks : /\ dead[t].stack = task[t].stack
                       /\ dead[t].parent = task[t].parent
                       /\ dead[t].children = task[t].children
                       /\ dead[t].state = "UNUSED" <=> task[t].state = "UNUSED"
  <2> HIDE DEF dead
  <2> QED BY <1>1, <1>3, Facts
<1>5. pit_ticks' \in 0 .. TICK_MOD - 1
  BY Facts
<1> HIDE DEF dead
<1>6. CASE Switch(dead, rl, SaveContext)
  <2>1. IsListOf(rl, ReadyIn(dead)) /\ rl \in ReadyLists
    BY <1>3, Facts
  <2>2. /\ \A t \in Tasks : task[t].state = "ZOMBIE" => dead[t].state = "ZOMBIE"
        /\ \A u \in ReadyIn(task) : u \in ReadyIn(dead) /\ AheadOf(rl, u) = AheadOf(rl, u)
    BY <1>1, <1>3
  <2> QED BY <1>3, <1>4, <1>5, <1>6, <2>1, <2>2, SwitchInv
<1>7. CASE /\ p # NULL /\ dead[p].state = "WAITING"
           /\ Switch(tk, Enqueue(rl, p), SaveContext)
  <2>1. p \in Tasks
    BY <1>7, Facts DEF TaskRecord, Link
  <2>2. /\ w \in TaskRecord /\ w.state = "READY" /\ w.stack = dead[p].stack
        /\ w.parent = dead[p].parent /\ w.children = dead[p].children
    <3>1. w \in TaskRecord
      BY <1>3, <2>1, Values, SetWaiting
    <3> QED BY <1>3, <2>1, <3>1 DEF TaskRecord
  <2> HIDE DEF w, p
  <2>3. tk[p] = w /\ \A t \in Tasks \ {p} : tk[t] = dead[t]
    BY <1>3, <2>1
  <2>4. p # building /\ p # Idle /\ p \notin ReadyIn(dead)
    BY <1>3, <1>7, <2>1, Facts DEF ReadyIn
  <2>5. tk \in [Tasks -> TaskRecord]
    BY <1>3, <2>1, <2>2
  <2>6. ReadyIn(tk) = ReadyIn(dead) \cup {p}
    BY <1>3, <2>1, <2>2, <2>4, ReadyAfter
  <2>7. /\ IsListOf(Enqueue(rl, p), ReadyIn(tk)) /\ Enqueue(rl, p) \in ReadyLists
        /\ \A u \in ReadyIn(task) : AheadOf(Enqueue(rl, p), u) = AheadOf(rl, u)
    <3>1. p \in Tasks \ ReadyIn(task)
      BY <1>3, <2>1, <2>4
    <3>2. /\ IsListOf(Enqueue(rl, p), ReadyIn(task) \cup {p})
          /\ \A u \in ReadyIn(task) : AheadOf(Enqueue(rl, p), u) = AheadOf(rl, u)
      BY <3>1, Facts, EnqueueIsList
    <3> HIDE DEF tk
    <3> QED BY <1>3, <2>1, <2>6, <3>2, Facts, EnqueueType
  <2> HIDE DEF tk
  <2>8. /\ \A t \in Tasks : tk[t].state # "RUNNING"
        /\ tk[Idle].state \in {"READY", "RUNNING"}
        /\ building # NULL => tk[building].state = "READY"
    BY <1>3, <2>2, <2>3, <2>4, Facts
  <2>9. \A t \in Tasks : /\ tk[t].stack = task[t].stack
                         /\ tk[t].parent = task[t].parent
                         /\ tk[t].children = task[t].children
                         /\ tk[t].state = "UNUSED" <=> task[t].state = "UNUSED"
    BY <1>4, <1>7, <2>1, <2>2, <2>3
  <2>10. /\ \A t \in Tasks : task[t].state = "ZOMBIE" => tk[t].state = "ZOMBIE"
         /\ \A u \in ReadyIn(task) : u \in ReadyIn(tk)
    BY <1>1, <1>3, <1>7, <2>3, <2>6
  <2> QED BY <1>5, <1>7, <2>5, <2>7, <2>8, <2>9, <2>10, SwitchInv
<1> QED BY <1>2, <1>6, <1>7

(* The timer interrupt: sleepers that are due join the list, and the       *)
(* current task loses the processor at the end of its quantum.             *)
LEMMA TickInv == ASSUME Inv, Tick PROVE Inv' /\ DeadStayDead /\ NobodyPasses
<1> USE Constants
<1> DEFINE now == (pit_ticks + 1) % TICK_MOD
           W   == Woken(now)
           tk  == [t \in Tasks |->
                     IF t \in W
                     THEN [task[t] EXCEPT !.state = "READY", !.wake_tick = 0]
                     ELSE task[t]]
           r   == WakeLoop(rl, W)[TASK_MAX]
           k   == [tk[current] EXCEPT !.ticks = @ + 1]
           tk1 == [tk EXCEPT ![current] = k]
<1>1. now \in 0 .. TICK_MOD - 1
  BY Facts
<1>2. W \in SUBSET Tasks /\ \A t \in W : task[t].state = "WAITING"
  BY DEF Woken
<1>3. current \notin W /\ tk[current] = task[current]
  BY <1>2, Facts
<1>4. /\ pit_ticks' = now /\ ctx' = SaveContext
      /\ \/ k.ticks >= QUANTUM /\ Switch(tk1, r, SaveContext)
         \/ /\ ~(k.ticks >= QUANTUM)
            /\ task' = tk1 /\ rl' = r /\ UNCHANGED <<current, cpu>>
      /\ UNCHANGED <<slots, next_pid, building>>
  <2>1. tk[current].state = "RUNNING" /\ tk1[current] = k
    BY <1>3, Facts
  <2> HIDE DEF now, W
  <2> QED BY <2>1 DEF Tick, now, W
<1> HIDE DEF now, W
<1>5. ASSUME NEW t \in Tasks
      PROVE  /\ tk[t] \in TaskRecord
             /\ tk[t].stack = task[t].stack /\ tk[t].parent = task[t].parent
             /\ tk[t].children = task[t].children /\ tk[t].ticks = task[t].ticks
             /\ tk[t].state = IF t \in W THEN "READY" ELSE task[t].state
  <2>1. CASE t \in W
    <3>1. tk[t] = [task[t] EXCEPT !.state = "READY", !.wake_tick = 0]
      BY <2>1
    <3>2. tk[t] \in TaskRecord
      BY <3>1, Facts, Values, SetStateWake
    <3> QED BY <2>1, <3>1, <3>2, Facts DEF TaskRecord
  <2>2. CASE t \notin W
    BY <2>2, Facts
  <2> QED BY <2>1, <2>2
<1>6. tk \in [Tasks -> TaskRecord]
  <2>1. \A t \in Tasks : tk[t] \in TaskRecord
    BY <1>5
  <2> QED BY <2>1
<1> HIDE DEF tk
<1>7. k \in TaskRecord /\ k.ticks = task[current].ticks + 1 /\ k.state = "RUNNING"
      /\ k.stack = task[current].stack /\ k.parent = task[current].parent
      /\ k.children = task[current].children
  <2>1. task[current].ticks \in 0..QUANTUM /\ task[current].ticks < QUANTUM
    BY Facts DEF Inv, QuantumLeft, TaskRecord
  <2>2. task[current].ticks + 1 \in 0..QUANTUM
    BY <2>1
  <2>3. k = [task[current] EXCEPT !.ticks = task[current].ticks + 1]
    BY <1>3
  <2>4. k \in TaskRecord
    BY <2>2, <2>3, Facts, SetTicks
  <2> QED BY <2>3, <2>4, Facts DEF TaskRecord
<1> HIDE DEF k
<1>8. /\ tk1 \in [Tasks -> TaskRecord] /\ tk1[current] = k
      /\ \A t \in Tasks \ {current} : tk1[t] = tk[t]
  BY <1>6, <1>7, Facts
<1>9. /\ r \in ReadyLists /\ IsListOf(r, ReadyIn(tk1))
      /\ \A u \in ReadyIn(task) : u \in ReadyIn(tk1) /\ AheadOf(r, u) = AheadOf(rl, u)
  <2>1. W \in SUBSET (Tasks \ ReadyIn(task))
    BY <1>2 DEF ReadyIn
  <2>2. /\ r \in ReadyLists /\ IsListOf(r, ReadyIn(task) \cup W)
        /\ \A u \in ReadyIn(task) : AheadOf(r, u) = AheadOf(rl, u)
    <3>1. rl \in ReadyLists /\ IsListOf(rl, ReadyIn(task))
      BY Facts
    <3>2. rl.tail = NULL \/ rl.tail \in ReadyIn(task)
      BY <3>1 DEF IsListOf, Ordered
    <3>3. rl.tail \notin W
      BY <2>1, <3>2
    <3>4. r = EnqueueAll(rl, W)
      BY <1>2, <3>1, <3>3, WakeLoopIs
    <3> HIDE DEF r
    <3>5. ReadyIn(task) \in SUBSET Tasks
      BY DEF ReadyIn
    <3> QED BY <1>2, <2>1, <3>1, <3>4, <3>5, EnqueueAllType, EnqueueAllIsList
  <2>3. ASSUME NEW t \in Tasks
        PROVE  (tk1[t].state = "READY" /\ t # building) <=> (t \in W \/ t \in ReadyIn(task))
    <3>1. t \in W => t # building
      BY <1>2, Facts
    <3>2. CASE t = current
      BY <1>3, <1>7, <1>8, <3>2, Facts DEF ReadyIn
    <3>3. CASE t # current
      BY <1>5, <1>8, <3>1, <3>3 DEF ReadyIn
    <3> QED BY <3>2, <3>3
  <2>4. ReadyIn(tk1) = ReadyIn(task) \cup W
    BY <1>2, <2>3, Facts DEF ReadyIn
  <2> QED BY <2>2, <2>4
<1>10. \A t \in Tasks : /\ tk1[t].stack = task[t].stack
                        /\ tk1[t].parent = task[t].parent
                        /\ tk1[t].children = task[t].children
                        /\ tk1[t].state = "UNUSED" <=> task[t].state = "UNUSED"
                        /\ task[t].state = "ZOMBIE" => tk1[t].state = "ZOMBIE"
  <2> HIDE DEF tk1
  <2> SUFFICES ASSUME NEW t \in Tasks
               PROVE /\ tk1[t].stack = task[t].stack
                     /\ tk1[t].parent = task[t].parent
                     /\ tk1[t].children = task[t].children
                     /\ tk1[t].state = "UNUSED" <=> task[t].state = "UNUSED"
                     /\ task[t].state = "ZOMBIE" => tk1[t].state = "ZOMBIE"
    OBVIOUS
  <2>1. CASE t = current
    BY <1>7, <1>8, <2>1, Facts
  <2>2. CASE t # current
    BY <1>2, <1>5, <1>8, <2>2
  <2> QED BY <2>1, <2>2
<1>11. /\ \A t \in Tasks : tk1[t].state = "RUNNING" <=> t = current
       /\ tk1[Idle].state \in {"READY", "RUNNING"}
       /\ building # NULL => tk1[building].state = "READY"
  <2>1. \A t \in Tasks : tk1[t].state = IF t \in W THEN "READY" ELSE task[t].state
    <3> HIDE DEF tk1
    <3> QED BY <1>3, <1>5, <1>7, <1>8, Facts
  <2> HIDE DEF tk1
  <2> QED BY <1>2, <1>3, <2>1, Facts
<1> HIDE DEF tk1, r
<1>12. CASE Switch(tk1, r, SaveContext)
  BY <1>1, <1>4, <1>8, <1>9, <1>10, <1>11, <1>12, SwitchInv
<1>13. CASE ~(k.ticks >= QUANTUM) /\ task' = tk1 /\ rl' = r /\ UNCHANGED <<current, cpu>>
  <2>1. ctx' = ctx
    BY <1>4, SavedContext
  <2>2. TypeOK'
    BY <1>1, <1>4, <1>8, <1>9, <1>13, <2>1 DEF Inv, TypeOK
  <2>3. ReadyListOK'
    BY <1>4, <1>9, <1>13 DEF ReadyListOK, ReadyTasks, ReadyIn
  <2>4. RunsCurrent'
    BY <1>10, <1>11, <1>13, <2>1 DEF Inv, RunsCurrent, Live
  <2>5. StackSlotsOwned'
    BY <1>4, <1>10, <1>13 DEF Inv, StackSlotsOwned, Live
  <2>6. ChildrenAreOurs'
    <3> SUFFICES ASSUME NEW p \in Tasks, task'[p].state # "UNUSED", NEW c \in task'[p].children
                 PROVE  task'[c].state # "UNUSED" /\ task'[c].parent = p
      BY DEF ChildrenAreOurs, Live
    <3>1. c \in task[p].children /\ task[p].state # "UNUSED"
      BY <1>10, <1>13
    <3>2. c \in Tasks
      BY <3>1, Facts DEF TaskRecord
    <3>3. task[c].state # "UNUSED" /\ task[c].parent = p
      BY <3>1 DEF Inv, ChildrenAreOurs, Live
    <3> QED BY <1>10, <1>13, <3>2, <3>3
  <2>7. IdleRunnable' /\ BuildingReady'
    BY <1>4, <1>10, <1>11, <1>13, Facts DEF Inv, IdleRunnable, BuildingReady
  <2>8. QuantumLeft'
    <3>1. k.ticks \in 0..QUANTUM
      BY <1>7 DEF TaskRecord
    <3>2. k.ticks < QUANTUM
      BY <1>13, <3>1
    <3> QED BY <1>8, <1>13, <3>2, Facts DEF QuantumLeft
  <2>9. DeadStayDead
    BY <1>10, <1>13 DEF DeadStayDead
  <2>10. NobodyPasses
    <3>1. ReadyTasks = ReadyIn(task)
      BY DEF ReadyTasks, ReadyIn
    <3> QED BY <1>9, <1>13, <3>1 DEF NobodyPasses
  <2> QED BY <2>2, <2>3, <2>4, <2>5, <2>6, <2>7, <2>8, <2>9, <2>10 DEF Inv
<1> QED BY <1>4, <1>12, <1>13

-----------------------------------------------------------------------------
(* task_alloc: the entry was nobody's, its links were clear, and the slot  *)
(* it gets was free.                                                       *)
LEMMA AllocFacts ==
  ASSUME Inv, NEW t \in Tasks, TaskAlloc(t)
  PROVE  /\ task[t].state = "UNUSED" /\ t # current /\ t # Idle /\ t # building
         /\ t \notin ReadyIn(task) /\ Unlinked(t) = rl
         /\ FreeSlot = NoSlot \/ FreeSlot \in Slots \ slots
         /\ next_pid' \in 1..MAX_PID /\ slots' \subseteq Slots
         /\ Fresh(t) \in TaskRecord
         /\ Fresh(t).state = IF FreeSlot = NoSlot THEN "UNUSED" ELSE "READY"
         /\ Fresh(t).stack = FreeSlot /\ Fresh(t).children = {} /\ Fresh(t).parent = NULL
<1> USE Constants
<1>1. task[t].state = "UNUSED"
  <2>1. Unused \in SUBSET Nat /\ Unused # {} /\ t = First(Unused)
    BY DEF TaskAlloc, Unused
  <2>2. First(Unused) \in Unused
    BY <2>1, FirstMember
  <2> QED BY <2>1, <2>2 DEF Unused
<1>2. t # current /\ t # Idle /\ t # building /\ t \notin ReadyIn(task)
  BY <1>1, Facts DEF ReadyIn
<1>3. Unlinked(t) = rl
  <2>1. t \in Tasks \ ReadyIn(task)
    BY <1>2
  <2>2. [rl EXCEPT !.next[t] = NULL, !.prev[t] = NULL] = rl
    BY <2>1, Facts, UnlinkIsList
  <2> QED BY <2>2 DEF Unlinked
<1>4. FreeSlot = NoSlot \/ FreeSlot \in Slots \ slots
  <2>1. CASE Slots \subseteq slots
    BY <2>1 DEF FreeSlot
  <2>2. CASE ~(Slots \subseteq slots)
    <3>1. Slots \ slots \in SUBSET Nat /\ Slots \ slots # {}
      BY <2>2
    <3>2. First(Slots \ slots) \in Slots \ slots
      BY <3>1, FirstMember
    <3> QED BY <2>2, <3>2 DEF FreeSlot
  <2> QED BY <2>1, <2>2
<1>5. slots \subseteq Slots /\ next_pid \in 1..MAX_PID /\ next_pid < MAX_PID
  BY DEF Inv, TypeOK, TaskAlloc
<1>6. next_pid' \in 1..MAX_PID /\ slots' \subseteq Slots
  <2>1. next_pid' = next_pid + 1
    BY DEF TaskAlloc
  <2>2. next_pid' \in 1..MAX_PID
    BY <1>5, <2>1
  <2>3. slots' = IF FreeSlot = NoSlot THEN slots ELSE slots \cup {FreeSlot}
    BY DEF TaskAlloc
  <2> QED BY <1>4, <1>5, <2>2, <2>3
<1> DEFINE st == IF FreeSlot = NoSlot THEN "UNUSED" ELSE "READY"
<1>7. Fresh(t) = [task[t] EXCEPT !.state = st, !.type = "KERNEL", !.pid = next_pid,
                                 !.ticks = 0, !.stack = FreeSlot, !.parent = NULL,
                                 !.children = {}, !.waiting_for = -1, !.wake_tick = 0]
  BY DEF Fresh
<1>8. /\ st \in States /\ next_pid \in 0..MAX_PID /\ FreeSlot \in Slots \cup {NoSlot}
      /\ task[t] \in TaskRecord
  BY <1>4, <1>5, Values, Facts
<1> HIDE DEF st
<1>9. Fresh(t) \in TaskRecord
  BY <1>7, <1>8, Values DEF TaskRecord
<1>10. /\ Fresh(t).state = st /\ Fresh(t).stack = FreeSlot
       /\ Fresh(t).children = {} /\ Fresh(t).parent = NULL
  BY <1>7, <1>8 DEF TaskRecord
<1> QED BY <1>1, <1>2, <1>3, <1>4, <1>6, <1>9, <1>10 DEF st

(* Stack slots and children after a task_alloc, with the new task a child  *)
(* of the caller (sys_fork) or of nobody.                                  *)
LEMMA AllocOwned ==
  ASSUME Inv, NEW t \in Tasks, TaskAlloc(t), NEW k \in TaskRecord,
         k.stack = FreeSlot, k.children = {},
         k.state # "UNUSED" => FreeSlot # NoSlot,
         task'[t] = k,
         \A u \in Tasks \ {t} :
           /\ task'[u].stack = task[u].stack /\ task'[u].parent = task[u].parent
           /\ task'[u].state = task[u].state
           /\ \/ task'[u].children = task[u].children
              \/ /\ task'[u].children = task[u].children \cup {t}
                 /\ k.state # "UNUSED" /\ k.parent = u
  PROVE  StackSlotsOwned' /\ ChildrenAreOurs'
<1>1. /\ task[t].state = "UNUSED"
      /\ FreeSlot = NoSlot \/ FreeSlot \in Slots \ slots
  BY AllocFacts
<1>2. slots \subseteq slots' /\ (FreeSlot # NoSlot => FreeSlot \in slots')
  BY DEF TaskAlloc
<1>3. \A u \in Tasks : task[u].state # "UNUSED" => task[u].stack \in slots
  BY DEF Inv, StackSlotsOwned, Live
<1>4. StackSlotsOwned'
  <2> SUFFICES ASSUME NEW u \in Tasks, task'[u].state # "UNUSED"
               PROVE  /\ task'[u].stack \in slots'
                      /\ \A v \in Tasks \ {u} :
                           task'[v].state # "UNUSED" => task'[v].stack # task'[u].stack
    BY DEF StackSlotsOwned, Live
  <2>1. CASE u = t
    BY <1>1, <1>2, <1>3, <2>1
  <2>2. CASE u # t
    <3>1. task'[u].stack \in slots /\ task'[u].stack = task[u].stack
      BY <1>3, <2>2
    <3>2. ASSUME NEW v \in Tasks \ {u}, task'[v].state # "UNUSED"
          PROVE  task'[v].stack # task'[u].stack
      <4>1. CASE v = t
        BY <1>1, <3>1, <3>2, <4>1
      <4>2. CASE v # t
        BY <2>2, <3>2, <4>2 DEF Inv, StackSlotsOwned, Live
      <4> QED BY <4>1, <4>2
    <3> QED BY <1>2, <3>1, <3>2
  <2> QED BY <2>1, <2>2
<1>5. ChildrenAreOurs'
  <2> SUFFICES ASSUME NEW p \in Tasks, task'[p].state # "UNUSED", NEW c \in task'[p].children
               PROVE  task'[c].state # "UNUSED" /\ task'[c].parent = p
    BY DEF ChildrenAreOurs, Live
  <2>1. p # t
    OBVIOUS
  <2>2. CASE c \in task[p].children
    <3>1. c \in Tasks
      BY <2>2, Facts DEF TaskRecord
    <3>2. task[c].state # "UNUSED" /\ task[c].parent = p
      BY <2>1, <2>2 DEF Inv, ChildrenAreOurs, Live
    <3> QED BY <1>1, <3>1, <3>2
  <2>3. CASE c \notin task[p].children
    <3>1. c = t /\ k.state # "UNUSED" /\ k.parent = p
      BY <2>1, <2>3
    <3> QED BY <3>1
  <2> QED BY <2>2, <2>3
<1> QED BY <1>4, <1>5

(* The menu allocates a task: it is ready but in no list yet.              *)
LEMMA MenuAllocInv ==
  ASSUME Inv, MenuAlloc
  PROVE  Inv' /\ DeadStayDead /\ NobodyPasses
<1> USE Constants
<1>1. PICK t \in Tasks : /\ TaskAlloc(t)
                         /\ task' = [task EXCEPT ![t] = Fresh(t)]
                         /\ rl' = Unlinked(t)
                         /\ building' = IF FreeSlot = NoSlot THEN NULL ELSE t
                         /\ ctx' = [ctx EXCEPT ![t] = t]
  BY DEF MenuAlloc
<1>2. /\ building = NULL /\ UNCHANGED <<current, pit_ticks, cpu>>
  BY DEF MenuAlloc
<1> DEFINE k == Fresh(t)
<1>3. /\ task[t].state = "UNUSED" /\ t # current /\ t # Idle
      /\ t \notin ReadyIn(task) /\ rl' = rl
      /\ FreeSlot = NoSlot \/ FreeSlot \in Slots \ slots
      /\ next_pid' \in 1..MAX_PID /\ slots' \subseteq Slots
      /\ k \in TaskRecord
      /\ k.state = IF FreeSlot = NoSlot THEN "UNUSED" ELSE "READY"
      /\ k.stack = FreeSlot /\ k.children = {} /\ k.parent = NULL
  BY <1>1, AllocFacts
<1> HIDE DEF k
<1>4. task'[t] = k /\ \A u \in Tasks \ {t} : task'[u] = task[u]
  BY <1>1, Facts DEF k
<1>5. TypeOK'
  <2>1. task' \in [Tasks -> TaskRecord]
    BY <1>1, <1>3, Facts DEF k
  <2> QED BY <1>1, <1>2, <1>3, <2>1 DEF Inv, TypeOK, Link
<1>6. ReadyListOK'
  <2>1. ReadyTasks' = ReadyIn(task)
    BY <1>1, <1>2, <1>3, <1>4 DEF ReadyTasks, ReadyIn
  <2> QED BY <1>3, <2>1, Facts DEF ReadyListOK
<1>7. RunsCurrent'
  <2>1. \A u \in Tasks : task'[u].state = "RUNNING" <=> u = current'
    BY <1>2, <1>3, <1>4, Facts
  <2>2. \A u \in Tasks : task'[u].state # "UNUSED" => ctx'[u] = u
    BY <1>1, <1>4 DEF Inv, TypeOK, RunsCurrent, Live
  <2> QED BY <1>2, <2>1, <2>2, Facts DEF RunsCurrent, Live
<1>8. StackSlotsOwned' /\ ChildrenAreOurs'
  BY <1>1, <1>3, <1>4, AllocOwned
<1>9. IdleRunnable' /\ BuildingReady' /\ QuantumLeft'
  BY <1>1, <1>2, <1>3, <1>4, Facts DEF Inv, IdleRunnable, BuildingReady, QuantumLeft
<1>10. DeadStayDead
  BY <1>3, <1>4 DEF DeadStayDead
<1>11. NobodyPasses
  BY <1>3 DEF NobodyPasses
<1> QED BY <1>5, <1>6, <1>7, <1>8, <1>9, <1>10, <1>11 DEF Inv

(* The records of a live task that change only in state, type or ticks     *)
(* leave stack slots and children alone.                                   *)
LEMMA OwnedKept ==
  ASSUME Inv, slots' = slots,
         \A t \in Tasks : /\ task'[t].stack = task[t].stack
                          /\ task'[t].parent = task[t].parent
                          /\ task'[t].children = task[t].children
                          /\ task'[t].state # "UNUSED" => task[t].state # "UNUSED"
                          /\ \/ task'[t].state # "UNUSED"
                             \/ task[t].state = "UNUSED"
                             \/ \A p \in Tasks : task[p].state # "UNUSED" => t \notin task[p].children
  PROVE  StackSlotsOwned' /\ ChildrenAreOurs'
<1>1. StackSlotsOwned'
  BY DEF Inv, StackSlotsOwned, Live
<1>2. ChildrenAreOurs'
  <2> SUFFICES ASSUME NEW p \in Tasks, task'[p].state # "UNUSED", NEW c \in task'[p].children
               PROVE  task'[c].state # "UNUSED" /\ task'[c].parent = p
    BY DEF ChildrenAreOurs, Live
  <2>1. c \in task[p].children /\ task[p].state # "UNUSED"
    OBVIOUS
  <2>2. c \in Tasks
    BY <2>1, Facts DEF TaskRecord
  <2>3. task[c].state # "UNUSED" /\ task[c].parent = p
    BY <2>1 DEF Inv, ChildrenAreOurs, Live
  <2> QED BY <2>1, <2>2, <2>3
<1> QED BY <1>1, <1>2

(* The menu enqueues the task it has built.                                *)
LEMMA MenuEnqueueInv ==
  ASSUME Inv, NEW ty \in {"USER", "USER_PROCESS"}, MenuEnqueue(ty)
  PROVE  Inv' /\ DeadStayDead /\ NobodyPasses
<1> USE Constants
<1> DEFINE b == building
           k == [task[b] EXCEPT !.type = ty, !.state = "READY"]
<1>1. /\ b \in Tasks /\ task[b].state = "READY" /\ b # current /\ b # Idle
      /\ b \notin ReadyIn(task)
  BY Facts DEF MenuEnqueue, ReadyIn
<1>2. /\ task' = [task EXCEPT ![b] = k] /\ rl' = Enqueue(rl, b) /\ building' = NULL
      /\ UNCHANGED <<current, slots, next_pid, pit_ticks, ctx, cpu>>
  BY <1>1, Facts DEF MenuEnqueue
<1>3. /\ k \in TaskRecord /\ k.state = "READY" /\ k.stack = task[b].stack
      /\ k.parent = task[b].parent /\ k.children = task[b].children
  <2>1. k \in TaskRecord
    BY <1>1, Facts, Values, SetTypeState
  <2> QED BY <1>1, <2>1, Facts DEF TaskRecord
<1> HIDE DEF k
<1>4. task'[b] = k /\ \A t \in Tasks \ {b} : task'[t] = task[t]
  BY <1>1, <1>2, Facts
<1>5. TypeOK'
  <2>1. task' \in [Tasks -> TaskRecord] /\ rl' \in ReadyLists
    BY <1>1, <1>2, <1>3, Facts, EnqueueType
  <2> QED BY <1>2, <2>1 DEF Inv, TypeOK, Link
<1>6. ReadyListOK'
  <2>1. ReadyTasks' = ReadyIn(task) \cup {b}
    BY <1>1, <1>2, <1>3, <1>4 DEF ReadyTasks, ReadyIn
  <2>2. IsListOf(Enqueue(rl, b), ReadyIn(task) \cup {b})
    <3>1. b \in Tasks \ ReadyIn(task)
      BY <1>1
    <3> QED BY <3>1, Facts, EnqueueIsList
  <2> QED BY <1>2, <2>1, <2>2 DEF ReadyListOK
<1>7. \A t \in Tasks : task'[t].state = task[t].state
  BY <1>1, <1>3, <1>4
<1>8. RunsCurrent'
  BY <1>2, <1>7 DEF Inv, RunsCurrent, Live
<1>9. StackSlotsOwned' /\ ChildrenAreOurs'
  <2>1. \A t \in Tasks : /\ task'[t].stack = task[t].stack
                         /\ task'[t].parent = task[t].parent
                         /\ task'[t].children = task[t].children
    BY <1>3, <1>4
  <2> QED BY <1>2, <1>7, <2>1, OwnedKept
<1>10. IdleRunnable' /\ BuildingReady' /\ QuantumLeft'
  BY <1>1, <1>2, <1>4, <1>7, Facts DEF Inv, IdleRunnable, BuildingReady, QuantumLeft
<1>11. DeadStayDead
  BY <1>7 DEF DeadStayDead
<1>12. NobodyPasses
  <2>1. b \in Tasks \ ReadyIn(task)
    BY <1>1
  <2>2. \A u \in ReadyIn(task) : AheadOf(Enqueue(rl, b), u) = AheadOf(rl, u)
    BY <2>1, Facts, EnqueueIsList
  <2>3. ReadyTasks = ReadyIn(task)
    BY DEF ReadyTasks, ReadyIn
  <2> QED BY <1>2, <2>2, <2>3 DEF NobodyPasses
<1> QED BY <1>5, <1>6, <1>8, <1>9, <1>10, <1>11, <1>12 DEF Inv

(* Creating the task fails: its entry is unused again.  No task can have   *)
(* it as a child, for it has no parent.                                    *)
LEMMA MenuFailInv ==
  ASSUME Inv, MenuFail
  PROVE  Inv' /\ DeadStayDead /\ NobodyPasses
<1> USE Constants
<1> DEFINE b == building
           k == [task[b] EXCEPT !.state = "UNUSED"]
<1>1. /\ b \in Tasks /\ task[b].state = "READY" /\ b # current /\ b # Idle
      /\ b \notin ReadyIn(task)
  BY Facts DEF MenuFail, ReadyIn
<1>2. /\ task' = [task EXCEPT ![b] = k] /\ rl' = rl /\ building' = NULL
      /\ UNCHANGED <<current, slots, next_pid, pit_ticks, ctx, cpu>>
  BY <1>1, Facts DEF MenuFail
<1>3. /\ k \in TaskRecord /\ k.state = "UNUSED" /\ k.stack = task[b].stack
      /\ k.parent = task[b].parent /\ k.children = task[b].children
  <2>1. k \in TaskRecord
    BY <1>1, Facts, Values, SetState
  <2> QED BY <1>1, <2>1, Facts DEF TaskRecord
<1> HIDE DEF k
<1>4. task'[b] = k /\ \A t \in Tasks \ {b} : task'[t] = task[t]
  BY <1>1, <1>2, Facts
<1>5. TypeOK'
  <2>1. task' \in [Tasks -> TaskRecord]
    BY <1>1, <1>2, <1>3, Facts
  <2> QED BY <1>2, <2>1 DEF Inv, TypeOK, Link
<1>6. ReadyListOK'
  <2>1. ReadyTasks' = ReadyIn(task)
    BY <1>1, <1>2, <1>3, <1>4 DEF ReadyTasks, ReadyIn
  <2> QED BY <1>2, <2>1, Facts DEF ReadyListOK
<1>7. RunsCurrent'
  BY <1>1, <1>2, <1>3, <1>4 DEF Inv, RunsCurrent, Live
<1>8. StackSlotsOwned' /\ ChildrenAreOurs'
  <2>1. ASSUME NEW t \in Tasks
        PROVE  /\ task'[t].stack = task[t].stack
               /\ task'[t].parent = task[t].parent
               /\ task'[t].children = task[t].children
               /\ task'[t].state # "UNUSED" => task[t].state # "UNUSED"
               /\ \/ task'[t].state # "UNUSED"
                  \/ task[t].state = "UNUSED"
                  \/ \A p \in Tasks : task[p].state # "UNUSED" => t \notin task[p].children
    <3>1. CASE t = b
      <4>1. task[b].parent = NULL
        BY <1>1 DEF Inv, BuildingReady
      <4>2. ASSUME NEW p \in Tasks, task[p].state # "UNUSED" PROVE b \notin task[p].children
        BY <4>1, <4>2 DEF Inv, ChildrenAreOurs, Live
      <4> QED BY <1>1, <1>3, <1>4, <3>1, <4>2
    <3>2. CASE t # b
      BY <1>4, <3>2
    <3> QED BY <3>1, <3>2
  <2> QED BY <1>2, <2>1, OwnedKept
<1>9. IdleRunnable' /\ BuildingReady' /\ QuantumLeft'
  BY <1>1, <1>2, <1>4, Facts DEF Inv, IdleRunnable, BuildingReady, QuantumLeft
<1>10. DeadStayDead
  BY <1>1, <1>4 DEF DeadStayDead
<1>11. NobodyPasses
  BY <1>2 DEF NobodyPasses
<1> QED BY <1>5, <1>6, <1>7, <1>8, <1>9, <1>10, <1>11 DEF Inv

(* sys_fork, successful and not.                                           *)
LEMMA ForkInv ==
  ASSUME Inv, NEW enomem \in BOOLEAN, SysFork(enomem)
  PROVE  Inv' /\ DeadStayDead /\ NobodyPasses
<1> USE Constants
<1>1. PICK t \in Tasks :
        LET child == [Fresh(t) EXCEPT !.type = "USER_PROCESS", !.parent = current]
        IN  /\ TaskAlloc(t)
            /\ IF enomem \/ FreeSlot = NoSlot
               THEN /\ task' = [task EXCEPT ![t] = [Fresh(t) EXCEPT !.state = "UNUSED"]]
                    /\ rl' = Unlinked(t)
                    /\ ctx' = SaveContext
               ELSE /\ task' = [task EXCEPT ![t] = child, ![current].children = @ \cup {t}]
                    /\ rl' = Enqueue(Unlinked(t), t)
                    /\ ctx' = [SaveContext EXCEPT ![t] = t]
  BY DEF SysFork
<1>2. UNCHANGED <<current, pit_ticks, building, cpu>>
  BY DEF SysFork
<1>3. /\ TaskAlloc(t) /\ task[t].state = "UNUSED" /\ t # current /\ t # Idle /\ t # building
      /\ t \notin ReadyIn(task) /\ Unlinked(t) = rl
      /\ next_pid' \in 1..MAX_PID /\ slots' \subseteq Slots
      /\ Fresh(t) \in TaskRecord
      /\ Fresh(t).state = IF FreeSlot = NoSlot THEN "UNUSED" ELSE "READY"
      /\ Fresh(t).stack = FreeSlot /\ Fresh(t).children = {}
  BY <1>1, AllocFacts
<1>4. SaveContext = ctx /\ ctx \in [Tasks -> Tasks]
  BY SavedContext DEF Inv, TypeOK
<1>5. CASE enomem \/ FreeSlot = NoSlot
  <2> DEFINE k == [Fresh(t) EXCEPT !.state = "UNUSED"]
  <2>1. task' = [task EXCEPT ![t] = k] /\ rl' = rl /\ ctx' = ctx
    BY <1>1, <1>3, <1>4, <1>5
  <2>2. k \in TaskRecord
    BY <1>3, Values, SetState
  <2>3. k.state = "UNUSED" /\ k.stack = FreeSlot /\ k.children = {}
    BY <1>3 DEF TaskRecord
  <2> HIDE DEF k
  <2>4. task'[t] = k /\ \A u \in Tasks \ {t} : task'[u] = task[u]
    BY <2>1, Facts
  <2>5. \A u \in Tasks : task'[u].state = task[u].state
    BY <1>3, <2>3, <2>4
  <2>6. TypeOK'
    <3>1. task' \in [Tasks -> TaskRecord]
      BY <2>1, <2>2, Facts
    <3> QED BY <1>2, <1>3, <2>1, <3>1 DEF Inv, TypeOK
  <2>7. ReadyListOK'
    <3>1. ReadyTasks' = ReadyIn(task)
      BY <1>2, <2>5 DEF ReadyTasks, ReadyIn
    <3> QED BY <2>1, <3>1, Facts DEF ReadyListOK
  <2>8. RunsCurrent'
    BY <1>2, <2>1, <2>5 DEF Inv, RunsCurrent, Live
  <2>9. StackSlotsOwned' /\ ChildrenAreOurs'
    BY <1>3, <2>2, <2>3, <2>4, AllocOwned
  <2>10. IdleRunnable' /\ BuildingReady' /\ QuantumLeft'
    BY <1>2, <1>3, <2>4, Facts DEF Inv, IdleRunnable, BuildingReady, QuantumLeft
  <2>11. DeadStayDead /\ NobodyPasses
    BY <2>1, <2>5 DEF DeadStayDead, NobodyPasses
  <2> QED BY <2>6, <2>7, <2>8, <2>9, <2>10, <2>11 DEF Inv
<1>6. CASE ~(enomem \/ FreeSlot = NoSlot)
  <2> DEFINE k == [Fresh(t) EXCEPT !.type = "USER_PROCESS", !.parent = current]
             c == [task[current] EXCEPT !.children = task[current].children \cup {t}]
  <2>1. /\ task' = [task EXCEPT ![t] = k, ![current] = c]
        /\ rl' = Enqueue(rl, t) /\ ctx' = [ctx EXCEPT ![t] = t]
    BY <1>1, <1>3, <1>4, <1>6, Facts
  <2>2. k \in TaskRecord
    BY <1>3, Values, Facts, SetTypeParent DEF Link
  <2>3. k.state = "READY" /\ k.stack = FreeSlot /\ k.children = {} /\ k.parent = current
    BY <1>3, <1>6 DEF TaskRecord
  <2>4. c \in TaskRecord
    <3>1. task[current].children \cup {t} \in SUBSET Tasks
      BY Facts DEF TaskRecord
    <3> QED BY <3>1, Facts, SetChildren
  <2>5. /\ c.state = task[current].state /\ c.stack = task[current].stack
        /\ c.parent = task[current].parent /\ c.ticks = task[current].ticks
        /\ c.children = task[current].children \cup {t}
    BY Facts DEF TaskRecord
  <2> HIDE DEF k, c
  <2>6. /\ task'[t] = k /\ task'[current] = c
        /\ \A u \in Tasks \ {t, current} : task'[u] = task[u]
    BY <1>3, <2>1, Facts
  <2>7. \A u \in Tasks \ {t} : task'[u].state = task[u].state
    BY <2>5, <2>6
  <2>8. TypeOK'
    <3>1. task' \in [Tasks -> TaskRecord] /\ rl' \in ReadyLists
      BY <2>1, <2>2, <2>4, Facts, EnqueueType
    <3> QED BY <1>2, <1>3, <1>4, <2>1, <3>1 DEF Inv, TypeOK
  <2>9. ReadyListOK'
    <3>1. ReadyTasks' = ReadyIn(task) \cup {t}
      BY <1>2, <1>3, <2>3, <2>6, <2>7 DEF ReadyTasks, ReadyIn
    <3>2. IsListOf(Enqueue(rl, t), ReadyIn(task) \cup {t})
      <4>1. t \in Tasks \ ReadyIn(task)
        BY <1>3
      <4> QED BY <4>1, Facts, EnqueueIsList
    <3> QED BY <2>1, <3>1, <3>2 DEF ReadyListOK
  <2>10. RunsCurrent'
    <3>1. \A u \in Tasks : task'[u].state = "RUNNING" <=> u = current'
      BY <1>2, <1>3, <2>3, <2>6, <2>7, Facts
    <3>2. \A u \in Tasks : task'[u].state # "UNUSED" => ctx'[u] = u
      BY <1>4, <2>1, <2>7 DEF Inv, RunsCurrent, Live
    <3> QED BY <1>2, <3>1, <3>2, Facts DEF RunsCurrent, Live
  <2>11. StackSlotsOwned' /\ ChildrenAreOurs'
    <3>1. \A u \in Tasks \ {t} :
            /\ task'[u].stack = task[u].stack /\ task'[u].parent = task[u].parent
            /\ task'[u].state = task[u].state
            /\ \/ task'[u].children = task[u].children
               \/ /\ task'[u].children = task[u].children \cup {t}
                  /\ k.state # "UNUSED" /\ k.parent = u
      BY <2>3, <2>5, <2>6
    <3> QED BY <1>3, <1>6, <2>2, <2>3, <2>6, <3>1, AllocOwned
  <2>12. IdleRunnable' /\ QuantumLeft'
    BY <1>2, <1>3, <2>5, <2>6, <2>7, Facts DEF Inv, IdleRunnable, QuantumLeft
  <2>13. BuildingReady'
    BY <1>2, <1>3, <2>6, Facts DEF Inv, BuildingReady
  <2>14. DeadStayDead
    BY <1>3, <2>7 DEF DeadStayDead
  <2>15. NobodyPasses
    <3>1. t \in Tasks \ ReadyIn(task)
      BY <1>3
    <3>2. \A u \in ReadyIn(task) : AheadOf(Enqueue(rl, t), u) = AheadOf(rl, u)
      BY <3>1, Facts, EnqueueIsList
    <3>3. ReadyTasks = ReadyIn(task)
      BY DEF ReadyTasks, ReadyIn
    <3> QED BY <2>1, <3>2, <3>3 DEF NobodyPasses
  <2> QED BY <2>8, <2>9, <2>10, <2>11, <2>12, <2>13, <2>14, <2>15 DEF Inv
<1> QED BY <1>5, <1>6

(* sys_wait reaps a zombie: its slot is free again, and its parent forgets *)
(* it.                                                                     *)
LEMMA WaitReapInv ==
  ASSUME Inv, NEW c \in Tasks, SysWaitReap(c)
  PROVE  Inv' /\ DeadStayDead /\ NobodyPasses
<1> USE Constants
<1> DEFINE k == Reaped(c)
           q == [task[current] EXCEPT !.children = task[current].children \ {c}]
<1>1. /\ c \in task[current].children /\ task[c].state = "ZOMBIE"
      /\ task' = [task EXCEPT ![c] = k, ![current].children = @ \ {c}]
      /\ slots' = slots \ {task[c].stack}
      /\ UNCHANGED <<rl, current, next_pid, pit_ticks, building, cpu>>
  BY DEF SysWaitReap
<1>2. ctx' = ctx
  BY SavedContext DEF SysWaitReap
<1>3. c # current /\ c # Idle /\ c # building /\ c \notin ReadyIn(task)
  BY <1>1, Facts DEF ReadyIn
<1>4. k \in TaskRecord
  <2>1. k = [task[c] EXCEPT !.state = "UNUSED", !.type = "KERNEL", !.stack = NoSlot,
                            !.parent = NULL, !.waiting_for = -1, !.waiting_status = FALSE]
    BY DEF Reaped
  <2>2. task[c] \in TaskRecord
    BY Facts
  <2> HIDE DEF k
  <2> QED BY <2>1, <2>2, Values DEF TaskRecord
<1>5. k.state = "UNUSED"
  BY Facts DEF Reaped, TaskRecord
<1>6. q \in TaskRecord
  <2>1. task[current].children \ {c} \in SUBSET Tasks
    BY Facts DEF TaskRecord
  <2> QED BY <2>1, Facts, SetChildren
<1>7. /\ q.state = task[current].state /\ q.stack = task[current].stack
      /\ q.parent = task[current].parent /\ q.ticks = task[current].ticks
      /\ q.children = task[current].children \ {c}
  BY Facts DEF TaskRecord
<1>8. task' = [task EXCEPT ![c] = k, ![current] = q]
  BY <1>1, <1>3, Facts
<1> HIDE DEF k, q
<1>9. /\ task'[c] = k /\ task'[current] = q
      /\ \A u \in Tasks \ {c, current} : task'[u] = task[u]
  BY <1>3, <1>8, Facts
<1>10. \A u \in Tasks \ {c} : /\ task'[u].state = task[u].state
                              /\ task'[u].stack = task[u].stack
                              /\ task'[u].parent = task[u].parent
                              /\ task'[u].children \in SUBSET task[u].children
  BY <1>7, <1>9
<1>11. TypeOK'
  <2>1. task' \in [Tasks -> TaskRecord]
    BY <1>4, <1>6, <1>8, Facts
  <2> QED BY <1>1, <1>2, <2>1 DEF Inv, TypeOK
<1>12. ReadyListOK'
  <2>1. ReadyTasks' = ReadyIn(task)
    BY <1>1, <1>3, <1>5, <1>9, <1>10 DEF ReadyTasks, ReadyIn
  <2> QED BY <1>1, <2>1, Facts DEF ReadyListOK
<1>13. RunsCurrent'
  <2>1. \A u \in Tasks : task'[u].state = "RUNNING" <=> u = current'
    BY <1>1, <1>3, <1>5, <1>9, <1>10, Facts
  <2>2. \A u \in Tasks : task'[u].state # "UNUSED" => ctx'[u] = u
    BY <1>2, <1>5, <1>9, <1>10 DEF Inv, RunsCurrent, Live
  <2> QED BY <1>1, <2>1, <2>2, Facts DEF RunsCurrent, Live
<1>14. StackSlotsOwned'
  <2> SUFFICES ASSUME NEW u \in Tasks, task'[u].state # "UNUSED"
               PROVE  /\ task'[u].stack \in slots'
                      /\ \A v \in Tasks \ {u} :
                           task'[v].state # "UNUSED" => task'[v].stack # task'[u].stack
    BY DEF StackSlotsOwned, Live
  <2>1. u # c
    BY <1>5, <1>9
  <2>2. task[u].stack \in slots /\ task[u].stack # task[c].stack
    BY <1>1, <1>10, <2>1 DEF Inv, StackSlotsOwned, Live
  <2>3. ASSUME NEW v \in Tasks \ {u}, task'[v].state # "UNUSED"
        PROVE  task'[v].stack # task'[u].stack
    <3>1. v # c
      BY <1>5, <1>9, <2>3
    <3> QED BY <1>10, <2>1, <2>3, <3>1 DEF Inv, StackSlotsOwned, Live
  <2>4. task'[u].stack \in slots'
    <3>1. slots' = slots \ {task[c].stack}
      BY <1>1
    <3>2. task'[u].stack = task[u].stack
      BY <1>10, <2>1
    <3> QED BY <2>2, <3>1, <3>2
  <2> QED BY <2>3, <2>4
<1>15. ChildrenAreOurs'
  <2> SUFFICES ASSUME NEW p \in Tasks, task'[p].state # "UNUSED", NEW d \in task'[p].children
               PROVE  task'[d].state # "UNUSED" /\ task'[d].parent = p
    BY DEF ChildrenAreOurs, Live
  <2>1. p # c
    BY <1>5, <1>9
  <2>2. d \in task[p].children /\ d \in Tasks /\ task[p].state # "UNUSED"
    BY <1>10, <2>1, Facts DEF TaskRecord
  <2>3. task[d].state # "UNUSED" /\ task[d].parent = p
    BY <2>2 DEF Inv, ChildrenAreOurs, Live
  <2>4. d # c
    <3>1. task[c].parent = current
      BY <1>1, Facts DEF Inv, ChildrenAreOurs, Live
    <3>2. p = current => d # c
      BY <1>7, <1>9
    <3> QED BY <2>3, <3>1, <3>2
  <2> QED BY <1>10, <2>2, <2>3, <2>4
<1>16. IdleRunnable' /\ QuantumLeft'
  BY <1>1, <1>3, <1>7, <1>9, <1>10, Facts DEF Inv, IdleRunnable, QuantumLeft
<1>17. BuildingReady'
  BY <1>1, <1>3, <1>10, Facts DEF Inv, BuildingReady
<1>18. DeadStayDead
  <2>1. task[c].parent = current
    BY <1>1, Facts DEF Inv, ChildrenAreOurs, Live
  <2> QED BY <1>1, <1>5, <1>9, <1>10, <2>1 DEF DeadStayDead
<1>19. NobodyPasses
  BY <1>1 DEF NobodyPasses
<1> QED BY <1>11, <1>12, <1>13, <1>14, <1>15, <1>16, <1>17, <1>18, <1>19 DEF Inv

-----------------------------------------------------------------------------
(* Every step of the system keeps the invariant, wakes no zombie and lets  *)
(* nobody pass in the ready list.                                          *)
LEMMA NextInv == Inv /\ [Next]_vars => Inv' /\ DeadStayDead /\ NobodyPasses
<1> SUFFICES ASSUME Inv, [Next]_vars PROVE Inv' /\ DeadStayDead /\ NobodyPasses
  OBVIOUS
<1>1. CASE Tick
  BY <1>1, TickInv
<1>2. CASE MenuAlloc
  BY <1>2, MenuAllocInv
<1>3. CASE \E ty \in {"USER", "USER_PROCESS"} : MenuEnqueue(ty)
  BY <1>3, MenuEnqueueInv
<1>4. CASE MenuFail
  BY <1>4, MenuFailInv
<1>5. CASE SysExit \/ UserPageFault
  BY <1>5, TerminateInv DEF SysExit, UserPageFault
<1>6. CASE \E ms \in SleepMs : SysSleep(ms)
  BY <1>6, SleepInv
<1>7. CASE SysYield
  BY <1>7, YieldInv DEF SysYield
<1>8. CASE \E enomem \in BOOLEAN : SysFork(enomem)
  BY <1>8, ForkInv
<1>9. CASE \E c \in Tasks : SysWaitReap(c)
  BY <1>9, WaitReapInv
<1>10. CASE UNCHANGED vars
  BY <1>10 DEF vars, Inv, TypeOK, ReadyListOK, ReadyTasks, RunsCurrent, StackSlotsOwned,
               ChildrenAreOurs, Live, IdleRunnable, BuildingReady, QuantumLeft,
               DeadStayDead, NobodyPasses
<1> QED BY <1>1, <1>2, <1>3, <1>4, <1>5, <1>6, <1>7, <1>8, <1>9, <1>10 DEF Next

(* The invariant holds in every reachable state.                           *)
THEOREM Invariance == Spec => []Inv
BY InitInv, NextInv, PTL DEF Spec

(* Type correctness of the task table and scheduler state: among others,   *)
(* no tick count passes the quantum and no wake_tick leaves its width.     *)
THEOREM TypeCorrect == Spec => []TypeOK
<1>1. Inv => TypeOK
  BY DEF Inv
<1> QED BY <1>1, Invariance, PTL

(* The ready list of task.c always is a proper list of exactly the ready   *)
(* tasks, for any number of tasks.                                         *)
THEOREM ReadyListCorrect == Spec => []ReadyListOK
<1>1. Inv => ReadyListOK
  BY DEF Inv
<1> QED BY <1>1, Invariance, PTL

(* The processor executes current_task, the one task marked RUNNING, and   *)
(* every saved context is its owner's, after any sequence of interrupts    *)
(* and system calls.                                                       *)
THEOREM ProcessorRunsCurrent == Spec => []RunsCurrent
<1>1. Inv => RunsCurrent
  BY DEF Inv
<1> QED BY <1>1, Invariance, PTL

(* No two tasks in use share a kernel stack.                               *)
THEOREM StacksAreOwned == Spec => []StackSlotsOwned
<1>1. Inv => StackSlotsOwned
  BY DEF Inv
<1> QED BY <1>1, Invariance, PTL

(* What sys_wait finds in the caller's list is a child of the caller.      *)
THEOREM ChildrenBelong == Spec => []ChildrenAreOurs
<1>1. Inv => ChildrenAreOurs
  BY DEF Inv
<1> QED BY <1>1, Invariance, PTL

(* Neither the timer nor an exiting child makes a dead task ready or       *)
(* running again: only sys_wait of its parent changes a zombie.            *)
THEOREM DeadTasksStayDead == Spec => ZombiesStayDead
<1>1. Inv /\ [Next]_vars =>
        [\A t \in Tasks : task[t].state = "ZOMBIE" =>
           \/ task'[t].state = "ZOMBIE"
           \/ /\ task'[t].state = "UNUSED"
              /\ task[t].parent = current /\ t \in task[current].children]_vars
  BY NextInv DEF DeadStayDead
<1> QED BY <1>1, Invariance, PTL DEF Spec, ZombiesStayDead

(* The ready list is first come, first served: however tasks wake, fork,   *)
(* yield and exit, nobody gets in front of a task that waits in it.        *)
THEOREM FirstComeFirstServed == Spec => NoOvertaking
<1>1. Inv /\ [Next]_vars =>
        [\A t \in ReadyTasks \cap ReadyTasks' : AheadOf(rl', t) \subseteq AheadOf(rl, t)]_vars
  BY NextInv DEF NobodyPasses
<1> QED BY <1>1, Invariance, PTL DEF Spec, NoOvertaking
=============================================================================
