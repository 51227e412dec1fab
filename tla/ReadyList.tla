------------------------------ MODULE ReadyList ------------------------------
(***************************************************************************)
(* The ready list of kernel/task.c: a doubly linked list threaded through  *)
(* the next/prev fields of the task table, with ready_list_head and        *)
(* ready_list_tail.  The operators are the pointer assignments of the      *)
(* code, on a record r holding the four pieces of state.  A task is named  *)
(* by its position in task_table, counted from 1, and NULL is 0.           *)
(***************************************************************************)
EXTENDS Naturals

CONSTANT TASK_MAX   \* the length of task_table

ASSUME TaskMaxAssumption == TASK_MAX \in Nat \ {0}

Tasks == 1..TASK_MAX
NULL  == 0
Link  == Tasks \cup {NULL}

ReadyLists == [next: [Tasks -> Link], prev: [Tasks -> Link],
               head: Link, tail: Link]

EmptyList == [next |-> [t \in Tasks |-> NULL], prev |-> [t \in Tasks |-> NULL],
              head |-> NULL, tail |-> NULL]

First(S) == CHOOSE x \in S : \A y \in S : x <= y

-----------------------------------------------------------------------------
(* Plausible slips in the list code, for checking that the properties see  *)
(* them: the task put at the front, the tail not moved back.               *)
EnqueueAtFront(r, t) ==
  [next |-> [r.next EXCEPT ![t] = r.head],
   prev |-> IF r.head # NULL THEN [r.prev EXCEPT ![t] = NULL, ![r.head] = t]
                             ELSE [r.prev EXCEPT ![t] = NULL],
   head |-> t,
   tail |-> IF r.head # NULL THEN r.tail ELSE t]

RemoveKeepTail(r, t) ==
  LET n == r.next[t]
      p == r.prev[t]
  IN  [next |-> [(IF p # NULL THEN [r.next EXCEPT ![p] = n] ELSE r.next)
                   EXCEPT ![t] = NULL],
       prev |-> [(IF n # NULL THEN [r.prev EXCEPT ![n] = p] ELSE r.prev)
                   EXCEPT ![t] = NULL],
       head |-> IF p # NULL THEN r.head ELSE n,
       tail |-> r.tail]

-----------------------------------------------------------------------------
(* task_enqueue: t becomes the tail.  Nothing checks that t is not already *)
(* in the list.                                                            *)
Enqueue(r, t) ==
  LET nx == [r.next EXCEPT ![t] = NULL]
  IN  [next |-> IF r.tail # NULL THEN [nx EXCEPT ![r.tail] = t] ELSE nx,
       prev |-> [r.prev EXCEPT ![t] = r.tail],
       head |-> IF r.tail # NULL THEN r.head ELSE t,
       tail |-> t]

(* task_remove: unlink t and clear its own links.                          *)
Remove(r, t) ==
  LET n  == r.next[t]
      p  == r.prev[t]
      nx == IF p # NULL THEN [r.next EXCEPT ![p] = n] ELSE r.next
      pv == IF n # NULL THEN [r.prev EXCEPT ![n] = p] ELSE r.prev
  IN  [next |-> [nx EXCEPT ![t] = NULL],
       prev |-> [pv EXCEPT ![t] = NULL],
       head |-> IF p # NULL THEN r.head ELSE n,
       tail |-> IF n # NULL THEN r.tail ELSE p]

(* The loop of task_wake_waiting_tasks, which enqueues every task of W in  *)
(* the order of the table: the list after each entry.                      *)
WakeLoop(r, W) ==
  LET loop[i \in 0..TASK_MAX] ==
        IF i = 0 THEN r
        ELSE IF i \in W THEN Enqueue(loop[i-1], i) ELSE loop[i-1]
  IN  loop

-----------------------------------------------------------------------------
(* ahead[t] is the set of tasks in front of t.  The links of r agree with  *)
(* it, on exactly the members of S.                                        *)
Ordered(r, S, ahead) ==
  /\ r.head = NULL <=> S = {}
  /\ r.tail = NULL <=> S = {}
  /\ S # {} => /\ r.head \in S /\ ahead[r.head] = {} /\ r.prev[r.head] = NULL
               /\ r.tail \in S /\ ahead[r.tail] = S \ {r.tail}
               /\ r.next[r.tail] = NULL
  /\ \A t \in S \ {r.tail} : /\ r.next[t] \in S
                             /\ r.prev[r.next[t]] = t
                             /\ ahead[r.next[t]] = ahead[t] \cup {t}
  /\ \A t \in S \ {r.head} : r.prev[t] \in S /\ r.next[r.prev[t]] = t
  /\ \A t \in Tasks \ S : r.next[t] = NULL /\ r.prev[t] = NULL

(* r is a proper list of exactly the tasks of S: no cycle, nobody missing, *)
(* nobody twice, both directions consistent.                               *)
IsListOf(r, S) == \E ahead \in [S -> SUBSET S] : Ordered(r, S, ahead)

(* The places met when r is followed from its head, NULL from its end on.  *)
Walk(r) ==
  LET walk[n \in 0..TASK_MAX] ==
        IF n = 0 THEN r.head
        ELSE IF walk[n-1] = NULL THEN NULL ELSE r.next[walk[n-1]]
  IN  walk

(* The tasks met before t.                                                 *)
AheadOf(r, t) ==
  LET walk == Walk(r)
  IN  {walk[n] : n \in {m \in 0..TASK_MAX :
                          \E k \in m+1..TASK_MAX : walk[k] = t}} \ {NULL}
=============================================================================
