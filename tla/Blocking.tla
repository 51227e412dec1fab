------------------------------ MODULE Blocking ------------------------------
(***************************************************************************)
(* The system calls that ought to block, added to Scheduler: sys_wait for  *)
(* a child that has not exited, and sys_read while the keyboard queue is   *)
(* empty (kernel/syscall.c).                                               *)
(***************************************************************************)
EXTENDS Scheduler

VARIABLE hung   \* the kernel loops inside a handler, with interrupts off

bvars == <<vars, hung>>

BInit == Init /\ hung = FALSE

(* The else branch of sys_wait.  syscall_handle_wait returns NULL, so the  *)
(* interrupt stub returns to the caller.                                   *)
SysWaitBlock(c) ==
  /\ UserRuns /\ task[current].type = "USER_PROCESS"
  /\ c \in task[current].children
  /\ task[c].state # "ZOMBIE"
  /\ task' = [task EXCEPT ![current].waiting_for = task[c].pid,
                          ![current].waiting_status = TRUE,
                          ![current].state = "WAITING"]
  /\ ctx' = SaveContext
  /\ UNCHANGED <<rl, current, slots, next_pid, pit_ticks, building, cpu, hung>>

(* The loop of sys_read on an empty queue.  Each round marks current_task  *)
(* WAITING and makes the head of the list current; the handler never       *)
(* leaves the loop and interrupts are off, so the list is drained and the  *)
(* queue stays empty.                                                      *)
SysReadEmpty ==
  /\ UserRuns
  /\ task' = [t \in Tasks |->
                IF t \in ReadyTasks
                THEN [task[t] EXCEPT !.state = "WAITING", !.ticks = 0]
                ELSE IF t = current THEN [task[t] EXCEPT !.state = "WAITING"]
                ELSE task[t]]
  /\ rl' = EmptyList
  /\ current' = IF rl.tail = NULL THEN current ELSE rl.tail
  /\ ctx' = SaveContext
  /\ hung' = TRUE
  /\ UNCHANGED <<slots, next_pid, pit_ticks, building, cpu>>

Spin == hung /\ UNCHANGED bvars

BNext ==
  \/ ~hung /\ Next /\ UNCHANGED hung
  \/ ~hung /\ \E c \in Tasks : SysWaitBlock(c)
  \/ ~hung /\ SysReadEmpty
  \/ Spin

BSpec == BInit /\ [][BNext]_bvars

-----------------------------------------------------------------------------
(* "Yield CPU while waiting for input" (sys_read) and "Block" (sys_wait):  *)
(* a task that waits does not execute, in its program or in the handler of *)
(* its call.                                                               *)
WaitersDoNotExecute == task[cpu].state # "WAITING"
=============================================================================
