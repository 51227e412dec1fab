------------------------------ MODULE Scheduler ------------------------------
(***************************************************************************)
(* The task table and scheduler of kernel/task.c, driven by the timer      *)
(* interrupt, by the system calls of user programs (kernel/syscall.c), by  *)
(* user page faults (kernel/interrupt.c) and by the menu, which runs in    *)
(* kernel_idle and creates user tasks.                                     *)
(*                                                                         *)
(* Every interrupt gate of the IDT clears IF, so a handler is one atomic   *)
(* action.  kernel_idle runs with interrupts enabled: creating a task is   *)
(* two actions, with any interrupt in between.                             *)
(*                                                                         *)
(* The calls that ought to block (wait for a live child, read of an empty  *)
(* keyboard queue) are in module Blocking, and the direct task_yield() of  *)
(* the kernel_idle loop in module IdleYield.                               *)
(***************************************************************************)
EXTENDS ReadyList, Integers

CONSTANTS
  SLOT_COUNT,   \* kernel stack slots: task_stack_slot_count()
  QUANTUM,      \* TASK_QUANTUM_DEFAULT
  TICK_MOD,     \* pit_ticks is a uint32_t: 2^32
  MS_MOD,       \* the argument of sys_sleep is a uint32_t: 2^32
  SleepMs,      \* the arguments programs give to sleep
  MAX_PID       \* bound: next_pid stops here

ASSUME SchedulerAssumption ==
  /\ SLOT_COUNT \in 1..TASK_MAX
  /\ QUANTUM \in Nat \ {0}
  /\ TICK_MOD \in Nat \ {0, 1}
  /\ MS_MOD \in Nat \ {0}
  /\ SleepMs \subseteq 0 .. MS_MOD - 1
  /\ MAX_PID \in Nat \ {0, 1}

VARIABLES
  task,        \* task_table
  rl,          \* next/prev links, ready_list_head, ready_list_tail
  current,     \* current_task
  slots,       \* task_stack_slots: the slots marked used
  next_pid,
  pit_ticks,
  building,    \* the task kernel_idle is creating: allocated, not enqueued
  ctx,         \* ctx[t]: whose registers task t's saved context holds
  cpu          \* whose code the processor executes

vars == <<task, rl, current, slots, next_pid, pit_ticks, building, ctx, cpu>>

Idle   == 1                       \* task_table[0], created by kernel_main
Slots  == 0 .. SLOT_COUNT - 1
NoSlot == -1                      \* stack_base == NULL

States == {"UNUSED", "READY", "RUNNING", "WAITING", "ZOMBIE"}
Types  == {"KERNEL", "USER", "USER_PROCESS"}

TaskRecord ==
  [state: States, type: Types, pid: 0..MAX_PID, ticks: 0..QUANTUM,
   stack: Slots \cup {NoSlot}, parent: Link, children: SUBSET Tasks,
   waiting_for: -1..MAX_PID, waiting_status: BOOLEAN,
   wake_tick: 0 .. TICK_MOD - 1]

TypeOK ==
  /\ task \in [Tasks -> TaskRecord]
  /\ rl \in ReadyLists
  /\ current \in Tasks
  /\ slots \subseteq Slots
  /\ next_pid \in 1..MAX_PID
  /\ pit_ticks \in 0 .. TICK_MOD - 1
  /\ building \in Link
  /\ ctx \in [Tasks -> Tasks]
  /\ cpu \in Tasks

-----------------------------------------------------------------------------
(* task_init, then the part of kernel_main that makes kernel_idle the      *)
(* current task.                                                           *)
UnusedTask ==
  [state |-> "UNUSED", type |-> "KERNEL", pid |-> 0, ticks |-> 0,
   stack |-> NoSlot, parent |-> NULL, children |-> {}, waiting_for |-> -1,
   waiting_status |-> FALSE, wake_tick |-> 0]

Init ==
  /\ task = [t \in Tasks |->
               IF t = Idle
               THEN [UnusedTask EXCEPT !.state = "RUNNING", !.pid = 1, !.stack = 0]
               ELSE UnusedTask]
  /\ rl = EmptyList
  /\ current = Idle
  /\ slots = {0}
  /\ next_pid = 2
  /\ pit_ticks = 0
  /\ building = NULL
  /\ ctx = [t \in Tasks |-> t]
  /\ cpu = Idle

-----------------------------------------------------------------------------
(* task_save_current_context, at the start of every interrupt: the         *)
(* interrupted registers go to current_task, if it is running.             *)
SaveContext ==
  IF task[current].state = "RUNNING" THEN [ctx EXCEPT ![current] = cpu] ELSE ctx

(* A slip: the tick count of the last quantum kept.                        *)
SelectNextKeepTicks(tk, r) ==
  IF r.head = NULL
  THEN task' = tk /\ rl' = r /\ current' = current
  ELSE /\ task' = [tk EXCEPT ![r.head].state = "RUNNING"]
       /\ rl' = Remove(r, r.head)
       /\ current' = r.head

(* task_select_next: the head of the list becomes current_task, if there   *)
(* is one.                                                                 *)
SelectNext(tk, r) ==
  IF r.head = NULL
  THEN task' = tk /\ rl' = r /\ current' = current
  ELSE /\ task' = [tk EXCEPT ![r.head].state = "RUNNING", ![r.head].ticks = 0]
       /\ rl' = Remove(r, r.head)
       /\ current' = r.head

(* task_schedule and task_yield, which are the same code: a current task   *)
(* that is still running goes to the end of the list first.                *)
TaskSchedule(tk, r) ==
  IF tk[current].state = "RUNNING"
  THEN SelectNext([tk EXCEPT ![current].state = "READY"], Enqueue(r, current))
  ELSE SelectNext(tk, r)

(* A slip: the handler schedules and drops the context, returning NULL.    *)
SwitchNoResume(tk, r, cx) == cpu' = cpu /\ TaskSchedule(tk, r)

(* A handler that returns task_schedule() or task_yield(): the interrupt   *)
(* stub passes the context to task_resume, or returns to the interrupted   *)
(* code when there is none.                                                *)
Switch(tk, r, cx) ==
  /\ cpu' = IF r.head # NULL THEN cx[r.head]
            ELSE IF tk[current].state = "RUNNING" THEN cx[current] ELSE cpu
  /\ TaskSchedule(tk, r)

-----------------------------------------------------------------------------
(* Slips: a task woken whatever its state, or one tick after it is due.    *)
WokenAnyState(now) ==
  {t \in Tasks : /\ task[t].state \notin {"READY", "RUNNING"}
                 /\ task[t].wake_tick # 0 /\ task[t].wake_tick <= now}

WokenLate(now) ==
  {t \in Tasks : task[t].state = "WAITING" /\ 0 < task[t].wake_tick /\ task[t].wake_tick < now}

(* The timer interrupt: timer_handle_interrupt, then task_tick.            *)
Woken(now) ==
  {t \in Tasks : /\ task[t].state = "WAITING"
                 /\ task[t].wake_tick # 0
                 /\ task[t].wake_tick <= now}

Tick ==
  LET now == (pit_ticks + 1) % TICK_MOD
      W   == Woken(now)
      tk  == [t \in Tasks |->
                IF t \in W
                THEN [task[t] EXCEPT !.state = "READY", !.wake_tick = 0]
                ELSE task[t]]
      r   == WakeLoop(rl, W)[TASK_MAX]
      run == tk[current].state = "RUNNING"
      tk1 == IF run THEN [tk EXCEPT ![current].ticks = @ + 1] ELSE tk
  IN  /\ pit_ticks' = now
      /\ ctx' = SaveContext
      /\ IF run /\ tk1[current].ticks >= QUANTUM
         THEN Switch(tk1, r, SaveContext)
         ELSE task' = tk1 /\ rl' = r /\ UNCHANGED <<current, cpu>>
      /\ UNCHANGED <<slots, next_pid, building>>

-----------------------------------------------------------------------------
(* task_alloc: the first unused entry of the table gets the next pid and   *)
(* the first free stack slot; without one it stays unused, its pid spent.  *)
Unused == {t \in Tasks : task[t].state = "UNUSED"}

FreeSlot == IF Slots \subseteq slots THEN NoSlot ELSE First(Slots \ slots)

Fresh(t) ==
  [task[t] EXCEPT !.state = IF FreeSlot = NoSlot THEN "UNUSED" ELSE "READY",
                  !.type = "KERNEL", !.pid = next_pid, !.ticks = 0,
                  !.stack = FreeSlot, !.parent = NULL, !.children = {},
                  !.waiting_for = -1, !.wake_tick = 0]

(* A slip: the stack slot is handed out and not marked used.               *)
TaskAllocUnmarked(t) ==
  /\ next_pid < MAX_PID
  /\ Unused # {} /\ t = First(Unused)
  /\ next_pid' = next_pid + 1
  /\ slots' = slots

TaskAlloc(t) ==
  /\ next_pid < MAX_PID
  /\ Unused # {} /\ t = First(Unused)
  /\ next_pid' = next_pid + 1
  /\ slots' = IF FreeSlot = NoSlot THEN slots ELSE slots \cup {FreeSlot}

Unlinked(t) == [rl EXCEPT !.next[t] = NULL, !.prev[t] = NULL]

(* The menu creates a user task (task_create_user or, for a program read   *)
(* from disk, task_create_user_from_binary): task_alloc first.  Building   *)
(* the address space follows, with interrupts enabled (its frames are the  *)
(* business of AddressSpace), and ends with task_enqueue or, when memory   *)
(* or the image fails, with the entry marked unused again.                 *)
MenuAlloc ==
  /\ cpu = Idle /\ building = NULL
  /\ \E t \in Tasks : /\ TaskAlloc(t)
                      /\ task' = [task EXCEPT ![t] = Fresh(t)]
                      /\ rl' = Unlinked(t)
                      /\ building' = IF FreeSlot = NoSlot THEN NULL ELSE t
                      /\ ctx' = [ctx EXCEPT ![t] = t]
  /\ UNCHANGED <<current, pit_ticks, cpu>>

MenuEnqueue(ty) ==
  /\ cpu = Idle /\ building # NULL
  /\ task' = [task EXCEPT ![building].type = ty, ![building].state = "READY"]
  /\ rl' = Enqueue(rl, building)
  /\ building' = NULL
  /\ UNCHANGED <<current, slots, next_pid, pit_ticks, ctx, cpu>>

MenuFail ==
  /\ cpu = Idle /\ building # NULL
  /\ task' = [task EXCEPT ![building].state = "UNUSED"]
  /\ building' = NULL
  /\ UNCHANGED <<rl, current, slots, next_pid, pit_ticks, ctx, cpu>>

-----------------------------------------------------------------------------
(* System calls and page faults come from user code.  The kernel acts on   *)
(* current_task.                                                           *)
UserRuns == cpu # Idle

(* task_terminate followed by task_schedule: the task becomes a zombie; a  *)
(* parent found WAITING with waiting_for_pid = -1 or this pid is made      *)
(* ready.  waiting_for_pid is -1 from task_alloc on, so this holds of a    *)
(* parent that sleeps.  wake_tick is left as it is.                        *)
Terminate ==
  LET p     == task[current].parent
      dead  == [task EXCEPT ![current].state = "ZOMBIE"]
      wakes == /\ p # NULL
               /\ dead[p].state = "WAITING"
               /\ dead[p].waiting_for \in {task[current].pid, -1}
  IN  IF wakes
      THEN Switch([dead EXCEPT ![p].state = "READY", ![p].waiting_for = 0,
                                 ![p].waiting_status = FALSE],
                    Enqueue(rl, p), SaveContext)
      ELSE Switch(dead, rl, SaveContext)

(* SYS_EXIT.                                                               *)
SysExit ==
  /\ UserRuns
  /\ Terminate
  /\ ctx' = SaveContext
  /\ UNCHANGED <<slots, next_pid, pit_ticks, building>>

(* Interrupt 14 from ring 3: task_terminate(14), task_schedule().          *)
UserPageFault ==
  /\ UserRuns
  /\ Terminate
  /\ ctx' = SaveContext
  /\ UNCHANGED <<slots, next_pid, pit_ticks, building>>

(* (ms + 9u) / 10u in 32-bit arithmetic, at least one tick.                *)
DelayTicks(ms) ==
  LET d == ((ms + 9) % MS_MOD) \div 10 IN IF d = 0 THEN 1 ELSE d

(* SYS_SLEEP: sleep(0) only yields.                                        *)
SysSleep(ms) ==
  /\ UserRuns
  /\ LET tk == IF ms = 0 THEN task
               ELSE [task EXCEPT ![current].wake_tick =
                                     (pit_ticks + DelayTicks(ms)) % TICK_MOD,
                                 ![current].state = "WAITING"]
     IN  Switch(tk, rl, SaveContext)
  /\ ctx' = SaveContext
  /\ UNCHANGED <<slots, next_pid, pit_ticks, building>>

(* SYS_YIELD.                                                              *)
SysYield ==
  /\ UserRuns
  /\ Switch(task, rl, SaveContext)
  /\ ctx' = SaveContext
  /\ UNCHANGED <<slots, next_pid, pit_ticks, building>>

(* SYS_FORK of a process.  Copying the parent's pages may run out of       *)
(* frames: the entry is then marked unused, after task_alloc.              *)
SysFork(enomem) ==
  /\ UserRuns /\ task[current].type = "USER_PROCESS"
  /\ \E t \in Tasks :
       LET child == [Fresh(t) EXCEPT !.type = "USER_PROCESS", !.parent = current]
       IN  /\ TaskAlloc(t)
           /\ IF enomem \/ FreeSlot = NoSlot
              THEN /\ task' = [task EXCEPT ![t] = [Fresh(t) EXCEPT !.state = "UNUSED"]]
                   /\ rl' = Unlinked(t)
                   /\ ctx' = SaveContext
              ELSE /\ task' = [task EXCEPT ![t] = child, ![current].children = @ \cup {t}]
                   /\ rl' = Enqueue(Unlinked(t), t)
                   /\ ctx' = [SaveContext EXCEPT ![t] = t]
  /\ UNCHANGED <<current, pit_ticks, building, cpu>>

(* What sys_wait leaves of a reaped child.                                 *)
Reaped(c) ==
  [task[c] EXCEPT !.state = "UNUSED", !.type = "KERNEL", !.stack = NoSlot,
                  !.parent = NULL, !.waiting_for = -1, !.waiting_status = FALSE]

(* A slip: the reaped child stays in the list of its parent.               *)
SysWaitReapKeepLink(c) ==
  /\ UserRuns /\ task[current].type = "USER_PROCESS"
  /\ c \in task[current].children
  /\ task[c].state = "ZOMBIE"
  /\ task' = [task EXCEPT ![c] = Reaped(c)]
  /\ slots' = slots \ {task[c].stack}
  /\ ctx' = SaveContext
  /\ UNCHANGED <<rl, current, next_pid, pit_ticks, building, cpu>>

(* SYS_WAIT for a child that is a zombie: it is reaped at once.            *)
SysWaitReap(c) ==
  /\ UserRuns /\ task[current].type = "USER_PROCESS"
  /\ c \in task[current].children
  /\ task[c].state = "ZOMBIE"
  /\ task' = [task EXCEPT ![c] = Reaped(c), ![current].children = @ \ {c}]
  /\ slots' = slots \ {task[c].stack}
  /\ ctx' = SaveContext
  /\ UNCHANGED <<rl, current, next_pid, pit_ticks, building, cpu>>

-----------------------------------------------------------------------------
Next ==
  \/ Tick
  \/ MenuAlloc
  \/ \E ty \in {"USER", "USER_PROCESS"} : MenuEnqueue(ty)
  \/ MenuFail
  \/ SysExit
  \/ UserPageFault
  \/ \E ms \in SleepMs : SysSleep(ms)
  \/ SysYield
  \/ \E enomem \in BOOLEAN : SysFork(enomem)
  \/ \E c \in Tasks : SysWaitReap(c)

Spec == Init /\ [][Next]_vars

(* The PIT keeps interrupting; nothing else is assumed to make progress.   *)
FairSpec == Spec /\ WF_vars(Tick)

-----------------------------------------------------------------------------
(* The tasks that should be in the ready list: the READY ones, but for the *)
(* task that kernel_idle has allocated and not yet enqueued.               *)
ReadyTasks == {t \in Tasks : task[t].state = "READY"} \ {building}

Live(t) == task[t].state # "UNUSED"

(* The ready list of task_enqueue/task_remove is a proper list, and holds  *)
(* exactly the tasks that are ready: no task is lost from it, is in it     *)
(* twice, or stays in it while it sleeps, runs or is dead.                 *)
ReadyListOK == IsListOf(rl, ReadyTasks)

(* current_task is the one task marked RUNNING, the processor executes its *)
(* code and every other saved context is its owner's: no handler leaves    *)
(* the processor with a task that gave it up, and no context is saved into *)
(* another task.                                                           *)
RunsCurrent ==
  /\ \A t \in Tasks : task[t].state = "RUNNING" <=> t = current
  /\ cpu = current
  /\ \A t \in Tasks : Live(t) => ctx[t] = t

(* Two tasks in use never share a kernel stack, and the stack of a task in *)
(* use is never marked free, whatever allocations, failed forks and        *)
(* reapings came before (task_allocate_stack, task_free_stack).            *)
StackSlotsOwned ==
  \A t \in Tasks : Live(t) =>
    /\ task[t].stack \in slots
    /\ \A u \in Tasks \ {t} : Live(u) => task[u].stack # task[t].stack

(* A task's child list holds only tasks in use whose parent field points   *)
(* back to it: what sys_wait finds in the list is a child of the caller,   *)
(* also after the slots of dead tasks have been given to others.           *)
ChildrenAreOurs ==
  \A p \in Tasks : Live(p) =>
    \A c \in task[p].children : Live(c) /\ task[c].parent = p

(* Nobody but sys_wait changes a zombie: neither the timer nor an exiting  *)
(* child makes a dead task ready or running again.                         *)
ZombiesStayDead ==
  [][\A t \in Tasks : task[t].state = "ZOMBIE" =>
       \/ task'[t].state = "ZOMBIE"
       \/ /\ task'[t].state = "UNUSED"
          /\ task[t].parent = current /\ t \in task[current].children]_vars

(* The ready list is first come, first served: while a task waits in it,   *)
(* nobody gets in front of it, whoever wakes up, forks or yields.          *)
NoOvertaking ==
  [][\A t \in ReadyTasks \cap ReadyTasks' : AheadOf(rl', t) \subseteq AheadOf(rl, t)]_vars

(* Round robin: a task in the ready list gets to run, however long the     *)
(* others compute and however many of them sleep, wake, fork and exit.     *)
NoStarvation ==
  \A t \in Tasks : t \in ReadyTasks ~> (cpu = t)

(* A sleeping task is woken, also when pit_ticks wraps around on the way.  *)
(* (wake_tick = 0 means that no wake-up is due: see the README on a sleep  *)
(* that ends exactly at the wrap.)                                         *)
SleepersWake ==
  \A t \in Tasks :
    (task[t].state = "WAITING" /\ task[t].wake_tick # 0) ~> task[t].state # "WAITING"
=============================================================================
