------------------------------- MODULE Context -------------------------------
(***************************************************************************)
(* What becomes of the registers of a task when an interrupt switches to   *)
(* another: the frame that the processor and common_interrupt_handler      *)
(* (arch/i386/cpu.s) leave on the stack, task_save_current_context         *)
(* (kernel/task.c) which copies it word by word, and task_resume which     *)
(* loads it again.  Module Scheduler takes a context as one value; this    *)
(* one looks inside.  Every interrupt here switches to some other task.    *)
(*                                                                         *)
(* Addresses are counted in words.  Kernel stacks have addresses from      *)
(* KERNEL_STACKS on, which are no segment selectors.                       *)
(***************************************************************************)
EXTENDS Integers

CONSTANTS
  Tasks,        \* at least two
  UserTasks,    \* those whose type is not TASK_TYPE_KERNEL
  Words         \* values of registers and memory; no code segments

USER_CODE_SEG   == 27
USER_DATA_SEG   == 35
KERNEL_CODE_SEG == 8
KERNEL_DATA_SEG == 16
KERNEL_STACKS   == 1000

VARIABLES
  current_task,
  cpu,           \* the registers
  context,       \* task_context_t of each task
  interrupted,   \* history: the registers each task was interrupted with
  fresh          \* history: nothing was executed since the last switch

vars == <<current_task, cpu, context, interrupted, fresh>>

(* The registers of a task that begins: see task_create_context.           *)
Begin(t, w) ==
  [edi |-> 0, esi |-> 0, ebp |-> 0, ebx |-> 0, edx |-> 0, ecx |-> 0, eax |-> 0,
   esp    |-> IF t \in UserTasks THEN w ELSE KERNEL_STACKS,
   eip    |-> w,
   cs     |-> IF t \in UserTasks THEN USER_CODE_SEG ELSE KERNEL_CODE_SEG,
   ss     |-> IF t \in UserTasks THEN USER_DATA_SEG ELSE KERNEL_DATA_SEG,
   eflags |-> 514]

Init ==
  /\ current_task \in Tasks
  /\ \E w \in Words : context = [t \in Tasks |-> Begin(t, w)]
  /\ cpu = context[current_task]
  /\ interrupted = context
  /\ fresh = TRUE

(* A task executes: its stack pointer and instruction pointer move.        *)
Execute ==
  /\ fresh
  /\ \E pc, sp, acc \in Words :
       cpu' = [cpu EXCEPT !.eip = pc, !.eax = acc,
                          !.esp = IF cpu.cs = USER_CODE_SEG THEN sp ELSE @ - 1]
  /\ fresh' = FALSE
  /\ UNCHANGED <<current_task, context, interrupted>>

(* The stack as common_interrupt_handler passes it on: pusha, the number,  *)
(* the error code, and what the processor pushed, which is at the lowest   *)
(* address what it pushed last.  From ring 3 that begins on the kernel     *)
(* stack of the TSS; within ring 0 it has neither SS nor ESP, and above it *)
(* is the stack of the task itself.                                        *)
saved_regs(above) ==
  LET ring3 == cpu.cs = USER_CODE_SEG
  IN  [ i \in 0..14 |->
          CASE i = 0  -> cpu.edi
            [] i = 1  -> cpu.esi
            [] i = 2  -> cpu.ebp
            [] i = 3  -> IF ring3 THEN KERNEL_STACKS ELSE cpu.esp - 5
            [] i = 4  -> cpu.ebx
            [] i = 5  -> cpu.edx
            [] i = 6  -> cpu.ecx
            [] i = 7  -> cpu.eax
            [] i \in {8, 9} -> 0
            [] i = 10 -> cpu.eip
            [] i = 11 -> cpu.cs
            [] i = 12 -> cpu.eflags
            [] i = 13 -> IF ring3 THEN cpu.esp ELSE above
            [] i = 14 -> IF ring3 THEN cpu.ss  ELSE above ]

(* task_save_current_context.                                              *)
Saved(t, regs) ==
  LET user == t \in UserTasks
  IN  [ edi |-> regs[0], esi |-> regs[1], ebp |-> regs[2], ebx |-> regs[4],
        edx |-> regs[5], ecx |-> regs[6], eax |-> regs[7],
        ss     |-> IF user THEN regs[10] ELSE KERNEL_DATA_SEG,
        esp    |-> IF user THEN regs[11] ELSE regs[3],
        eflags |-> regs[12],
        cs     |-> IF user THEN regs[13] ELSE regs[11],
        eip    |-> IF user THEN regs[14] ELSE regs[10] ]

(* task_resume: a full frame for iret when the context is one of ring 3,   *)
(* otherwise three words, written over the stack at the saved ESP.  ECX is *)
(* loaded before EAX is loaded through it, so that EAX is some word of     *)
(* memory.                                                                 *)
Resumed(c, word) ==
  IF c.cs = USER_CODE_SEG
  THEN [c EXCEPT !.eax = word]
  ELSE [c EXCEPT !.eax = word, !.esp = @ + 3, !.ss = KERNEL_DATA_SEG]

(* An interrupt whose handler returns the context of task t.               *)
Switch(t) ==
  /\ ~fresh /\ t # current_task
  /\ \E above, word \in Words :
       LET saved == [context EXCEPT ![current_task] = Saved(current_task, saved_regs(above))]
       IN  /\ context' = saved
           /\ cpu' = Resumed(saved[t], word)
  /\ interrupted' = [interrupted EXCEPT ![current_task] = cpu]
  /\ current_task' = t
  /\ fresh' = TRUE

Next == Execute \/ \E t \in Tasks : Switch(t)

Spec == Init /\ [][Next]_vars

-----------------------------------------------------------------------------
(* "Resume the next task using its saved context" (cpu.s): a user task     *)
(* that gets the processor goes on where it was interrupted, on its stack  *)
(* and in its segments.                                                    *)
ResumesWhereInterrupted ==
  fresh /\ current_task \in UserTasks =>
    \A r \in {"eip", "cs", "eflags", "esp", "ss"} :
      cpu[r] = interrupted[current_task][r]
=============================================================================
