------------------------------ MODULE IdleYield ------------------------------
(***************************************************************************)
(* The task_yield() at the end of every round of the kernel_idle loop      *)
(* (kernel/kernel.c), added to Scheduler.  It is a plain call: it changes  *)
(* current_task and the ready list, and the context it returns is dropped. *)
(***************************************************************************)
EXTENDS Scheduler

IdleYieldCall ==
  /\ cpu = Idle /\ building = NULL
  /\ TaskSchedule(task, rl)
  /\ UNCHANGED <<slots, next_pid, pit_ticks, building, ctx, cpu>>

IdleNext == Next \/ IdleYieldCall

(* The timer keeps ticking and kernel_idle, whenever it has the processor, *)
(* gets to the end of its round.                                           *)
IdleSpec == Init /\ [][IdleNext]_vars /\ WF_vars(Tick) /\ WF_vars(IdleYieldCall)

(* "Yield to allow other tasks to run" (kernel_idle): a task in the ready  *)
(* list gets the processor.                                                *)
YieldLetsOthersRun == \A t \in Tasks : t \in ReadyTasks ~> (cpu = t)
=============================================================================
