----------------------------- MODULE MCScheduler -----------------------------
(* Instances of Scheduler for TLC: kernel_idle and a few user tasks.        *)
EXTENDS Scheduler

(* One tick, two ticks, and an argument for which ms + 9 wraps around.     *)
MCSleepMs == {0, 15, 28}
=============================================================================
