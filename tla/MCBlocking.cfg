SPECIFICATION BSpec
CONSTANTS
  TASK_MAX = 3
  SLOT_COUNT = 3
  QUANTUM = 2
  TICK_MOD = 4
  MS_MOD = 32
  MAX_PID = 4
  SleepMs <- MCSleepMs
INVARIANT WaitersDoNotExecute
