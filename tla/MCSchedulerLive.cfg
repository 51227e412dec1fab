SPECIFICATION FairSpec
CONSTANTS
  TASK_MAX = 3
  SLOT_COUNT = 3
  QUANTUM = 2
  TICK_MOD = 4
  MS_MOD = 32
  MAX_PID = 5
  SleepMs <- MCSleepMs
PROPERTIES
  NoStarvation
  SleepersWake
