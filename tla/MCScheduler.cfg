SPECIFICATION Spec
CONSTANTS
  TASK_MAX = 4
  SLOT_COUNT = 4
  QUANTUM = 1
  TICK_MOD = 3
  MS_MOD = 32
  MAX_PID = 6
  SleepMs <- MCSleepMs
INVARIANTS
  TypeOK
  ReadyListOK
  RunsCurrent
  StackSlotsOwned
  ChildrenAreOurs
PROPERTIES
  ZombiesStayDead
  NoOvertaking
