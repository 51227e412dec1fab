SPECIFICATION Spec
CONSTANTS
  TASK_MAX = 3
  TOTAL_FRAMES = 12
  MAX_USER_CODE_PAGES = 2
  MAX_USER_HEAP_PAGES = 2
  Images <- MCImages
  MAX_CALLS = 6
INVARIANTS
  TablesPerTask
CHECK_DEADLOCK FALSE
