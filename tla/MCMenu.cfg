SPECIFICATION Spec
CONSTANTS
  Keys = {0, 119, 80, 10, 27, 46, 33}
  MAX_INPUT = 4
  NAME_MAX = 2
  EXT_MAX = 1
  MAX_OPEN_FILES = 2
INVARIANTS
  TypeOK
  ScreenInStep
  NamesAccepted
  ResourcesPaired
CHECK_DEADLOCK FALSE
