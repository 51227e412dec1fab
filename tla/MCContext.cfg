SPECIFICATION Spec
CONSTANTS
  Tasks = {"k", "u", "v"}
  UserTasks = {"u", "v"}
  Words = {100, 200}
INVARIANTS
  ResumesWhereInterrupted
