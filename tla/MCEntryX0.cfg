CONSTANTS
  MaxTasks = 2
  SysNos = {0, 1}
  TicksInExit = FALSE
SPECIFICATION Spec
INVARIANTS
  X0Kept
