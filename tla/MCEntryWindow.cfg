CONSTANTS
  MaxTasks = 2
  SysNos = {0, 1}
  TicksInExit = TRUE
SPECIFICATION Spec
INVARIANTS
  ReturnStateIntact
