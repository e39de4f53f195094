CONSTANTS
  MaxTasks = 4
  PageNum = 8
  CloneCalls = {"sys_malloc", "sys_clone"}
SPECIFICATION Spec
INVARIANT StacksApart
CHECK_DEADLOCK FALSE
