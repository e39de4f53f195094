CONSTANTS
  MaxTasks = 4
  PageNum = 7
  CloneCalls = {"sys_exit"}
SPECIFICATION Spec
INVARIANTS
  IInv
  Exclusive
  MapIsUse
  CheckedStillFree
  RefusedOnlyWhenFull
  FreesItsOwn
  EarlyCallsSucceed
\* Once no program allocates or exits any more, nothing here has a step left.
CHECK_DEADLOCK FALSE
