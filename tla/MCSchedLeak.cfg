CONSTANTS
  MaxTasks = 3
  TaskSlice = 2
  MaxFailedForks = 1
SPECIFICATION Spec
INVARIANT ScheduleEnablesPreemption
