CONSTANTS
  MaxTasks = 3
  TaskSlice = 2
  MaxFailedForks = 0
SPECIFICATION Spec
INVARIANT TailGivenPrev
