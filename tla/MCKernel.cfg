CONSTANTS
  MaxTasks = 4
  TaskSlice = 2
  MaxFailedForks = 1
  PageNum = 5
SPECIFICATION KernelFairSpec
INVARIANTS
  KInv
  ReferencedTasksKept
  ClonesHaveStacks
PROPERTIES
  MmSpec
  ComesUp
