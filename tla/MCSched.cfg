CONSTANTS
  MaxTasks = 4
  TaskSlice = 2
  MaxFailedForks = 1
SPECIFICATION FairSpec
INVARIANTS
  IInv
  NeverPreemptedInside
  PreemptCountBalanced
  RingMatchesTable
  InterruptsOnInBodies
  WalkEnds
  SliceTidiedOrOwed
PROPERTIES
  ZombieNeverRunsAgain
  RoundRobinSpec
  LiveTaskRuns
