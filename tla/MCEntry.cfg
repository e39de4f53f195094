CONSTANTS
  MaxTasks = 3
  SysNos = {0, 1, 2, 3, 4}
  TicksInExit = FALSE
SPECIFICATION Spec
INVARIANTS
  IInv
  UserContextKept
  InterruptedCodeResumes
  PtRegsIsUserFrame
  FramesBounded
