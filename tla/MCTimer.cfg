CONSTANTS
  Writers = 2
  TaskLen = 3
  HandlerLen = 3
  EnterLen = 1
  Depth = 2
  MaxTicks = 3
  Period = 3
SPECIFICATION TimerSpec
INVARIANTS
  TimerInv
  InOrder
  HandlerWhole
  LostBounded
PROPERTIES
  HandlerReturns
  TicksApart
  TimeLeftForTasks
  Ticking
