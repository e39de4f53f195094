CONSTANTS
  Writers = 2
  TaskLen = 3
  HandlerLen = 2
  Depth = 2
  MaxTicks = 3
SPECIFICATION Spec
INVARIANT WritesHaveRoom
CHECK_DEADLOCK FALSE
