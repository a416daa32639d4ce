SPECIFICATION Spec
CONSTANTS
  LockHours <- SomeLockHours
  Spans <- SomeSpans
  Jumps <- SomeJumps
  Drifts <- SomeDrifts
  Horizon <- OneDay
  None = None
PROPERTY SignsOnlyOrderedBlocks
CHECK_DEADLOCK FALSE
