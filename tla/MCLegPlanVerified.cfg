SPECIFICATION Spec
CONSTANTS
  LockHours <- SomeLockHours
  Spans <- SomeSpans
  Jumps <- SomeJumps
  Drifts <- SomeDrifts
  Horizon <- OneDay
  None = None
INVARIANT VerifiedLegsAreOrdered
CHECK_DEADLOCK FALSE
