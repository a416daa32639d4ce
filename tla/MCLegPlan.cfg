SPECIFICATION Spec
CONSTANTS
  LockHours <- SomeLockHours
  Spans <- SomeSpans
  Jumps <- SomeJumps
  Drifts <- SomeDrifts
  Horizon <- OneDay
  None = None
INVARIANTS
  TypeOK
  JudgedLegsAreOrdered
  AdviceWithRoomLandsRight
  AnswersAreOrdered
CHECK_DEADLOCK FALSE
