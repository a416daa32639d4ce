SPECIFICATION Spec
CONSTANTS
  Stakers = {"funds"}
  Budget = 3
  MaxPresses = 1
INVARIANTS
  TypeOK
  ClaimsWereSent
  SaidOncePerReason
  CopiesApplyOnce
PROPERTIES
  ResyncRepairs
  HandsOverTheRightContract
CHECK_DEADLOCK FALSE
