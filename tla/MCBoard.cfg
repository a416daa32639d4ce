SPECIFICATION Spec
CONSTANTS
  Tabs = {t1, t2}
  Relays = {r1}
  Readers = {c1}
  None = None
  Life = 2
  MinPostTTL = 1
  MaxTime = 2
  MaxVersions = 2
INVARIANTS
  TypeOK
  RepublishIsNewer
  ShowsTheNewestRead
PROPERTIES
  ForgetsNoStandingOffer
  WithdrawalIsSeen
  PostIsASlot
CHECK_DEADLOCK FALSE
