SPECIFICATION LiveSpec
CONSTANTS
  Call = {c1, c2}
  Tab = {t1, t2}
  NoCall = NoCall
  NoRecord = NoRecord
  Lapsed = Lapsed
  MaxRetry = 1
  MaxVersion = 3
PROPERTIES
  EveryCallAnswered
CHECK_DEADLOCK FALSE
