SPECIFICATION Spec
CONSTANTS
  Call = {c1, c2, c3}
  Tab = {t1, t2}
  NoCall = NoCall
  NoRecord = NoRecord
  Lapsed = Lapsed
  MaxRetry = 1
  MaxVersion = 3
SYMMETRY Interchangeable
INVARIANTS
  TypeOK
  RefusedMeansUntouched
  OutcomeOnItsOwnRecord
PROPERTIES
  RecordIsAtomic
CHECK_DEADLOCK FALSE
