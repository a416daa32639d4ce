SPECIFICATION Spec
CONSTANTS
  Output = {o1, o2}
  Contract = {k1, k2}
  None = None
  MaxUpsets = 1
SYMMETRY Interchangeable
INVARIANTS
  TypeOK
  RefundRecoversTheFunding
  SecretNotSoldShort
  OutcomeIsReal
  RedeemedMeansSecretKnown
  BoundFundingIsReal
  MissingRefundIsSaid
PROPERTIES
  RecordOnlyAdvances
CHECK_DEADLOCK FALSE
