SPECIFICATION Spec
CONSTANTS
  Id = {h1, h2}
  NoId = NoId
  Tabs = {t1, t2}
  Accounts = {Me}
  Peer = Peer
  NoAddr = NoAddr
  Deniers = {Me}
  MaxMoves = 0
INVARIANTS
  OneLot
  UnlocksWhatWasAgreed
  VerdictCoversTheTerms
PROPERTIES
  LotIsHeldInEscrow
SYMMETRY Interchangeable
CHECK_DEADLOCK FALSE
