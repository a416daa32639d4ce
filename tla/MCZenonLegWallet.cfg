SPECIFICATION Spec
CONSTANTS
  Id = {h1}
  NoId = NoId
  Tabs = {t1}
  Accounts = {Me, Other}
  Peer = Peer
  NoAddr = NoAddr
  Deniers = {Me}
  MaxMoves = 2
INVARIANTS
  TypeOK
  UnlocksWhatWasAgreed
  UnlocksAreReal
PROPERTIES
  YoungHtlcIsJudged
  PreimageIsRecovered
CHECK_DEADLOCK FALSE
