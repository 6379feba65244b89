SPECIFICATION FairSpec
CONSTANTS
  InSize = 2
  OutSize = 2
  SlowSize = 4
  ExchangeKinds = {"fast", "slow", "nand"}
  PostKinds = {"poke"}
  MaxRequests = 3
  MaxCards = 1
  MaxUploads = 0
  None = None
CHECK_DEADLOCK FALSE
INVARIANTS
  EarlierDone
PROPERTIES
  CallReturns
