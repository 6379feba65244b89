SPECIFICATION Spec
CONSTANTS
  InSize = 4
  OutSize = 2
  SlowSize = 4
  ExchangeKinds = {"fast", "slow", "boot2"}
  PostKinds = {"slow", "fast"}
  MaxRequests = 4
  MaxCards = 0
  MaxUploads = 0
  None = None
CHECK_DEADLOCK FALSE
INVARIANTS
  OwnReply
  RepliedBeforeLeaving
  NothingLost
  StopsAtRestOrFlooded
