SPECIFICATION Spec
CONSTANTS
  InSize = 2
  OutSize = 4
  SlowSize = 4
  ExchangeKinds = {"slow", "nand", "ppcboot"}
  PostKinds = {"mute"}
  MaxRequests = 3
  MaxCards = 0
  MaxUploads = 1
  None = None
CHECK_DEADLOCK FALSE
INVARIANTS
  RegistersAgree
  ExecutedOnce
PROPERTIES
  RingsAreFifos
