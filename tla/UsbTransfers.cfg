SPECIFICATION FairSpec
CONSTANTS
  Kinds = {"keyboard", "disk", "hub"}
  MainOps = {"keys", "sector"}
  AddressMod = 256
  MaxMishaps = 2
  MaxReports = 1
  MaxOps = 1
  None = None
INVARIANTS
  PacketsToOwner
  TogglesAgree
  KeyboardAlive
  ChangeNoticed
PROPERTIES
  HandlerEnds
CHECK_DEADLOCK FALSE
