SPECIFICATION FairSpec
CONSTANTS
  Base = 2
  WordMod = 4
  WordBytes = 2
  ArmCmd = 2
  PpcCmd = 3
  MaxLen = 2
  FileLen = 1
  Timeout = 2
  TimerMod = 5
  MaxUploads = 2
CHECK_DEADLOCK FALSE
INVARIANTS
  MemoryIsMine
  RunsWhole
PROPERTIES
  TimeoutIsDue
