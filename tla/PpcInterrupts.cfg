SPECIFICATION FairSpec
CONSTANTS
  Sources = {"gpio1b", "reset", "ipc"}
  Mine = {"gpio1b", "reset"}
  ArmBoot = {"reset", "ipc"}
  ArmOwn = {"ipc"}
  Handled = {"gpio1b", "reset"}
  Gpio = "gpio1b"
  MaxOps = 4
  MaxEvents = 2
  MaxNesting = 2
  MaxReboots = 1
  None = None
CHECK_DEADLOCK FALSE
INVARIANTS
  OwnedByOne
PROPERTIES
  InterruptServed
