SPECIFICATION Spec
CONSTANTS
  NumPages = 3
  BlockSize = 2
  DefaultMin = 2
  Texts = {a}
  Blank = Blank
  Mix = Mix
  MaxRequests = 2
  MaxWaiting = 1
  None = None
INVARIANTS
  RefusedOnlyIfBusy
CHECK_DEADLOCK FALSE
