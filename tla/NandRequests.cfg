SPECIFICATION FairSpec
CONSTANTS
  NumPages = 2
  BlockSize = 1
  DefaultMin = 1
  Texts = {a}
  Blank = Blank
  Mix = Mix
  MaxRequests = 3
  MaxWaiting = 1
  None = None
CHECK_DEADLOCK FALSE
INVARIANTS
  AnsweredOnce
PROPERTIES
  Protected
  RepliesTruthful
  EveryRequestAnswered
