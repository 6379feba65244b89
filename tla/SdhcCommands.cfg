SPECIFICATION FairSpec
CONSTANTS
  Command <- MCCommand
  Quirks = {"late", "busy", "cards"}
  MaxChanges = 2
INVARIANTS
  SuccessIsOwn
PROPERTIES
  ExecReturns
