SPECIFICATION Spec
CONSTANTS
  CacheSize = 1
  StampMod = 3
  Sectors = {0, 1}
  Texts = {a, b}
  Torn = Torn
  Data <- MCData
  MaxCards = 2
  MaxAccess = 3
  None = None
INVARIANTS
  CacheCoherent
  NoSilentExchange
  ReadFromOneCard
