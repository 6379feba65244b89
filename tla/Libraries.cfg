SPECIFICATION Spec
CONSTANTS
    SbrkStart = 64
    SbrkEnd = 768
    TreebinShift = 6
    SizeBits = 16
    TrimThreshold = 200
    Handles = {1, 2, 3, 4, 5, 6, 7}
    Callers <- MCCallers
    ClusterSize = 2
    Images <- MCImages
    Paths <- MCPaths
    Counts = {1, 2, 3, 9}
    Offsets <- MCOffsets
    MaxCalls = 5
    LastBlock = 3
    BlockPages = 2
    CounterSize = 8
    Chips <- MCChips
    Menu = menu
    Titles = {menu, channel}
    CharBits = 4
    ShortBits = 6
    IntBits = 11
    Requests <- MCRequests
    LineCells = 2
    Cells = 8
    Chunk = 2
    Jobs <- MCJobs
    BlockCells = 8
    Batch = 8
    WordBits = 6
    MaxMessage = 150
    CacheSize = 2
    StampMod = 8
    Sectors = {0, 1, 2}
    Data = {a}
    MaxAccess = 8
    Empty = Empty
INVARIANTS
    HeapKeeps HeapFits ReadsItsFile BootsWhole FormatsAlike ReadsPlaintext HashesMessage
PROPERTIES
    CacheIsLru
CHECK_DEADLOCK FALSE
