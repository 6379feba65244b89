CONSTANTS
    Cells = 2
    Csize = 2
    MaxClust = 8
    NFats = 2
    RootEntries = 8
    LongNames = {"long1"}
    LongParts = 1
    Fds = {1, 2}
    Programs <- MCPrograms
    BootPath <- MCBootPath
    BootParts <- MCBootParts
    FailAt = {0, 2, 4}
    Types = {"FAT16", "FAT32"}
SPECIFICATION Spec
VIEW FatView
INVARIANTS VolumeSound SyncedSurvives BootReads
PROPERTY Implements
CHECK_DEADLOCK FALSE
