SPECIFICATION Spec
CONSTANTS
    NumSectors = 12
    NumDirect = 2
    FanOut = 2
    NumDirEntries = 4
    EntriesPerSector = 3
    Names = {"a", "b"}
    Sizes = {1, 3}
    Clients = {{}}
INVARIANTS NoSectorLeaks
CHECK_DEADLOCK TRUE
