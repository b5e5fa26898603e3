SPECIFICATION BoundedSpec
CONSTANTS
    NumSectors = 14
    NumDirect = 2
    FanOut = 2
    NumDirEntries = 5
    EntriesPerSector = 3
    Names = {a, b}
    a = a
    b = b
    Sizes = {1, 3, 5}
    MaxOperations = 5
    Clients = {{}, {"overcommit", "oversize", "removeAsFile", "removeDots", "enterFile", "writeDirectory", "useAfterCrash"}}
INVARIANTS ConsistentAtRest CurrentDirCoherent NeverDies CrashHurtsOnlyTarget AnswersAreTrue FreeMapProtected
CHECK_DEADLOCK TRUE
SYMMETRY Symmetry
