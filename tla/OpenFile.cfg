SPECIFICATION Spec
CONSTANTS
    T1 = T1
    T2 = T2
    H1 = H1
    H2 = H2
    H3 = H3
    H4 = H4
    Threads = {T1, T2}
    Handles = {H1, H2, H3, H4}
    SectorSize = 2
    FanOut = 2
    Length <- Lengths
    Direct = {"dir"}
    Unix <- UnixFiles
    Blank <- Blanks
    Present = {"f", "dir"}
    NoRoom = {"huge"}
    Scripts <- Theirs
    TransferSize = 3
    Contents <- Letters
    Junk = Junk
    NoFile = NoFile
INVARIANTS CopyIsPrinted PerformanceTestPasses
PROPERTIES FlatFileSpec ScriptsEnd
CHECK_DEADLOCK TRUE
