SPECIFICATION TimingSpec
CONSTANTS
    SectorsPerTrack = 4
    NumTracks = 3
    RotationTime = 3
    SeekTime = 2
    IntMax = 255
    MaxDelay = 3
    MaxTicks = 90
INVARIANTS TransferUnderHead NoLongerThanNeeded
CHECK_DEADLOCK TRUE
