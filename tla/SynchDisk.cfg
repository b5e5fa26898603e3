SPECIFICATION FairSpec
CONSTANTS
    Threads = {t1, t2}
    Sectors = {0, 1}
    Data = {d1, d2}
    NoOp = NoOp
    NoThread = NoThread
INVARIANTS NoOverlappingRequest WokenByOwnInterrupt
PROPERTIES AtomicDiskSpec CallsReturn
CHECK_DEADLOCK TRUE
