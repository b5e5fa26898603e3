SPECIFICATION Spec
CONSTANTS
    P = P
    Q = Q
    ByteBits = 2
    GPR = {0, 1, 2, 3, 31}
    PageSize = 8
    TextPages = 2
    DataPages = 2
    NumPhysPages = 2
    TLBSize = 2
    Workloads <- Programs
INVARIANTS DirtyTracked
PROPERTIES FlatMipsSpec OwnMemory
CHECK_DEADLOCK TRUE
