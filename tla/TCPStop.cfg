SPECIFICATION FairSpec
CONSTANTS
    A = A
    B = B
    Machines = {A, B}
    Id <- IdOfTwo
    NoMachine = NoMachine
    Scripts <- EndScripts
    Listeners = {B}
    Token <- Differ
    InfoToken = 50
    MaxCatch = 1
    MaxReemissions = 1
    MaxConnectionReemissions = 1
INVARIANTS WakeUpForEachWait
PROPERTIES StopEndsReceive SendersReturn
CHECK_DEADLOCK TRUE
