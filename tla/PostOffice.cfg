SPECIFICATION FairSpec
CONSTANTS
    A = A
    B = B
    t1 = t1
    t2 = t2
    t3 = t3
    Machines = {A, B}
    Threads = {t1, t2, t3}
    Home <- HomeOfThree
    Boxes = {0}
    MaxSends = 1
    NoThread = NoThread
INVARIANTS OnePacketAtATime IInv
PROPERTIES LossyMailSpec SendReturns PacketsDelivered
CHECK_DEADLOCK TRUE
