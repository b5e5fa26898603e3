SPECIFICATION FairSpec
CONSTANTS
    Threads = {"main", "t1", "t2"}
    Main = "main"
    SystemTick = 2
    UserTick = 1
    TimerDelays = {5}
    DeviceDelays = {1, 2}
    MaxFrames = 4
INVARIANTS NoneDueWhenEnabled StatusIsThreadsOwn HaltsWhenDone IInv
PROPERTIES ReadyRuns
CHECK_DEADLOCK TRUE
