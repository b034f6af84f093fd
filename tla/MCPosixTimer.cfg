SPECIFICATION Spec
CONSTANTS
    Dog = {wd1, wd2, wd3, wd4}
    Pool = {wd1, wd2}
    StaticDog = {wd4}
    IntReserve = 1
    MaxDelay = 2
    NoDog = nodog
    Task = {o1, o2}
    Timer = {tm1}
    TimerPool = {tm1}
    NoTimer = notimer
    NoTask = notask

    
    
    
PROPERTIES
    ImplementsWatchdogAbs
    WatchdogLeavesList
