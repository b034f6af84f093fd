SPECIFICATION Spec
CONSTANTS
    idle = idle
    low = low
    mid = mid
    high = high
    mx = mx
    sg = sg
    NoSem = NoSem
    Blocked <- MCBlocked
    Task <- MCTask2
    Idle = idle
    MaxPrio = 3
    MaxLock = 1
    Base <- MCBase
    Uses <- UsesAll
    Sem = {mx, sg}
    Mutex = {mx}
    NNestPrio = 4
    Prealloc = 1
    MaxPend = 2
    MaxCount = 1
PROPERTIES ImplementsSemAbs
