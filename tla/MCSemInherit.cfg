SPECIFICATION FairSpec
CONSTANTS
    idle = idle
    low = low
    mid = mid
    high = high
    mx = mx
    sg = sg
    NoSem = NoSem
    Blocked <- MCBlocked
    Task <- MCTask
    Idle = idle
    MaxPrio = 3
    MaxLock = 1
    Base <- MCBase
    Uses <- UsesNotMiddle
    Sem = {mx}
    Mutex = {mx}
    NNestPrio = 4
    Prealloc = 4
    MaxPend = 2
    MaxCount = 1
 
PROPERTIES TopWaiterReturns
