SPECIFICATION Spec
CONSTANTS
    idle = idle
    low = low
    mid = mid
    high = high
    mx = mx
    sg = sg
    NoSem = NoSem
    Blocked <- MCBlocked
    Task <- MCTask
    Idle = idle
    MaxPrio = 3
    MaxLock = 1
    Base <- MCBase
    Uses <- UsesAll
    Sem = {mx}
    Mutex = {mx}
    NNestPrio = 4
    Prealloc = 4
    MaxPend = 1
    MaxCount = 1
INVARIANTS TypeOK RunningIsHighest   HoldersAreUsers NeverBelowBase TimeoutOnlyInTimedWait
 
