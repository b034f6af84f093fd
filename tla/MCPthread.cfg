SPECIFICATION PSpec
CONSTANTS
    idle = idle
    low = low
    mid = mid
    high = high
    mx = mx
    cv = cv
    NoSem = NoSem
    NoTask = NoTask
    Blocked <- MCBlocked
    Task <- MCTask2
    Idle = idle
    MaxPrio = 3
    MaxLock = 2
    Base <- MCBase
    Uses <- UsesAll
    Sem = {mx, cv}
    Mutex = {mx}
    NNestPrio = 4
    Prealloc = 4
    MaxPend = 2
    MaxCount = 2
INVARIANTS
    PidNamesOwner
    LockContract
    CallsRestore
\* MaxCount and MaxPend cut calls short; a thread then waits for good.
CHECK_DEADLOCK FALSE
