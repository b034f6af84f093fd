SPECIFICATION FairSpec
CONSTANTS
    idle = idle
    low = low
    mid = mid
    high = high
    Task = {idle, low, mid, high}
    Idle = idle
    Blocked <- MCBlocked
    MaxPrio = 3
    MaxLock = 2
    Queue = {qa}
    NoQueue = noqueue
    NoTask = notask
    Base <- MCBase
    MsgPrio = {0, 1}
    MaxMsgs = 1
    NFixed = 1
    NIrq = 1
    MaxLen = 2
INVARIANTS
    WaitCountsMatch
    NoLostWakeup
    
    MessagesConserved
PROPERTIES
    ImplementsMqueueAbs
    TopReceiverReturns
