SPECIFICATION Spec
CONSTANTS
    t1 = t1
    t2 = t2
    t3 = t3
    idle = idle
    Task <- MCTask
    Idle = idle
    PrioBlocked <- MCPrioBlocked
    FifoBlocked <- MCFifoBlocked
    MaxPrio = 2
    MaxLock = 1
    Slice = 1
    Policies = {"none", "FIFO"}
SYMMETRY MCSymmetry
INVARIANTS ListsConsistent RunningIsHighest
PROPERTIES FifoWithinPriority ImplementsSchedAbs
\* Tasks may exit and delete one another until only idle is left.
CHECK_DEADLOCK FALSE
