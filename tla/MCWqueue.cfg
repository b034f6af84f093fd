SPECIFICATION FairSpec
CONSTANTS
    Work = {w1, w2, w3}
    NoWork = NoWork
    Caller = {task}
    Period = 2
    MaxDelay = 2
    MaxFree = 1
INVARIANTS TypeOK NoLostWakeup
PROPERTIES ImplementsWqueueAbs ImmediateWorkRuns
